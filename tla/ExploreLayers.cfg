SPECIFICATION Spec
CONSTANTS
    Names <- MCNames
    VfsFiles <- LayeredFiles
    Trees <- LayeredTrees
    Homes <- LayeredHomes
    Calls <- LayeredCalls
    Loading = {"lazy", "full"}
    Suffix <- Whole
    NoFile = NoFile
    Undefined = Undefined
INVARIANTS TypeOK LayersKnown ListingExact ReverseExact LayersWatched
PROPERTIES Implements InPlace
