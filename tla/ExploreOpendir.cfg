SPECIFICATION Spec
CONSTANTS
    Names <- MCNames
    VfsFiles <- OverwriteFile
    Trees <- LayeredTrees
    Homes <- OwnHomes
    Calls <- OwnCalls
    Loading = {"lazy"}
    Suffix <- Whole
    NoFile = NoFile
    Undefined = Undefined
INVARIANT WritesRedirected
