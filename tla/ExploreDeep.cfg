SPECIFICATION Spec
CONSTANTS
    Names <- MCNames
    VfsFiles <- OverwriteFile
    Trees <- DeepTrees
    Homes <- LayeredHomes
    Calls <- DeepCalls
    Loading = {"lazy"}
    Suffix <- Whole
    NoFile = NoFile
    Undefined = Undefined
INVARIANT ContainsAll
