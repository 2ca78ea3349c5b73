SPECIFICATION FairSpec
CONSTANTS
    Names <- MCNames
    Dirs <- MCDirs
    Files <- MCFiles
    NoPath = NoPath
    MaxQueue = 2
    MaxChanges = 3
INVARIANTS TypeOK Unmissed FolderNotMapped
PROPERTIES Noticed
