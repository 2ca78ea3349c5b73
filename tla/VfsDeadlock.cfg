SPECIFICATION FairSpec
CONSTANTS
    t1 = t1
    t2 = t2
    inotify = inotify
    nobody = nobody
    nodir = nodir
    Data = Data
    Docs = Docs
    low = low
    high = high
    over = over
    docs = docs
    plugin = plugin
    texture = texture
    Threads = {t1, t2}
    Listener = inotify
    NoOne = nobody
    NoDir = nodir
    Folders = {Data, Docs}
    Names = {plugin}
    Dirs <- TwoFolderDirs
    FolderPaths <- TwoFolderPaths
    WriteDir <- TwoFolderWrite
    ReverseFolder <- TwoFolderReverse
    Intents = {"Read", "Create"}
    Outcomes = {"ok"}
    ExternalDirs = {}
    MaxEvents = 2
CHECK_DEADLOCK FALSE
PROPERTY CallsReturn
