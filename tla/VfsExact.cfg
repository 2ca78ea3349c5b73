SPECIFICATION Spec
CONSTANTS
    t1 = t1
    t2 = t2
    inotify = inotify
    nobody = nobody
    nodir = nodir
    Data = Data
    Docs = Docs
    low = low
    high = high
    over = over
    docs = docs
    plugin = plugin
    texture = texture
    Threads = {t1}
    Listener = inotify
    NoOne = nobody
    NoDir = nodir
    Folders = {Data, Docs}
    Names = {plugin, texture}
    Dirs <- TwoLayeredDirs
    FolderPaths <- TwoLayeredPaths
    WriteDir <- TwoFolderWrite
    ReverseFolder <- TwoLayeredReverse
    Intents = {"Read", "Create"}
    Outcomes = {"ok"}
    ExternalDirs = {}
    MaxEvents = 2
INVARIANT LookupExact
