SPECIFICATION Spec
CONSTANTS
    t1 = t1
    t2 = t2
    inotify = inotify
    nobody = nobody
    nodir = nodir
    Data = Data
    Docs = Docs
    low = low
    high = high
    over = over
    docs = docs
    plugin = plugin
    texture = texture
    Threads = {t1, t2}
    Listener = inotify
    NoOne = nobody
    NoDir = nodir
    Folders = {Data}
    Names = {plugin}
    Dirs <- ModsDirs
    FolderPaths <- ModsPaths
    WriteDir <- ModsWrite
    ReverseFolder <- ModsReverse
    Intents = {"Read"}
    Outcomes = {"ok"}
    ExternalDirs = {}
    MaxEvents = 1
INVARIANT LookupExact
