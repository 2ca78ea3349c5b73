------------------------------ MODULE VfsLookup ------------------------------
(***************************************************************************)
(* The concurrent core of winevfs (src/src/vfs.cpp): what one intercepted  *)
(* libc call does between winevfs_get_path() and the original function,    *)
(* when several threads of the hooked program and the inotify listener     *)
(* thread work on the same tables.                                         *)
(*                                                                         *)
(* A virtual folder is backed by a load order of real directories.  It is  *)
(* "explored" lazily: the first lookup that misses below it scans every    *)
(* backing directory, lowest priority first, and registers each file.      *)
(* Afterwards only inotify events and the program's own creations add      *)
(* entries.  Names stand for lower-cased file names directly below a       *)
(* folder; nested folders are not part of this module.                     *)
(*                                                                         *)
(* The locks: processing is winevfs_client_processing_mutex, folder_mutex  *)
(* is winevfs_folder_mappings_mutex, write_mutex is write_mappings_mutex.  *)
(* read_mappings_mutex and the cache mutexes are leaves held for a single  *)
(* table access, so each such access is one step.  A lock taken and        *)
(* released within one step only has to be free.                           *)
(***************************************************************************)
EXTENDS Integers, Sequences, FiniteSets

CONSTANTS
    Threads,       \* threads of the hooked program
    Listener,      \* the inotify listener thread
    NoOne,         \* owner of a free mutex
    Folders,       \* virtual folders named in the VFS file
    Names,         \* file names below a folder
    Dirs,          \* real directories that back the folders
    NoDir,         \* no mapping: the path is left as the program gave it
    FolderPaths,   \* [Folders -> Seq(Dirs)], lowest priority first
    WriteDir,      \* [Folders -> Dirs \cup {NoDir}], the W record
    ReverseFolder, \* [Dirs -> Folders]
    Intents,       \* the intents the program's calls have
    Outcomes,      \* what the original libc function may answer
    ExternalDirs,  \* directories other processes create and delete files in
    MaxEvents      \* bound: inotify events queued at once

RangeOf(s) == {s[i] : i \in 1..Len(s)}

ASSUME OwnersDiffer ==
    /\ Folders # {} /\ Names # {}
    /\ Listener \notin Threads
    /\ NoOne \notin Threads \cup {Listener}
    /\ NoDir \notin Dirs

\* Every folder of the VFS file names at least one directory, and every real
\* directory is named for one folder.
ASSUME FolderPathsType ==
    /\ FolderPaths \in [Folders -> Seq(Dirs)]
    /\ ReverseFolder \in [Dirs -> Folders]
    /\ \A f \in Folders :
          /\ FolderPaths[f] # << >>
          /\ \A d \in RangeOf(FolderPaths[f]) : ReverseFolder[d] = f
    /\ \A d \in Dirs : d \in RangeOf(FolderPaths[ReverseFolder[d]])

\* winevfs_read_vfsfile registers a W directory as a read folder as well.
ASSUME WriteDirType ==
    /\ WriteDir \in [Folders -> Dirs \cup {NoDir}]
    /\ \A f \in Folders : WriteDir[f] \in RangeOf(FolderPaths[f]) \cup {NoDir}

ASSUME InputTypes ==
    /\ Intents \subseteq {"Read", "Create", "Delete"}
    /\ Outcomes \subseteq {"ok", "fail"}
    /\ ExternalDirs \subseteq Dirs
    /\ MaxEvents \in Nat

VARIABLES
    files,          \* the real file system: names present in each directory
    events,         \* inotify queue, its head is the event being handled
    read_mappings,  \* real directory each (folder, name) is redirected to
    children,       \* names a folder lists besides its real entries
    explored,       \* folder_mapping.explored
    processing, folder_mutex, write_mutex,   \* owners of the three mutexes
    pc, intent, folder, name,                \* the call a thread is in
    result,         \* directory its path is redirected to
    index, todo, entry   \* its scan: position in foldervec, entries left

tables   == <<read_mappings, children, explored>>
disk     == <<files, events>>
locks    == <<processing, folder_mutex, write_mutex>>
call     == <<intent, folder, name>>
scan     == <<index, todo, entry>>
vars     == <<disk, tables, locks, pc, call, result, scan>>

Processes == Threads \cup {Listener}
Events    == [op : {"R", "D"}, dir : Dirs, name : Names]

ThreadPc ==
    {"idle", "gate", "find", "check", "wmap", "lock", "open", "scan", "child",
     "again", "folder", "lockwrite", "wchild", "delete", "syscall"}
ListenerPc == {"idle", "map", "list", "erase"}

\* Where a thread holds processing: the loop over foldervec.
Exploring == {"open", "scan", "child"}

\* The backing directories in the order an exploration scans them: the
\* folder's paths, then its write directory, scanned last and so on top.
FolderVec(f) ==
    IF WriteDir[f] = NoDir THEN FolderPaths[f]
                           ELSE Append(FolderPaths[f], WriteDir[f])

\* Variant: the directories are scanned highest priority first.
ScannedDirReversed(t) ==
    FolderVec(folder[t])[Len(FolderVec(folder[t])) + 1 - index[t]]

\* The directory thread t is scanning.
ScannedDir(t) == FolderVec(folder[t])[index[t]]

\* What an exploration that nothing disturbs leaves as the mapping of n.
Backers(f, n) == {i \in 1..Len(FolderVec(f)) : n \in files[FolderVec(f)[i]]}
Winner(f, n) ==
    IF Backers(f, n) = {} THEN NoDir
    ELSE FolderVec(f)[CHOOSE i \in Backers(f, n) :
                         \A j \in Backers(f, n) : j <= i]

\* What the locals of a thread outside a call, or past their use, are set to.
AnyFolder == CHOOSE f \in Folders : TRUE
AnyName   == CHOOSE n \in Names : TRUE

Goto(p, label) == pc' = [pc EXCEPT ![p] = label]
Free(mutex) == mutex = NoOne

-----------------------------------------------------------------------------

Init ==
    /\ files \in [Dirs -> SUBSET Names]
    /\ events = << >>
    /\ read_mappings = [f \in Folders |-> [n \in Names |-> NoDir]]
    /\ children = [f \in Folders |-> {}]
    /\ explored = [f \in Folders |-> FALSE]
    /\ processing = NoOne /\ folder_mutex = NoOne /\ write_mutex = NoOne
    /\ pc = [p \in Processes |-> "idle"]
    /\ intent = [t \in Threads |-> "Read"]
    /\ folder = [t \in Threads |-> AnyFolder]
    /\ name = [t \in Threads |-> AnyName]
    /\ result = [t \in Threads |-> NoDir]
    /\ index = [t \in Threads |-> 1]
    /\ todo = [t \in Threads |-> {}]
    /\ entry = [t \in Threads |-> AnyName]

-----------------------------------------------------------------------------
(* winevfs_get_path *)

\* The program calls an intercepted function on folder f, name n.
Call(t, i, f, n) ==
    /\ pc[t] = "idle"
    /\ intent' = [intent EXCEPT ![t] = i]
    /\ folder' = [folder EXCEPT ![t] = f]
    /\ name' = [name EXCEPT ![t] = n]
    /\ Goto(t, "gate")
    /\ UNCHANGED <<disk, tables, locks, result, scan>>

\* Wait for the thread that is exploring or the event that is being applied,
\* and let go of the mutex at once.
Gate(t) ==
    /\ pc[t] = "gate"
    /\ Free(processing)
    /\ Goto(t, "find")
    /\ UNCHANGED <<disk, tables, locks, call, result, scan>>

\* The path is known: give it back, or forget its entry first.
Return(t, d) ==
    /\ result' = [result EXCEPT ![t] = d]
    /\ Goto(t, IF intent[t] = "Delete" THEN "delete" ELSE "syscall")

\* find_read_mapping: the lookup proper.
FindMapping(t) ==
    /\ pc[t] = "find"
    /\ LET d == read_mappings[folder[t]][name[t]] IN
          \/ d # NoDir /\ Return(t, d)
          \/ d = NoDir /\ Goto(t, "check") /\ UNCHANGED result
    /\ UNCHANGED <<disk, tables, locks, call, scan>>

\* Variant: the folder is explored whenever a lookup misses.
CheckFolderAlways(t) ==
    /\ pc[t] = "check"
    /\ Free(folder_mutex)
    /\ Goto(t, "wmap") /\ folder_mutex' = t
    /\ UNCHANGED <<disk, tables, processing, write_mutex, call, result, scan>>

\* find_read_mapping: is the folder still to be explored?  If it is, the
\* folder mutex is kept while the write mapping is looked up.
CheckFolder(t) ==
    /\ pc[t] = "check"
    /\ Free(folder_mutex)
    /\ \/ explored[folder[t]] /\ Goto(t, "folder") /\ UNCHANGED folder_mutex
       \/ ~explored[folder[t]] /\ Goto(t, "wmap") /\ folder_mutex' = t
    /\ UNCHANGED <<disk, tables, processing, write_mutex, call, result, scan>>

\* find_write_mapping, and the end of the block that holds the folder mutex.
SnapshotFolder(t) ==
    /\ pc[t] = "wmap"
    /\ Free(write_mutex)
    /\ folder_mutex' = NoOne
    /\ Goto(t, "lock")
    /\ UNCHANGED <<disk, tables, processing, write_mutex, call, result, scan>>

\* Nothing is checked again once the mutex is held.
LockProcessing(t) ==
    /\ pc[t] = "lock"
    /\ Free(processing)
    /\ processing' = t
    /\ Goto(t, "open")
    /\ UNCHANGED <<disk, tables, folder_mutex, write_mutex, call, result, scan>>

\* winevfs_add_read_directory: register and watch the directory, opendir it.  No
\* directory of this module goes away: for one that does, the return of vfs.cpp:462
\* and the mapping of vfs.cpp:531 are in Watches and Exploration.
OpenDirectory(t) ==
    /\ pc[t] = "open"
    /\ Free(folder_mutex)
    /\ todo' = [todo EXCEPT ![t] = files[ScannedDir(t)]]
    /\ Goto(t, "scan")
    /\ UNCHANGED <<disk, tables, locks, call, result, index, entry>>

\* Variant: the first directory that has the file keeps it.
AddReadEntryFirst(t, n) ==
    /\ pc[t] = "scan"
    /\ n \in todo[t]
    /\ read_mappings' = IF read_mappings[folder[t]][n] # NoDir
                        THEN read_mappings
                        ELSE [read_mappings EXCEPT
                                 ![folder[t]][n] = ScannedDir(t)]
    /\ todo' = [todo EXCEPT ![t] = @ \ {n}]
    /\ entry' = [entry EXCEPT ![t] = n]
    /\ Goto(t, "child")
    /\ UNCHANGED <<disk, children, explored, locks, call, result, index>>

\* One directory entry: _add_read_entry replaces the read mapping ...
AddReadEntry(t, n) ==
    /\ pc[t] = "scan"
    /\ n \in todo[t]
    /\ read_mappings' = [read_mappings EXCEPT ![folder[t]][n] = ScannedDir(t)]
    /\ todo' = [todo EXCEPT ![t] = @ \ {n}]
    /\ entry' = [entry EXCEPT ![t] = n]
    /\ Goto(t, "child")
    /\ UNCHANGED <<disk, children, explored, locks, call, result, index>>

\* Variant: the destination is listed instead of the name.
AddChildDestination(t) ==
    /\ pc[t] = "child"
    /\ Free(folder_mutex)
    /\ children' = [children EXCEPT ![folder[t]] = @ \cup {ScannedDir(t)}]
    /\ entry' = [entry EXCEPT ![t] = AnyName]
    /\ Goto(t, "scan")
    /\ UNCHANGED <<disk, read_mappings, explored, locks, call, result,
                   index, todo>>

\* ... and then, under the folder mutex, adds the name to the listing.
AddChild(t) ==
    /\ pc[t] = "child"
    /\ Free(folder_mutex)
    /\ children' = [children EXCEPT ![folder[t]] = @ \cup {entry[t]}]
    /\ entry' = [entry EXCEPT ![t] = AnyName]
    /\ Goto(t, "scan")
    /\ UNCHANGED <<disk, read_mappings, explored, locks, call, result,
                   index, todo>>

\* readdir need not return an entry that was removed after the opendir.
SkipRemoved(t, n) ==
    /\ pc[t] = "scan"
    /\ n \in todo[t] \ files[ScannedDir(t)]
    /\ todo' = [todo EXCEPT ![t] = @ \ {n}]
    /\ UNCHANGED <<disk, tables, locks, pc, call, result, index, entry>>

\* Variant: the loop ends after the first directory.
CloseDirectoryFirst(t) ==
    /\ pc[t] = "scan"
    /\ todo[t] = {}
    /\ explored' = [explored EXCEPT ![folder[t]] = TRUE]
    /\ Goto(t, "again")
    /\ processing' = NoOne
    /\ UNCHANGED <<disk, read_mappings, children, folder_mutex, write_mutex,
                   call, result, scan>>

\* Variant: the iterator over foldervec is not advanced.
CloseDirectorySame(t) ==
    /\ pc[t] = "scan"
    /\ todo[t] = {}
    /\ explored' = [explored EXCEPT ![folder[t]] = TRUE]
    /\ Goto(t, "open")
    /\ UNCHANGED <<disk, read_mappings, children, locks, call, result, scan>>

\* readdir returned NULL.  The folder counts as explored as soon as its first
\* directory is done; the mutex is released after the last one.
CloseDirectory(t) ==
    /\ pc[t] = "scan"
    /\ todo[t] = {}
    /\ explored' = [explored EXCEPT ![folder[t]] = TRUE]
    /\ \/ /\ index[t] < Len(FolderVec(folder[t]))
          /\ index' = [index EXCEPT ![t] = @ + 1]
          /\ Goto(t, "open")
          /\ UNCHANGED processing
       \/ /\ index[t] = Len(FolderVec(folder[t]))
          /\ index' = [index EXCEPT ![t] = 1]
          /\ Goto(t, "again")
          /\ processing' = NoOne
    /\ UNCHANGED <<disk, read_mappings, children, folder_mutex, write_mutex,
                   call, result, todo, entry>>

\* Variant: the lookup is not repeated after the exploration.
FindAgainNever(t) ==
    /\ pc[t] = "again"
    /\ Goto(t, "folder")
    /\ UNCHANGED <<disk, tables, locks, call, result, scan>>

\* find_read_mapping(path, simple = true), after the exploration.
FindAgain(t) ==
    /\ pc[t] = "again"
    /\ LET d == read_mappings[folder[t]][name[t]] IN
          \/ d # NoDir /\ Return(t, d)
          \/ d = NoDir /\ Goto(t, "folder") /\ UNCHANGED result
    /\ UNCHANGED <<disk, tables, locks, call, scan>>

\* Variant: a path to create is treated like one to read.
FolderLookupReads(t) ==
    /\ pc[t] = "folder"
    /\ Free(folder_mutex)
    /\ Return(t, NoDir)
    /\ UNCHANGED <<disk, tables, locks, call, scan>>

\* winevfs_get_path_inner: no mapping; the path is not a folder either.
FolderLookup(t) ==
    /\ pc[t] = "folder"
    /\ Free(folder_mutex)
    /\ \/ intent[t] = "Create" /\ Goto(t, "lockwrite") /\ UNCHANGED result
       \/ intent[t] # "Create" /\ Return(t, NoDir)
    /\ UNCHANGED <<disk, tables, locks, call, scan>>

\* Create: the new file is mapped to the write directory before it exists.
LockWrite(t) ==
    /\ pc[t] = "lockwrite"
    /\ Free(write_mutex)
    /\ \/ /\ WriteDir[folder[t]] = NoDir
          /\ Return(t, NoDir)
          /\ UNCHANGED <<read_mappings, write_mutex>>
       \/ /\ WriteDir[folder[t]] # NoDir
          /\ write_mutex' = t
          /\ read_mappings' = [read_mappings EXCEPT
                                  ![folder[t]][name[t]] = WriteDir[folder[t]]]
          /\ Goto(t, "wchild")
          /\ UNCHANGED result
    /\ UNCHANGED <<disk, children, explored, processing, folder_mutex,
                   call, scan>>

\* Still under the write mutex, _add_read_entry takes the folder mutex.
AddWrittenChild(t) ==
    /\ pc[t] = "wchild"
    /\ Free(folder_mutex)
    /\ children' = [children EXCEPT ![folder[t]] = @ \cup {name[t]}]
    /\ write_mutex' = NoOne
    /\ Return(t, WriteDir[folder[t]])
    /\ UNCHANGED <<disk, read_mappings, explored, processing, folder_mutex,
                   call, scan>>

\* winevfs_delete_file on the redirected path: the listing entry goes, the
\* read mapping stays.  A path outside the directories has no reverse entry.
DeleteFile(t) ==
    /\ pc[t] = "delete"
    /\ Free(folder_mutex)
    /\ children' = IF result[t] = NoDir THEN children
                   ELSE [children EXCEPT ![ReverseFolder[result[t]]] =
                            @ \ {name[t]}]
    /\ Goto(t, "syscall")
    /\ UNCHANGED <<disk, read_mappings, explored, locks, call, result, scan>>

-----------------------------------------------------------------------------
(* The original libc function on the redirected path, other processes, and *)
(* the inotify events the kernel queues for both.                          *)

Notify(o, d, n) ==
    /\ Len(events) < MaxEvents
    /\ events' = Append(events, [op |-> o, dir |-> d, name |-> n])

\* Variant: a directory is watched only once its folder has been scanned.
FileAppearsUnwatched(d, n) ==
    /\ n \notin files[d]
    /\ files' = [files EXCEPT ![d] = @ \cup {n}]
    /\ \/ explored[ReverseFolder[d]] /\ Notify("R", d, n)
       \/ ~explored[ReverseFolder[d]] /\ UNCHANGED events
    /\ UNCHANGED todo

\* A scan in progress may or may not return a file that appears under it.
FileAppears(d, n) ==
    /\ n \notin files[d]
    /\ files' = [files EXCEPT ![d] = @ \cup {n}]
    /\ Notify("R", d, n)
    /\ \/ UNCHANGED todo
       \/ \E t \in Threads :
             /\ pc[t] \in {"scan", "child"}
             /\ ScannedDir(t) = d
             /\ todo' = [todo EXCEPT ![t] = @ \cup {n}]

FileVanishes(d, n) ==
    /\ n \in files[d]
    /\ files' = [files EXCEPT ![d] = @ \ {n}]
    /\ Notify("D", d, n)
    /\ UNCHANGED todo

NothingHappens == UNCHANGED <<disk, todo>>

\* The call returns to the program, which forgets the path.
Finish(t) ==
    /\ pc[t] = "syscall"
    /\ Goto(t, "idle")
    /\ result' = [result EXCEPT ![t] = NoDir]
    /\ intent' = [intent EXCEPT ![t] = "Read"]
    /\ folder' = [folder EXCEPT ![t] = AnyFolder]
    /\ name' = [name EXCEPT ![t] = AnyName]
    /\ UNCHANGED <<tables, locks, index, entry>>

SyscallCreates(t) ==
    /\ intent[t] = "Create" /\ result[t] # NoDir /\ "ok" \in Outcomes
    /\ Finish(t)
    /\ FileAppears(result[t], name[t])

SyscallDeletes(t) ==
    /\ intent[t] = "Delete" /\ result[t] # NoDir /\ "ok" \in Outcomes
    /\ Finish(t)
    /\ FileVanishes(result[t], name[t])

\* The function changes nothing that is mapped: it reads, it fails, or the
\* file it creates is there already and the one it deletes is gone.
SyscallLeaves(t) ==
    /\ \/ intent[t] = "Read"
       \/ result[t] = NoDir
       \/ "fail" \in Outcomes
       \/ result[t] # NoDir /\ (intent[t] = "Create" <=> name[t] \in files[result[t]])
    /\ Finish(t)
    /\ NothingHappens

ExternalCreate(d, n) ==
    /\ FileAppears(d, n)
    /\ UNCHANGED <<tables, locks, pc, call, result, index, entry>>

ExternalDelete(d, n) ==
    /\ FileVanishes(d, n)
    /\ UNCHANGED <<tables, locks, pc, call, result, index, entry>>

-----------------------------------------------------------------------------
(* listener_cb, run by the inotify listener thread for one event at a time *)

\* Variant: the listener does not wait for an exploration to end.
TakeEventAtOnce ==
    /\ pc[Listener] = "idle"
    /\ events # << >>
    /\ Goto(Listener, IF Head(events).op = "R" THEN "map" ELSE "erase")
    /\ UNCHANGED <<disk, tables, locks, call, result, scan>>

TakeEvent ==
    /\ pc[Listener] = "idle"
    /\ events # << >>
    /\ Free(processing)
    /\ processing' = Listener
    /\ Goto(Listener, IF Head(events).op = "R" THEN "map" ELSE "erase")
    /\ UNCHANGED <<disk, tables, folder_mutex, write_mutex, call, result, scan>>

\* 'R': the reverse lookup under the folder mutex, then the mapping, whatever
\* directory it named before.
MapEvent ==
    /\ pc[Listener] = "map"
    /\ Free(folder_mutex)
    /\ LET e == Head(events) IN
          read_mappings' =
             [read_mappings EXCEPT ![ReverseFolder[e.dir]][e.name] = e.dir]
    /\ Goto(Listener, "list")
    /\ UNCHANGED <<disk, children, explored, locks, call, result, scan>>

EventDone ==
    /\ events' = Tail(events)
    /\ processing' = NoOne
    /\ Goto(Listener, "idle")
    /\ UNCHANGED <<files, read_mappings, explored, folder_mutex, write_mutex,
                   call, result, scan>>

ListEvent ==
    /\ pc[Listener] = "list"
    /\ Free(folder_mutex)
    /\ LET e == Head(events) IN
          children' = [children EXCEPT ![ReverseFolder[e.dir]] =
                          @ \cup {e.name}]
    /\ EventDone

\* 'D': winevfs_delete_file(event.file).
EraseEvent ==
    /\ pc[Listener] = "erase"
    /\ Free(folder_mutex)
    /\ LET e == Head(events) IN
          children' = [children EXCEPT ![ReverseFolder[e.dir]] = @ \ {e.name}]
    /\ EventDone

-----------------------------------------------------------------------------

\* The steps of the call a thread is in, whatever it was asked for.
Progress(t) ==
    \/ Gate(t) \/ FindMapping(t) \/ CheckFolder(t) \/ SnapshotFolder(t)
    \/ LockProcessing(t) \/ OpenDirectory(t)
    \/ \E n \in Names : AddReadEntry(t, n) \/ SkipRemoved(t, n)
    \/ AddChild(t) \/ CloseDirectory(t) \/ FindAgain(t) \/ FolderLookup(t)
    \/ LockWrite(t) \/ AddWrittenChild(t) \/ DeleteFile(t)
    \/ SyscallCreates(t) \/ SyscallDeletes(t) \/ SyscallLeaves(t)

ThreadStep(t) ==
    \/ \E i \in Intents, f \in Folders, n \in Names : Call(t, i, f, n)
    \/ Progress(t)

ListenerStep == TakeEvent \/ MapEvent \/ ListEvent \/ EraseEvent

ExternalStep ==
    \E d \in ExternalDirs, n \in Names :
        ExternalCreate(d, n) \/ ExternalDelete(d, n)

Next == (\E t \in Threads : ThreadStep(t)) \/ ListenerStep \/ ExternalStep

Spec == Init /\ [][Next]_vars

\* A thread inside a call and the listener keep running; the program may stop
\* calling, and nothing obliges other processes.
Fairness ==
    /\ \A t \in Threads : WF_vars(Progress(t))
    /\ WF_vars(ListenerStep)

FairSpec == Spec /\ Fairness

-----------------------------------------------------------------------------
(* Properties *)

\* The tables, the queue and the threads' locals keep their types.
TypeOK ==
    /\ files \in [Dirs -> SUBSET Names]
    /\ events \in Seq(Events)
    /\ read_mappings \in [Folders -> [Names -> Dirs \cup {NoDir}]]
    /\ children \in [Folders -> SUBSET Names]
    /\ explored \in [Folders -> BOOLEAN]
    /\ processing \in Processes \cup {NoOne}
    /\ folder_mutex \in Processes \cup {NoOne}
    /\ write_mutex \in Processes \cup {NoOne}
    /\ pc \in [Processes -> ThreadPc \cup ListenerPc]
    /\ intent \in [Threads -> {"Read", "Create", "Delete"}]
    /\ folder \in [Threads -> Folders]
    /\ name \in [Threads -> Names]
    /\ result \in [Threads -> Dirs \cup {NoDir}]
    /\ index \in [Threads -> Nat \ {0}]
    /\ todo \in [Threads -> SUBSET Names]
    /\ entry \in [Threads -> Names]

\* The event that tells of n in d is queued or being handled.
Announced(d, n) ==
    \E i \in 1..Len(events) :
        events[i] = [op |-> "R", dir |-> d, name |-> n]

\* No exploration is under way and no event is half applied.
Quiet == Free(processing)

\* An explored folder misses no file: every file of a backing directory has a
\* mapping, or the event that will give it one is still to be applied, however
\* files come and go while the folder is being scanned (vfs.cpp:490, the watch
\* precedes the opendir).
Complete ==
    Quiet => \A f \in Folders : explored[f] =>
        \A d \in RangeOf(FolderVec(f)) : \A n \in files[d] :
            read_mappings[f][n] # NoDir \/ Announced(d, n)

\* Priority: a mapping never names a directory below one that also holds the
\* file, unless the event for that file is still to be applied (README: "in
\* that order").  Holds while files only appear through the write directory.
Position(f, d) == CHOOSE i \in 1..Len(FolderVec(f)) :
    /\ FolderVec(f)[i] = d
    /\ \A j \in 1..Len(FolderVec(f)) : FolderVec(f)[j] = d => j <= i

LoadOrder ==
    Quiet => \A f \in Folders : explored[f] =>
        \A d \in RangeOf(FolderVec(f)) : \A n \in files[d] :
            \/ read_mappings[f][n] = NoDir
            \/ Position(f, d) <= Position(f, read_mappings[f][n])
            \/ Announced(d, n)

\* A call that reads or creates is redirected to the highest directory that
\* holds the file, and reading finds none only if none does (README: "When
\* reading `/path/to/virtual/file`, winevfs will silently redirect the call").
LookupExact ==
    \A t \in Threads : pc[t] = "syscall" =>
        LET winner == Winner(folder[t], name[t]) IN
        /\ winner # NoDir /\ intent[t] # "Delete" => result[t] = winner
        /\ winner = NoDir /\ intent[t] = "Read"   => result[t] = NoDir

\* While nothing is deleted, an explored folder lists every file of its
\* directories, except those whose event is still to be applied.
Listed ==
    Quiet => \A f \in Folders : explored[f] =>
        \A d \in RangeOf(FolderVec(f)) : \A n \in files[d] :
            n \in children[f] \/ Announced(d, n)

\* Once every call has returned and every event is applied, no folder lists a
\* file that none of its directories holds, whatever was deleted while it was
\* being explored.
AtRest == (\A p \in Processes : pc[p] = "idle") /\ events = << >>

NoPhantom ==
    AtRest => \A f \in Folders :
        children[f] \subseteq UNION {files[d] : d \in RangeOf(FolderVec(f))}

\* Within one folder, no thread holds the folder mutex waiting for the write
\* mutex while another holds the write mutex waiting for the folder mutex,
\* although the two are taken in both orders (vfs.cpp:1034, 1258).
NoStandoff ==
    ~ \E t, u \in Threads :
          pc[t] = "wmap" /\ pc[u] = "wchild" /\ folder[t] = folder[u]

\* While nothing is deleted, a file the program creates goes to the folder's
\* write directory unless a directory of the folder already holds it (README:
\* "if the file/folder does not already exist, it will create a new entry in
\* `/path/to/real/folder2`").
CreateInWriteDir ==
    \A t \in Threads :
        /\ pc[t] = "syscall" /\ intent[t] = "Create"
        /\ Winner(folder[t], name[t]) = NoDir
        => result[t] = WriteDir[folder[t]]

\* Every call returns to the program.
CallsReturn == \A t \in Threads : (pc[t] # "idle") ~> (pc[t] = "idle")
=============================================================================
