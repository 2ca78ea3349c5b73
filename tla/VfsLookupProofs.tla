--------------------------- MODULE VfsLookupProofs ---------------------------
(***************************************************************************)
(* Theorems about VfsLookup for any threads, folders, directories, names   *)
(* and load orders.                                                        *)
(***************************************************************************)
EXTENDS VfsLookup, SequenceLemmas

-----------------------------------------------------------------------------
(* The directories of a folder *)

\* foldervec is never empty, holds directories, and each of them leads back
\* to the folder.
LEMMA FolderVecType ==
    ASSUME NEW f \in Folders
    PROVE  /\ FolderVec(f) \in Seq(Dirs)
           /\ Len(FolderVec(f)) \in Nat \ {0}
           /\ \A i \in 1..Len(FolderVec(f)) :
                 FolderVec(f)[i] \in Dirs /\ ReverseFolder[FolderVec(f)[i]] = f
  <1> DEFINE p == FolderPaths[f]
  <1>1. p \in Seq(Dirs) /\ p # << >>
    BY FolderPathsType
  <1>2. Len(p) \in Nat \ {0}
    BY <1>1
  <1>3. \A i \in 1..Len(p) : p[i] \in Dirs /\ ReverseFolder[p[i]] = f
    <2>1. \A d \in RangeOf(p) : ReverseFolder[d] = f
      BY FolderPathsType
    <2> HIDE DEF p
    <2> QED
      BY <1>1, <2>1 DEF RangeOf
  <1>4. CASE WriteDir[f] = NoDir
    BY <1>1, <1>2, <1>3, <1>4 DEF FolderVec
  <1>5. CASE WriteDir[f] # NoDir
    <2>1. WriteDir[f] \in RangeOf(p)
      BY <1>5, WriteDirType
    <2>2. WriteDir[f] \in Dirs /\ ReverseFolder[WriteDir[f]] = f
      BY <2>1, <1>3 DEF RangeOf
    <2>3. FolderVec(f) = Append(p, WriteDir[f])
      BY <1>5 DEF FolderVec
    <2>4. /\ Append(p, WriteDir[f]) \in Seq(Dirs)
          /\ Len(Append(p, WriteDir[f])) = Len(p) + 1
          /\ \A i \in 1..Len(p) + 1 :
                Append(p, WriteDir[f])[i] = IF i <= Len(p) THEN p[i]
                                                           ELSE WriteDir[f]
      BY <1>1, <2>2
    <2> QED
      BY <1>2, <1>3, <2>2, <2>3, <2>4
  <1> QED
    BY <1>4, <1>5

-----------------------------------------------------------------------------
(* The structural invariant: types, who holds which mutex, the position of *)
(* a scan, and the event the listener is handling.                         *)

LockInv ==
    /\ \A t \in Threads : pc[t] \in ThreadPc
    /\ pc[Listener] \in ListenerPc
    /\ \A t \in Threads : pc[t] \in Exploring <=> processing = t
    /\ pc[Listener] # "idle" <=> processing = Listener
    /\ folder_mutex \in Threads \cup {NoOne}
    /\ \A t \in Threads : pc[t] = "wmap" <=> folder_mutex = t
    /\ write_mutex \in Threads \cup {NoOne}
    /\ \A t \in Threads : pc[t] = "wchild" <=> write_mutex = t

ScanInv ==
    \A t \in Threads :
        /\ index[t] <= Len(FolderVec(folder[t]))
        /\ pc[t] \notin Exploring => index[t] = 1

Mapped(f, n) == read_mappings[f][n] # NoDir

ListenerInv ==
    pc[Listener] # "idle" =>
        /\ events # << >>
        /\ pc[Listener] \in {"map", "list"} => Head(events).op = "R"
        /\ pc[Listener] = "erase" => Head(events).op = "D"
        /\ pc[Listener] = "list" =>
              Mapped(ReverseFolder[Head(events).dir], Head(events).name)

StructInv == TypeOK /\ LockInv /\ ScanInv /\ ListenerInv

LEMMA AnyType == AnyFolder \in Folders /\ AnyName \in Names
  BY OwnersDiffer DEF AnyFolder, AnyName

LEMMA StructInit == Init => StructInv
  <1> SUFFICES ASSUME Init PROVE StructInv
    OBVIOUS
  <1> USE DEF Init
  <1>1. TypeOK
    BY AnyType, OwnersDiffer
       DEF TypeOK, Processes, ThreadPc, ListenerPc
  <1>2. LockInv
    BY OwnersDiffer
       DEF LockInv, Processes, ThreadPc, ListenerPc, Exploring
  <1>3. ScanInv
    BY AnyType, FolderVecType DEF ScanInv, Exploring
  <1>4. ListenerInv
    BY DEF ListenerInv, Processes
  <1> QED
    BY <1>1, <1>2, <1>3, <1>4 DEF StructInv

\* The directory a scan is at.
LEMMA ScannedDirType ==
    ASSUME StructInv, NEW t \in Threads
    PROVE  /\ ScannedDir(t) \in Dirs
           /\ ReverseFolder[ScannedDir(t)] = folder[t]
  BY FolderVecType DEF StructInv, TypeOK, ScanInv, ScannedDir

\* The event being handled.
LEMMA HeadType ==
    ASSUME StructInv, pc[Listener] # "idle"
    PROVE  /\ events # << >>
           /\ Head(events) \in Events
           /\ Head(events).dir \in Dirs
           /\ Head(events).name \in Names
           /\ ReverseFolder[Head(events).dir] \in Folders
           /\ Tail(events) \in Seq(Events)
  <1>1. events # << >> /\ events \in Seq(Events)
    BY DEF StructInv, ListenerInv, TypeOK
  <1>2. Head(events) \in Events /\ Tail(events) \in Seq(Events)
    BY <1>1
  <1> QED
    BY <1>1, <1>2, FolderPathsType DEF Events

-----------------------------------------------------------------------------
(* Every action preserves the structural invariant.  Most steps of a call   *)
(* only move the thread between labels at which it holds the same mutexes.  *)

LEMMA PlainMove ==
    ASSUME StructInv, NEW t \in Threads, NEW l \in ThreadPc,
           pc' = [pc EXCEPT ![t] = l],
           pc[t] \in Exploring <=> l \in Exploring,
           pc[t] = "wmap" <=> l = "wmap",
           pc[t] = "wchild" <=> l = "wchild",
           UNCHANGED <<disk, read_mappings, locks, folder, index>>
    PROVE  LockInv' /\ ScanInv' /\ ListenerInv'
  <1> USE DEF StructInv, TypeOK, Processes, disk, locks
  <1>1. LockInv'
    BY OwnersDiffer DEF LockInv
  <1>2. ScanInv'
    BY DEF ScanInv
  <1>3. ListenerInv'
    BY OwnersDiffer DEF ListenerInv, Mapped
  <1> QED
    BY <1>1, <1>2, <1>3

LEMMA CallStruct ==
    ASSUME StructInv, NEW t \in Threads,
           NEW i \in Intents, NEW f \in Folders, NEW n \in Names,
           Call(t, i, f, n)
    PROVE  StructInv'
  <1> USE DEF StructInv, Call, Goto, Processes, disk, tables, locks, scan
  <1>1. TypeOK'
    BY InputTypes DEF TypeOK, ThreadPc
  <1>2. LockInv'
    BY OwnersDiffer DEF TypeOK, LockInv, ThreadPc, Exploring
  <1>3. ScanInv'
    BY FolderVecType DEF TypeOK, ScanInv, Exploring
  <1>4. ListenerInv'
    BY OwnersDiffer DEF TypeOK, ListenerInv, Mapped
  <1> QED
    BY <1>1, <1>2, <1>3, <1>4

LEMMA GateStruct ==
    ASSUME StructInv, NEW t \in Threads, Gate(t)
    PROVE  StructInv'
  <1>1. TypeOK'
    BY DEF StructInv, TypeOK, Gate, Goto, Processes, ThreadPc,
           disk, tables, locks, call, scan
  <1>2. LockInv' /\ ScanInv' /\ ListenerInv'
    BY PlainMove DEF Gate, Goto, ThreadPc, Exploring,
                     disk, tables, locks, call, scan
  <1> QED
    BY <1>1, <1>2 DEF StructInv

\* A thread that has its answer.
LEMMA ReturnStruct ==
    ASSUME StructInv, NEW t \in Threads, NEW d \in Dirs \cup {NoDir},
           Return(t, d),
           pc[t] \notin Exploring \cup {"wmap", "wchild"},
           UNCHANGED <<disk, tables, locks, call, scan>>
    PROVE  StructInv'
  <1>1. PICK l \in {"delete", "syscall"} : pc' = [pc EXCEPT ![t] = l]
    BY DEF Return, Goto
  <1>2. TypeOK'
    BY <1>1 DEF StructInv, TypeOK, Return, Processes, ThreadPc,
                disk, tables, locks, call, scan
  <1>3. LockInv' /\ ScanInv' /\ ListenerInv'
    BY <1>1, PlainMove DEF ThreadPc, Exploring, disk, tables, locks, call, scan
  <1> QED
    BY <1>2, <1>3 DEF StructInv

\* A thread that goes on to a label at which it holds no mutex.
LEMMA GoStruct ==
    ASSUME StructInv, NEW t \in Threads,
           NEW l \in ThreadPc \ (Exploring \cup {"wmap", "wchild"}),
           Goto(t, l),
           pc[t] \notin Exploring \cup {"wmap", "wchild"},
           UNCHANGED <<disk, tables, locks, call, result, scan>>
    PROVE  StructInv'
  <1>1. TypeOK'
    BY DEF StructInv, TypeOK, Goto, Processes, disk, tables, locks, call, scan
  <1>2. LockInv' /\ ScanInv' /\ ListenerInv'
    BY PlainMove DEF Goto, disk, tables, locks, call, scan
  <1> QED
    BY <1>1, <1>2 DEF StructInv

\* The answer of a lookup in read_mappings.
LEMMA MappingType ==
    ASSUME StructInv, NEW t \in Threads
    PROVE  /\ read_mappings[folder[t]][name[t]] \in Dirs \cup {NoDir}
           /\ WriteDir[folder[t]] \in Dirs \cup {NoDir}
  BY WriteDirType DEF StructInv, TypeOK

LEMMA FindMappingStruct ==
    ASSUME StructInv, NEW t \in Threads, FindMapping(t)
    PROVE  StructInv'
  <1> DEFINE d == read_mappings[folder[t]][name[t]]
  <1>1. /\ pc[t] = "find"
        /\ UNCHANGED <<disk, tables, locks, call, scan>>
    BY DEF FindMapping
  <1>2. CASE d # NoDir
    <2>1. Return(t, d)
      BY <1>2 DEF FindMapping
    <2> QED
      BY <1>1, <2>1, ReturnStruct, MappingType DEF Exploring
  <1>3. CASE d = NoDir
    <2>1. Goto(t, "check") /\ UNCHANGED result
      BY <1>3 DEF FindMapping
    <2> QED
      BY <1>1, <2>1, GoStruct DEF Exploring, ThreadPc
  <1> QED
    BY <1>2, <1>3

LEMMA FindAgainStruct ==
    ASSUME StructInv, NEW t \in Threads, FindAgain(t)
    PROVE  StructInv'
  <1> DEFINE d == read_mappings[folder[t]][name[t]]
  <1>1. /\ pc[t] = "again"
        /\ UNCHANGED <<disk, tables, locks, call, scan>>
    BY DEF FindAgain
  <1>2. CASE d # NoDir
    <2>1. Return(t, d)
      BY <1>2 DEF FindAgain
    <2> QED
      BY <1>1, <2>1, ReturnStruct, MappingType DEF Exploring
  <1>3. CASE d = NoDir
    <2>1. Goto(t, "folder") /\ UNCHANGED result
      BY <1>3 DEF FindAgain
    <2> QED
      BY <1>1, <2>1, GoStruct DEF Exploring, ThreadPc
  <1> QED
    BY <1>2, <1>3

LEMMA FolderLookupStruct ==
    ASSUME StructInv, NEW t \in Threads, FolderLookup(t)
    PROVE  StructInv'
  <1>1. /\ pc[t] = "folder"
        /\ UNCHANGED <<disk, tables, locks, call, scan>>
    BY DEF FolderLookup
  <1>2. CASE intent[t] = "Create"
    <2>1. Goto(t, "lockwrite") /\ UNCHANGED result
      BY <1>2 DEF FolderLookup
    <2> QED
      BY <1>1, <2>1, GoStruct DEF Exploring, ThreadPc
  <1>3. CASE intent[t] # "Create"
    <2>1. Return(t, NoDir)
      BY <1>3 DEF FolderLookup
    <2> QED
      BY <1>1, <2>1, ReturnStruct DEF Exploring
  <1> QED
    BY <1>2, <1>3

LEMMA CheckFolderStruct ==
    ASSUME StructInv, NEW t \in Threads, CheckFolder(t)
    PROVE  StructInv'
  <1>1. /\ pc[t] = "check"
        /\ folder_mutex = NoOne
        /\ UNCHANGED <<disk, tables, processing, write_mutex, call, result, scan>>
    BY DEF CheckFolder, Free
  <1>2. CASE explored[folder[t]] /\ Goto(t, "folder") /\ UNCHANGED folder_mutex
    BY <1>1, <1>2, GoStruct DEF Exploring, ThreadPc, locks
  <1>3. CASE Goto(t, "wmap") /\ folder_mutex' = t
    <2> USE DEF StructInv, TypeOK, Goto, Processes, disk, tables, call, scan
    <2>1. TypeOK'
      BY <1>1, <1>3 DEF ThreadPc
    <2>2. LockInv'
      BY <1>1, <1>3, OwnersDiffer DEF LockInv, ThreadPc, Exploring
    <2>3. ScanInv'
      BY <1>1, <1>3 DEF ScanInv, Exploring
    <2>4. ListenerInv'
      BY <1>1, <1>3, OwnersDiffer DEF ListenerInv, Mapped
    <2> QED
      BY <2>1, <2>2, <2>3, <2>4
  <1> QED
    BY <1>2, <1>3 DEF CheckFolder

LEMMA SnapshotFolderStruct ==
    ASSUME StructInv, NEW t \in Threads, SnapshotFolder(t)
    PROVE  StructInv'
  <1> USE DEF StructInv, TypeOK, SnapshotFolder, Goto, Free, Processes,
              disk, tables, locks, call, scan
  <1>1. TypeOK'
    BY DEF ThreadPc
  <1>2. LockInv'
    BY OwnersDiffer DEF LockInv, ThreadPc, Exploring
  <1>3. ScanInv'
    BY DEF ScanInv, Exploring
  <1>4. ListenerInv'
    BY OwnersDiffer DEF ListenerInv, Mapped
  <1> QED
    BY <1>1, <1>2, <1>3, <1>4

LEMMA LockProcessingStruct ==
    ASSUME StructInv, NEW t \in Threads, LockProcessing(t)
    PROVE  StructInv'
  <1> USE DEF StructInv, TypeOK, LockProcessing, Goto, Free, Processes,
              disk, tables, locks, call, scan
  <1>1. TypeOK'
    BY DEF ThreadPc
  <1>2. LockInv'
    BY OwnersDiffer DEF LockInv, ThreadPc, Exploring
  <1>3. ScanInv'
    BY DEF ScanInv, Exploring
  <1>4. ListenerInv'
    BY OwnersDiffer DEF ListenerInv, Mapped
  <1> QED
    BY <1>1, <1>2, <1>3, <1>4

LEMMA OpenDirectoryStruct ==
    ASSUME StructInv, NEW t \in Threads, OpenDirectory(t)
    PROVE  StructInv'
  <1> USE DEF StructInv, TypeOK, OpenDirectory, Goto, Free, Processes,
              disk, tables, locks, call, scan
  <1>1. TypeOK'
    BY ScannedDirType DEF ThreadPc
  <1>2. LockInv'
    BY OwnersDiffer DEF LockInv, ThreadPc, Exploring
  <1>3. ScanInv'
    BY DEF ScanInv, Exploring
  <1>4. ListenerInv'
    BY OwnersDiffer DEF ListenerInv, Mapped
  <1> QED
    BY <1>1, <1>2, <1>3, <1>4

LEMMA AddReadEntryStruct ==
    ASSUME StructInv, NEW t \in Threads, NEW n \in Names, AddReadEntry(t, n)
    PROVE  StructInv'
  <1> USE DEF StructInv, TypeOK, AddReadEntry, Goto, Free, Processes,
              disk, tables, locks, call, scan
  <1>1. TypeOK'
    BY ScannedDirType DEF ThreadPc
  <1>2. LockInv'
    BY OwnersDiffer DEF LockInv, ThreadPc, Exploring
  <1>3. ScanInv'
    BY DEF ScanInv, Exploring
  <1>4. ListenerInv'
    BY OwnersDiffer, ScannedDirType DEF ListenerInv, Mapped
  <1> QED
    BY <1>1, <1>2, <1>3, <1>4

LEMMA AddChildStruct ==
    ASSUME StructInv, NEW t \in Threads, AddChild(t)
    PROVE  StructInv'
  <1> USE DEF StructInv, TypeOK, AddChild, Goto, Free, Processes,
              disk, tables, locks, call, scan
  <1>1. TypeOK'
    BY AnyType DEF ThreadPc
  <1>2. LockInv'
    BY OwnersDiffer DEF LockInv, ThreadPc, Exploring
  <1>3. ScanInv'
    BY DEF ScanInv, Exploring
  <1>4. ListenerInv'
    BY OwnersDiffer DEF ListenerInv, Mapped
  <1> QED
    BY <1>1, <1>2, <1>3, <1>4

LEMMA SkipRemovedStruct ==
    ASSUME StructInv, NEW t \in Threads, NEW n \in Names, SkipRemoved(t, n)
    PROVE  StructInv'
  <1> USE DEF StructInv, TypeOK, SkipRemoved, Goto, Free, Processes,
              disk, tables, locks, call, scan
  <1>1. TypeOK'
    BY DEF ThreadPc
  <1>2. LockInv'
    BY OwnersDiffer DEF LockInv, ThreadPc, Exploring
  <1>3. ScanInv'
    BY DEF ScanInv, Exploring
  <1>4. ListenerInv'
    BY OwnersDiffer DEF ListenerInv, Mapped
  <1> QED
    BY <1>1, <1>2, <1>3, <1>4

LEMMA DeleteFileStruct ==
    ASSUME StructInv, NEW t \in Threads, DeleteFile(t)
    PROVE  StructInv'
  <1> USE DEF StructInv, TypeOK, DeleteFile, Goto, Free, Processes,
              disk, tables, locks, call, scan
  <1>1. TypeOK'
    BY FolderPathsType DEF ThreadPc
  <1>2. LockInv'
    BY OwnersDiffer DEF LockInv, ThreadPc, Exploring
  <1>3. ScanInv'
    BY DEF ScanInv, Exploring
  <1>4. ListenerInv'
    BY OwnersDiffer DEF ListenerInv, Mapped
  <1> QED
    BY <1>1, <1>2, <1>3, <1>4

LEMMA CloseDirectoryStruct ==
    ASSUME StructInv, NEW t \in Threads, CloseDirectory(t)
    PROVE  StructInv'
  <1>1. /\ pc[t] = "scan"
        /\ explored' = [explored EXCEPT ![folder[t]] = TRUE]
        /\ UNCHANGED <<disk, read_mappings, children, folder_mutex, write_mutex,
                       call, result, todo, entry>>
    BY DEF CloseDirectory
  <1> DEFINE len == Len(FolderVec(folder[t]))
  <1>2. folder[t] \in Folders /\ len \in Nat \ {0}
    BY FolderVecType DEF StructInv, TypeOK
  <1> USE DEF StructInv, TypeOK, Goto, Processes, disk, call
  <1>3. CASE /\ index[t] < len
             /\ index' = [index EXCEPT ![t] = @ + 1]
             /\ Goto(t, "open")
             /\ UNCHANGED processing
    <2>1. TypeOK'
      BY <1>1, <1>3 DEF ThreadPc
    <2>2. LockInv'
      BY <1>1, <1>3, OwnersDiffer DEF LockInv, ThreadPc, Exploring
    <2>3. ScanInv'
      BY <1>1, <1>2, <1>3 DEF ScanInv, Exploring
    <2>4. ListenerInv'
      BY <1>1, <1>3, OwnersDiffer DEF ListenerInv, Mapped
    <2> QED
      BY <2>1, <2>2, <2>3, <2>4
  <1>4. CASE /\ index[t] = len
             /\ index' = [index EXCEPT ![t] = 1]
             /\ Goto(t, "again")
             /\ processing' = NoOne
    <2>1. TypeOK'
      BY <1>1, <1>4 DEF ThreadPc
    <2>2. LockInv'
      BY <1>1, <1>4, OwnersDiffer DEF LockInv, ThreadPc, Exploring
    <2>3. ScanInv'
      BY <1>1, <1>2, <1>4 DEF ScanInv, Exploring
    <2>4. ListenerInv'
      BY <1>1, <1>4, OwnersDiffer DEF ListenerInv, Mapped
    <2> QED
      BY <2>1, <2>2, <2>3, <2>4
  <1> QED
    BY <1>3, <1>4 DEF CloseDirectory

LEMMA LockWriteStruct ==
    ASSUME StructInv, NEW t \in Threads, LockWrite(t)
    PROVE  StructInv'
  <1>1. /\ pc[t] = "lockwrite"
        /\ write_mutex = NoOne
        /\ UNCHANGED <<disk, children, explored, processing, folder_mutex,
                       call, scan>>
    BY DEF LockWrite, Free
  <1>2. CASE Return(t, NoDir) /\ UNCHANGED <<read_mappings, write_mutex>>
    BY <1>1, <1>2, ReturnStruct DEF Exploring, tables, locks
  <1>3. CASE /\ WriteDir[folder[t]] # NoDir
             /\ write_mutex' = t
             /\ read_mappings' = [read_mappings EXCEPT
                                     ![folder[t]][name[t]] = WriteDir[folder[t]]]
             /\ Goto(t, "wchild")
             /\ UNCHANGED result
    <2> USE DEF StructInv, TypeOK, Goto, Processes, disk, call, scan
    <2>1. TypeOK'
      BY <1>1, <1>3, MappingType DEF ThreadPc
    <2>2. LockInv'
      BY <1>1, <1>3, OwnersDiffer DEF LockInv, ThreadPc, Exploring
    <2>3. ScanInv'
      BY <1>1, <1>3 DEF ScanInv, Exploring
    <2>4. ListenerInv'
      BY <1>1, <1>3, OwnersDiffer DEF ListenerInv, Mapped
    <2> QED
      BY <2>1, <2>2, <2>3, <2>4
  <1> QED
    BY <1>2, <1>3 DEF LockWrite

LEMMA AddWrittenChildStruct ==
    ASSUME StructInv, NEW t \in Threads, AddWrittenChild(t)
    PROVE  StructInv'
  <1>1. PICK l \in {"delete", "syscall"} : pc' = [pc EXCEPT ![t] = l]
    BY DEF AddWrittenChild, Return, Goto
  <1>2. /\ pc[t] = "wchild"
        /\ write_mutex' = NoOne
        /\ children' = [children EXCEPT ![folder[t]] = @ \cup {name[t]}]
        /\ result' = [result EXCEPT ![t] = WriteDir[folder[t]]]
        /\ UNCHANGED <<disk, read_mappings, explored, processing, folder_mutex,
                       call, scan>>
    BY DEF AddWrittenChild, Return
  <1> USE DEF StructInv, TypeOK, Processes, disk, call, scan
  <1>3. TypeOK'
    BY <1>1, <1>2, MappingType DEF ThreadPc
  <1>4. LockInv'
    BY <1>1, <1>2, OwnersDiffer DEF LockInv, ThreadPc, Exploring
  <1>5. ScanInv'
    BY <1>1, <1>2 DEF ScanInv, Exploring
  <1>6. ListenerInv'
    BY <1>1, <1>2, OwnersDiffer DEF ListenerInv, Mapped
  <1> QED
    BY <1>3, <1>4, <1>5, <1>6

-----------------------------------------------------------------------------
(* The file system *)

\* What is appended to the queue does not disturb its head.
LEMMA NotifyType ==
    ASSUME StructInv, NEW o \in {"R", "D"}, NEW d \in Dirs, NEW n \in Names,
           Notify(o, d, n)
    PROVE  /\ events' \in Seq(Events)
           /\ events # << >> => events' # << >> /\ Head(events') = Head(events)
  <1>1. [op |-> o, dir |-> d, name |-> n] \in Events
    BY DEF Events
  <1>2. events \in Seq(Events)
    BY DEF StructInv, TypeOK
  <1> QED
    BY <1>1, <1>2 DEF Notify

\* Files and events change, the tables and the locks do not.
LEMMA DiskStruct ==
    ASSUME StructInv, NEW d \in Dirs, NEW n \in Names,
           FileAppears(d, n) \/ FileVanishes(d, n) \/ NothingHappens
    PROVE  /\ files' \in [Dirs -> SUBSET Names]
           /\ events' \in Seq(Events)
           /\ events # << >> => events' # << >> /\ Head(events') = Head(events)
           /\ todo' \in [Threads -> SUBSET Names]
  <1>1. CASE FileAppears(d, n)
    <2>1. /\ files' = [files EXCEPT ![d] = @ \cup {n}]
          /\ Notify("R", d, n)
      BY <1>1 DEF FileAppears
    <2>2. \/ todo' = todo
          \/ \E t \in Threads : todo' = [todo EXCEPT ![t] = @ \cup {n}]
      BY <1>1 DEF FileAppears
    <2>3. files' \in [Dirs -> SUBSET Names]
      BY <2>1 DEF StructInv, TypeOK
    <2>4. todo' \in [Threads -> SUBSET Names]
      <3>1. todo \in [Threads -> SUBSET Names]
        BY DEF StructInv, TypeOK
      <3>2. ASSUME NEW t \in Threads, todo' = [todo EXCEPT ![t] = @ \cup {n}]
            PROVE  todo' \in [Threads -> SUBSET Names]
        BY <3>1, <3>2
      <3> QED
        BY <2>2, <3>1, <3>2
    <2> QED
      BY <2>1, <2>3, <2>4, NotifyType
  <1>2. CASE FileVanishes(d, n)
    BY <1>2, NotifyType DEF FileVanishes, StructInv, TypeOK
  <1>3. CASE NothingHappens
    BY <1>3 DEF NothingHappens, disk, StructInv, TypeOK
  <1> QED
    BY <1>1, <1>2, <1>3

LEMMA FinishStruct ==
    ASSUME StructInv, NEW t \in Threads, Finish(t),
           NEW d \in Dirs, NEW n \in Names,
           FileAppears(d, n) \/ FileVanishes(d, n) \/ NothingHappens
    PROVE  StructInv'
  <1> USE DEF StructInv, Finish, Goto, Processes, tables, locks
  <1>1. TypeOK'
    BY DiskStruct, AnyType DEF TypeOK, ThreadPc
  <1>2. LockInv'
    BY OwnersDiffer DEF TypeOK, LockInv, ThreadPc, Exploring
  <1>3. ScanInv'
    BY AnyType, FolderVecType DEF TypeOK, ScanInv, Exploring
  <1>4. ListenerInv'
    BY DiskStruct, OwnersDiffer DEF TypeOK, ListenerInv, Mapped
  <1> QED
    BY <1>1, <1>2, <1>3, <1>4

LEMMA SyscallStruct ==
    ASSUME StructInv, NEW t \in Threads,
           SyscallCreates(t) \/ SyscallDeletes(t) \/ SyscallLeaves(t)
    PROVE  StructInv'
  <1>1. Finish(t)
    BY DEF SyscallCreates, SyscallDeletes, SyscallLeaves
  <1>2. PICK d \in Dirs, n \in Names :
          FileAppears(d, n) \/ FileVanishes(d, n) \/ NothingHappens
    <2>1. /\ folder[t] \in Folders
          /\ name[t] \in Names
          /\ ScannedDir(t) \in Dirs
          /\ result[t] \in Dirs \cup {NoDir}
      BY ScannedDirType DEF StructInv, TypeOK
    <2> QED
      BY <2>1 DEF SyscallCreates, SyscallDeletes, SyscallLeaves
  <1> QED
    BY <1>1, <1>2, FinishStruct

LEMMA ExternalStruct ==
    ASSUME StructInv, NEW d \in Dirs, NEW n \in Names,
           ExternalCreate(d, n) \/ ExternalDelete(d, n)
    PROVE  StructInv'
  <1>1. /\ FileAppears(d, n) \/ FileVanishes(d, n) \/ NothingHappens
        /\ UNCHANGED <<tables, locks, pc, call, result, index, entry>>
    BY DEF ExternalCreate, ExternalDelete
  <1> USE DEF StructInv, TypeOK, tables, locks, call
  <1>2. TypeOK'
    BY <1>1, DiskStruct
  <1>3. LockInv'
    BY <1>1 DEF LockInv
  <1>4. ScanInv'
    BY <1>1 DEF ScanInv
  <1>5. ListenerInv'
    BY <1>1, DiskStruct DEF ListenerInv, Mapped
  <1> QED
    BY <1>2, <1>3, <1>4, <1>5

-----------------------------------------------------------------------------
(* The listener *)

LEMMA TakeEventStruct ==
    ASSUME StructInv, TakeEvent
    PROVE  StructInv'
  <1>1. Head(events) \in Events
    BY DEF StructInv, TypeOK, TakeEvent
  <1>2. PICK l \in {"map", "erase"} :
          /\ pc' = [pc EXCEPT ![Listener] = l]
          /\ l = "map" => Head(events).op = "R"
          /\ l = "erase" => Head(events).op = "D"
    BY <1>1 DEF TakeEvent, Goto, Events
  <1>3. /\ pc[Listener] = "idle" /\ events # << >>
        /\ processing = NoOne /\ processing' = Listener
        /\ UNCHANGED <<disk, tables, folder_mutex, write_mutex, call, result,
                       scan>>
    BY DEF TakeEvent, Free
  <1> USE DEF StructInv, TypeOK, Processes, disk, tables, call, scan
  <1>4. TypeOK'
    BY <1>2, <1>3 DEF ListenerPc
  <1>5. LockInv'
    BY <1>2, <1>3, OwnersDiffer DEF LockInv, ListenerPc, Exploring
  <1>6. ScanInv'
    BY <1>2, <1>3, OwnersDiffer DEF ScanInv
  <1>7. ListenerInv'
    BY <1>2, <1>3 DEF ListenerInv
  <1> QED
    BY <1>4, <1>5, <1>6, <1>7

LEMMA MapEventStruct ==
    ASSUME StructInv, MapEvent
    PROVE  StructInv'
  <1> USE DEF StructInv, TypeOK, MapEvent, Goto, Processes,
              disk, locks, call, scan
  <1>1. TypeOK'
    BY HeadType DEF ListenerPc
  <1>2. LockInv'
    BY OwnersDiffer DEF LockInv, ListenerPc
  <1>3. ScanInv'
    BY OwnersDiffer DEF ScanInv
  <1>4. ListenerInv'
    BY HeadType, OwnersDiffer DEF ListenerInv, Mapped
  <1> QED
    BY <1>1, <1>2, <1>3, <1>4

LEMMA EventDoneStruct ==
    ASSUME StructInv, pc[Listener] # "idle", EventDone,
           children' \in [Folders -> SUBSET Names]
    PROVE  StructInv'
  <1> USE DEF StructInv, TypeOK, EventDone, Goto, Processes, call, scan
  <1>1. TypeOK'
    BY HeadType DEF ListenerPc
  <1>2. LockInv'
    BY OwnersDiffer DEF LockInv, ListenerPc, Exploring
  <1>3. ScanInv'
    BY OwnersDiffer DEF ScanInv
  <1>4. ListenerInv'
    BY DEF ListenerInv
  <1> QED
    BY <1>1, <1>2, <1>3, <1>4

LEMMA ListenerStruct ==
    ASSUME StructInv, ListenerStep
    PROVE  StructInv'
  <1>1. CASE TakeEvent
    BY <1>1, TakeEventStruct
  <1>2. CASE MapEvent
    BY <1>2, MapEventStruct
  <1>3. CASE ListEvent \/ EraseEvent
    <2>1. pc[Listener] # "idle" /\ EventDone
      BY <1>3 DEF ListEvent, EraseEvent
    <2>2. children' \in [Folders -> SUBSET Names]
      <3> DEFINE e == Head(events)
      <3>1. ReverseFolder[e.dir] \in Folders /\ e.name \in Names
        BY <2>1, HeadType
      <3>2. \/ children' = [children EXCEPT ![ReverseFolder[e.dir]] =
                                @ \cup {e.name}]
            \/ children' = [children EXCEPT ![ReverseFolder[e.dir]] =
                                @ \ {e.name}]
        BY <1>3 DEF ListEvent, EraseEvent
      <3>3. children \in [Folders -> SUBSET Names]
        BY DEF StructInv, TypeOK
      <3> HIDE DEF e
      <3>4. CASE children' = [children EXCEPT ![ReverseFolder[e.dir]] =
                                 @ \cup {e.name}]
        BY <3>1, <3>3, <3>4
      <3>5. CASE children' = [children EXCEPT ![ReverseFolder[e.dir]] =
                                 @ \ {e.name}]
        BY <3>1, <3>3, <3>5
      <3> QED
        BY <3>2, <3>4, <3>5
    <2> QED
      BY <2>1, <2>2, EventDoneStruct
  <1> QED
    BY <1>1, <1>2, <1>3 DEF ListenerStep

-----------------------------------------------------------------------------

\* The structural invariant is inductive.
LEMMA StructStep ==
    ASSUME StructInv, [Next]_vars
    PROVE  StructInv'
  <1>1. CASE \E t \in Threads : ThreadStep(t)
    <2> SUFFICES ASSUME NEW t \in Threads, ThreadStep(t) PROVE StructInv'
      BY <1>1
    <2>1. CASE \E i \in Intents, f \in Folders, n \in Names : Call(t, i, f, n)
      BY <2>1, CallStruct
    <2>2. CASE \/ Gate(t) \/ FindMapping(t) \/ CheckFolder(t)
               \/ SnapshotFolder(t) \/ LockProcessing(t) \/ OpenDirectory(t)
      BY <2>2, GateStruct, FindMappingStruct, CheckFolderStruct,
         SnapshotFolderStruct, LockProcessingStruct, OpenDirectoryStruct
    <2>3. CASE \E n \in Names : AddReadEntry(t, n) \/ SkipRemoved(t, n)
      BY <2>3, AddReadEntryStruct, SkipRemovedStruct
    <2>4. CASE \/ AddChild(t) \/ CloseDirectory(t) \/ FindAgain(t)
               \/ FolderLookup(t) \/ LockWrite(t) \/ AddWrittenChild(t)
               \/ DeleteFile(t)
      BY <2>4, AddChildStruct, CloseDirectoryStruct, FindAgainStruct,
         FolderLookupStruct, LockWriteStruct, AddWrittenChildStruct,
         DeleteFileStruct
    <2>5. CASE SyscallCreates(t) \/ SyscallDeletes(t) \/ SyscallLeaves(t)
      BY <2>5, SyscallStruct
    <2> QED
      BY <2>1, <2>2, <2>3, <2>4, <2>5 DEF ThreadStep, Progress
  <1>2. CASE ListenerStep
    BY <1>2, ListenerStruct
  <1>3. CASE ExternalStep
    BY <1>3, ExternalStruct, InputTypes DEF ExternalStep
  <1>4. CASE UNCHANGED vars
    BY <1>4 DEF StructInv, TypeOK, LockInv, ScanInv, ListenerInv, Mapped,
                vars, disk, tables, locks, call, scan
  <1> QED
    BY <1>1, <1>2, <1>3, <1>4 DEF Next

THEOREM StructTheorem == Spec => []StructInv
  <1>1. Init => StructInv
    BY StructInit
  <1>2. StructInv /\ [Next]_vars => StructInv'
    BY StructStep
  <1> QED
    BY <1>1, <1>2, PTL DEF Spec

\* Type correctness: in particular a scan never runs past the folder's last
\* directory, and the handler of an event finds it at the head of the queue.
THEOREM TypeCorrect == Spec => []TypeOK
  <1>1. StructInv => TypeOK
    BY DEF StructInv
  <1> QED
    BY <1>1, StructTheorem, PTL

-----------------------------------------------------------------------------
(* No standoff within a folder: a thread on its way to the write mutex has  *)
(* seen its folder explored, and it took the folder mutex after that.       *)

StandoffInv ==
    /\ \A u \in Threads :
          pc[u] \in {"again", "folder", "lockwrite", "wchild"}
              => explored[folder[u]]
    /\ \A t, u \in Threads :
          pc[t] = "wmap" /\ pc[u] \in {"lockwrite", "wchild"}
              => folder[t] # folder[u]

\* No step makes a folder unexplored, and only a call that begins or ends
\* changes the folder a thread works on.
LEMMA ExploredStep ==
    ASSUME StructInv, [Next]_vars, NEW f \in Folders, explored[f]
    PROVE  explored'[f]
  <1>1. explored' = explored \/
        \E g \in Folders : explored' = [explored EXCEPT ![g] = TRUE]
    <2>1. ASSUME NEW t \in Threads, ThreadStep(t)
          PROVE  \/ UNCHANGED explored
                 \/ explored' = [explored EXCEPT ![folder[t]] = TRUE]
      BY <2>1 DEF ThreadStep, Progress, Call, Gate, FindMapping, CheckFolder,
         SnapshotFolder, LockProcessing, OpenDirectory, AddReadEntry,
         SkipRemoved, AddChild, CloseDirectory, FindAgain, FolderLookup,
         LockWrite, AddWrittenChild, DeleteFile, SyscallCreates,
         SyscallDeletes, SyscallLeaves, Finish, tables
    <2>2. ASSUME ListenerStep \/ ExternalStep \/ UNCHANGED vars
          PROVE  UNCHANGED explored
      BY <2>2 DEF ListenerStep, TakeEvent, MapEvent, ListEvent, EraseEvent,
         EventDone, ExternalStep, ExternalCreate, ExternalDelete, vars, tables
    <2> QED
      BY <2>1, <2>2 DEF Next, StructInv, TypeOK
  <1> QED
    BY <1>1 DEF StructInv, TypeOK

\* How a step of t moves it between the labels that matter here.
LEMMA StandoffShape ==
    ASSUME StructInv, NEW t \in Threads, ThreadStep(t)
    PROVE  /\ \A u \in Threads \ {t} :
                 pc'[u] = pc[u] /\ folder'[u] = folder[u]
           /\ \/ folder' = folder
              \/ pc'[t] \in {"idle", "gate"}
           /\ pc'[t] = "wmap" => ~explored[folder[t]]
           /\ pc'[t] = "again" => explored'[folder[t]]
           /\ pc'[t] = "folder" =>
                 explored[folder[t]] \/ pc[t] = "again"
           /\ pc'[t] = "lockwrite" =>
                 pc[t] = "folder" /\ folder_mutex = NoOne
           /\ pc'[t] = "wchild" => pc[t] = "lockwrite"
  <1> USE DEF StructInv, TypeOK, Goto, Processes
  <1>1. CASE \E i \in Intents, f \in Folders, n \in Names : Call(t, i, f, n)
    BY <1>1 DEF Call
  <1>2. CASE Gate(t) \/ SnapshotFolder(t) \/ LockProcessing(t)
             \/ OpenDirectory(t) \/ AddChild(t) \/ DeleteFile(t)
    BY <1>2 DEF Gate, SnapshotFolder, LockProcessing, OpenDirectory, AddChild,
                DeleteFile, call
  <1>3. CASE \E n \in Names : AddReadEntry(t, n) \/ SkipRemoved(t, n)
    BY <1>3 DEF AddReadEntry, SkipRemoved, call
  <1>4. CASE FindMapping(t) \/ FindAgain(t)
    BY <1>4 DEF FindMapping, FindAgain, Return, call
  <1>5. CASE CheckFolder(t)
    BY <1>5 DEF CheckFolder, call
  <1>6. CASE CloseDirectory(t)
    BY <1>6 DEF CloseDirectory, call
  <1>7. CASE FolderLookup(t)
    BY <1>7 DEF FolderLookup, Return, Free, call
  <1>8. CASE LockWrite(t) \/ AddWrittenChild(t)
    BY <1>8 DEF LockWrite, AddWrittenChild, Return, call
  <1>9. CASE SyscallCreates(t) \/ SyscallDeletes(t) \/ SyscallLeaves(t)
    BY <1>9 DEF SyscallCreates, SyscallDeletes, SyscallLeaves, Finish
  <1> QED
    BY <1>1, <1>2, <1>3, <1>4, <1>5, <1>6, <1>7, <1>8, <1>9
       DEF ThreadStep, Progress

LEMMA StandoffStep ==
    ASSUME StructInv, StandoffInv, [Next]_vars
    PROVE  StandoffInv'
  <1>1. CASE \E t \in Threads : ThreadStep(t)
    <2> PICK t \in Threads : ThreadStep(t)
      BY <1>1
    <2> DEFINE past == {"again", "folder", "lockwrite", "wchild"}
    <2>1. ASSUME NEW u \in Threads, pc'[u] \in past
          PROVE  explored'[folder'[u]]
      <3>1. folder'[u] \in Folders /\ folder'[u] = folder[u]
        <4>1. folder[u] \in Folders
          BY DEF StructInv, TypeOK
        <4>2. folder'[u] = folder[u]
          BY <2>1, StandoffShape
        <4> QED
          BY <4>1, <4>2
      <3>2. explored[folder[u]] => explored'[folder[u]]
        BY <3>1, ExploredStep DEF Next
      <3>3. pc[u] \in past => explored[folder[u]]
        BY DEF StandoffInv
      <3>4. CASE u = t
        BY <2>1, <3>1, <3>2, <3>3, <3>4, StandoffShape
      <3>5. CASE u # t
        BY <2>1, <3>1, <3>2, <3>3, <3>5, StandoffShape
      <3> QED
        BY <3>4, <3>5
    <2>2. ASSUME NEW v \in Threads, NEW u \in Threads, pc'[v] = "wmap",
                 pc'[u] \in {"lockwrite", "wchild"}
          PROVE  folder'[v] # folder'[u]
      <3>1. folder'[v] = folder[v] /\ folder'[u] = folder[u]
        BY <2>2, StandoffShape
      <3>2. u # v
        BY <2>2
      <3>3. CASE u # t /\ v # t
        BY <2>2, <3>1, <3>3, StandoffShape DEF StandoffInv
      <3>4. CASE v = t
        \* v has just found its folder unexplored.
        BY <2>2, <3>1, <3>2, <3>4, StandoffShape DEF StandoffInv
      <3>5. CASE u = t
        \* u has just found the folder mutex free, so v does not hold it.
        <4>1. pc[v] = "wmap" /\ folder_mutex = v
          BY <2>2, <3>2, <3>5, StandoffShape DEF StructInv, LockInv
        <4>2. pc[u] = "lockwrite"
          BY <2>2, <3>5, <4>1, StandoffShape, OwnersDiffer
        <4> QED
          BY <3>1, <4>1, <4>2 DEF StandoffInv
      <3> QED
        BY <3>3, <3>4, <3>5
    <2> QED
      BY <2>1, <2>2 DEF StandoffInv
  <1>2. CASE ListenerStep \/ ExternalStep \/ UNCHANGED vars
    <2>1. /\ UNCHANGED <<explored, folder>>
          /\ \A u \in Threads : pc'[u] = pc[u]
      BY <1>2, OwnersDiffer
         DEF ListenerStep, TakeEvent, MapEvent, ListEvent, EraseEvent,
             EventDone, ExternalStep, ExternalCreate, ExternalDelete, Goto,
             StructInv, TypeOK, Processes, vars, tables, call
    <2> QED
      BY <2>1 DEF StandoffInv
  <1> QED
    BY <1>1, <1>2 DEF Next

\* Two threads in the same folder never wait for each other's table mutex.
THEOREM NoStandoffTheorem == Spec => []NoStandoff
  <1>1. Init => StandoffInv
    BY DEF Init, StandoffInv, Processes
  <1>2. StructInv /\ StandoffInv /\ [Next]_vars => StandoffInv'
    BY StandoffStep
  <1>3. StandoffInv => NoStandoff
    BY DEF StandoffInv, NoStandoff
  <1> QED
    BY <1>1, <1>2, <1>3, StructTheorem, PTL DEF Spec

-----------------------------------------------------------------------------
(* Completeness.  What a step may do to one file: it keeps its mapping; it  *)
(* keeps its announcement or turns it into a mapping; and it makes it       *)
(* appear only with an announcement.                                        *)

LEMMA MappedStep ==
    ASSUME StructInv, [Next]_vars, NEW f \in Folders, NEW n \in Names,
           Mapped(f, n)
    PROVE  Mapped(f, n)'
  <1> USE DEF StructInv, TypeOK, Mapped
  <1>1. ASSUME NEW g \in Folders, NEW m \in Names, NEW d \in Dirs,
               read_mappings' = [read_mappings EXCEPT ![g][m] = d]
        PROVE  Mapped(f, n)'
    BY <1>1, OwnersDiffer
  <1>2. CASE UNCHANGED read_mappings
    BY <1>2
  <1>3. ASSUME NEW t \in Threads, ThreadStep(t)
        PROVE  Mapped(f, n)'
    <2>1. ASSUME NEW m \in Names, AddReadEntry(t, m)
          PROVE  Mapped(f, n)'
      BY <1>1, <2>1, ScannedDirType DEF AddReadEntry
    <2>2. CASE LockWrite(t)
      <3>1. CASE UNCHANGED read_mappings
        BY <1>2, <3>1
      <3>2. CASE /\ WriteDir[folder[t]] # NoDir
                 /\ read_mappings' = [read_mappings EXCEPT
                       ![folder[t]][name[t]] = WriteDir[folder[t]]]
        <4>1. /\ folder[t] \in Folders /\ name[t] \in Names
              /\ WriteDir[folder[t]] \in Dirs
          BY <3>2, MappingType
        <4> QED
          BY <1>1, <3>2, <4>1
      <3> QED
        BY <2>2, <3>1, <3>2 DEF LockWrite
    <2>3. CASE ~LockWrite(t) /\ ~ \E m \in Names : AddReadEntry(t, m)
      BY <1>2, <1>3, <2>3
         DEF ThreadStep, Progress, Call, Gate, FindMapping, CheckFolder,
             SnapshotFolder, LockProcessing, OpenDirectory, SkipRemoved,
             AddChild, CloseDirectory, FindAgain, FolderLookup,
             AddWrittenChild, DeleteFile, SyscallCreates, SyscallDeletes,
             SyscallLeaves, Finish, tables
    <2> QED
      BY <2>1, <2>2, <2>3
  <1>4. CASE ListenerStep
    <2>1. CASE MapEvent
      <3>1. pc[Listener] # "idle"
        BY <2>1 DEF MapEvent
      <3> QED
        BY <1>1, <2>1, <3>1, HeadType DEF MapEvent
    <2>2. CASE TakeEvent \/ ListEvent \/ EraseEvent
      BY <1>2, <2>2 DEF TakeEvent, ListEvent, EraseEvent, EventDone, tables
    <2> QED
      BY <1>4, <2>1, <2>2 DEF ListenerStep
  <1>5. CASE ExternalStep \/ UNCHANGED vars
    BY <1>2, <1>5
       DEF ExternalStep, ExternalCreate, ExternalDelete, vars, tables
  <1> QED
    BY <1>3, <1>4, <1>5 DEF Next

LEMMA AnnouncedAppend ==
    ASSUME StructInv, NEW e \in Events, events' = Append(events, e),
           NEW d, NEW n
    PROVE  /\ Announced(d, n) => Announced(d, n)'
           /\ e = [op |-> "R", dir |-> d, name |-> n] => Announced(d, n)'
  <1>1. events \in Seq(Events)
    BY DEF StructInv, TypeOK
  <1>2. /\ Len(events) \in Nat
        /\ Len(events') = Len(events) + 1
        /\ \A i \in 1..Len(events) : events'[i] = events[i]
        /\ events'[Len(events) + 1] = e
    BY <1>1
  <1>3. Announced(d, n) => Announced(d, n)'
    BY <1>2 DEF Announced
  <1>4. e = [op |-> "R", dir |-> d, name |-> n] => Announced(d, n)'
    BY <1>2 DEF Announced
  <1> QED
    BY <1>3, <1>4

LEMMA AnnouncedTail ==
    ASSUME StructInv, events # << >>, events' = Tail(events),
           NEW d, NEW n, Announced(d, n)
    PROVE  \/ Announced(d, n)'
           \/ Head(events) = [op |-> "R", dir |-> d, name |-> n]
  <1>1. events \in Seq(Events)
    BY DEF StructInv, TypeOK
  <1>2. /\ Len(events) \in Nat \ {0}
        /\ Len(events') = Len(events) - 1
        /\ Head(events) = events[1]
        /\ \A i \in 1..Len(events) - 1 : events'[i] = events[i + 1]
    BY <1>1
  <1>3. PICK i \in 1..Len(events) :
           events[i] = [op |-> "R", dir |-> d, name |-> n]
    BY DEF Announced
  <1>4. CASE i = 1
    BY <1>2, <1>3, <1>4
  <1>5. CASE i # 1
    <2>1. i - 1 \in 1..Len(events') /\ events'[i - 1] = events[i]
      BY <1>2, <1>5
    <2> QED
      BY <1>3, <2>1 DEF Announced
  <1> QED
    BY <1>4, <1>5

\* The steps that change the disk do so by one file, with its event.
LEMMA DiskShape ==
    ASSUME StructInv, [Next]_vars
    PROVE  \/ UNCHANGED files /\ UNCHANGED events
           \/ \E d \in Dirs, n \in Names :
                 FileAppears(d, n) \/ FileVanishes(d, n)
           \/ UNCHANGED files /\ (ListEvent \/ EraseEvent)
  <1>1. ASSUME NEW t \in Threads, ThreadStep(t)
        PROVE  \/ UNCHANGED files /\ UNCHANGED events
               \/ \E d \in Dirs, n \in Names :
                     FileAppears(d, n) \/ FileVanishes(d, n)
    <2>1. CASE SyscallCreates(t) \/ SyscallDeletes(t)
      BY <2>1 DEF SyscallCreates, SyscallDeletes, StructInv, TypeOK
    <2>2. CASE ~(SyscallCreates(t) \/ SyscallDeletes(t))
      BY <1>1, <2>2
         DEF ThreadStep, Progress, Call, Gate, FindMapping, CheckFolder,
             SnapshotFolder, LockProcessing, OpenDirectory, AddReadEntry,
             SkipRemoved, AddChild, CloseDirectory, FindAgain, FolderLookup,
             LockWrite, AddWrittenChild, DeleteFile, SyscallLeaves,
             NothingHappens, disk
    <2> QED
      BY <2>1, <2>2
  <1>2. CASE ListenerStep
    BY <1>2 DEF ListenerStep, TakeEvent, MapEvent, ListEvent, EraseEvent,
                EventDone, disk
  <1>3. CASE ExternalStep
    BY <1>3, InputTypes DEF ExternalStep, ExternalCreate, ExternalDelete
  <1>4. CASE UNCHANGED vars
    BY <1>4 DEF vars, disk
  <1> QED
    BY <1>1, <1>2, <1>3, <1>4 DEF Next

LEMMA NotifyEvent ==
    ASSUME StructInv, NEW o \in {"R", "D"}, NEW d \in Dirs, NEW n \in Names,
           Notify(o, d, n), NEW c, NEW m
    PROVE  /\ Announced(c, m) => Announced(c, m)'
           /\ o = "R" => Announced(d, n)'
  <1> DEFINE e == [op |-> o, dir |-> d, name |-> n]
  <1>1. e \in Events /\ events' = Append(events, e)
    BY DEF Notify, Events
  <1>2. Announced(c, m) => Announced(c, m)'
    BY <1>1, AnnouncedAppend
  <1>3. o = "R" => Announced(d, n)'
    BY <1>1, AnnouncedAppend
  <1> QED
    BY <1>2, <1>3

\* A file that a directory of f holds, mapped or announced.
Known(f, d, n) == Mapped(f, n) \/ Announced(d, n)

LEMMA KnownStep ==
    ASSUME StructInv, [Next]_vars, NEW d \in Dirs, NEW n \in Names
    PROVE  /\ Known(ReverseFolder[d], d, n) => Known(ReverseFolder[d], d, n)'
           /\ n \in files'[d] => n \in files[d] \/ Known(ReverseFolder[d], d, n)'
  <1> DEFINE f == ReverseFolder[d]
  <1>0. f \in Folders
    BY FolderPathsType
  <1>1. Mapped(f, n) => Mapped(f, n)'
    BY <1>0, MappedStep
  <1>2. CASE UNCHANGED files /\ UNCHANGED events
    BY <1>1, <1>2 DEF Known, Announced
  <1>3. ASSUME NEW c \in Dirs, NEW m \in Names,
               FileAppears(c, m) \/ FileVanishes(c, m)
        PROVE  /\ Announced(d, n) => Announced(d, n)'
               /\ n \in files'[d] => n \in files[d] \/ Announced(d, n)'
    <2>1. CASE FileAppears(c, m)
      <3>1. Notify("R", c, m) /\ files' = [files EXCEPT ![c] = @ \cup {m}]
        BY <2>1 DEF FileAppears
      <3>2. Announced(d, n) => Announced(d, n)'
        BY <3>1, NotifyEvent
      <3>3. Announced(c, m)'
        BY <3>1, NotifyEvent
      <3>4. n \in files'[d] => n \in files[d] \/ (d = c /\ n = m)
        BY <3>1 DEF StructInv, TypeOK
      <3> QED
        BY <3>2, <3>3, <3>4
    <2>2. CASE FileVanishes(c, m)
      <3>1. Notify("D", c, m) /\ files' = [files EXCEPT ![c] = @ \ {m}]
        BY <2>2 DEF FileVanishes
      <3>2. Announced(d, n) => Announced(d, n)'
        BY <3>1, NotifyEvent
      <3>3. n \in files'[d] => n \in files[d]
        BY <3>1 DEF StructInv, TypeOK
      <3> QED
        BY <3>2, <3>3
    <2> QED
      BY <1>3, <2>1, <2>2
  <1>4. CASE UNCHANGED files /\ (ListEvent \/ EraseEvent)
    <2>1. /\ pc[Listener] # "idle"
          /\ events' = Tail(events)
          /\ pc[Listener] = "list" \/ pc[Listener] = "erase"
      BY <1>4 DEF ListEvent, EraseEvent, EventDone
    <2>2. events # << >> /\ Head(events) \in Events
      BY <2>1, HeadType
    <2>3. Head(events) = [op |-> "R", dir |-> d, name |-> n] => Mapped(f, n)
      BY <1>4, <2>1, <2>2 DEF StructInv, ListenerInv, ListEvent, EraseEvent
    <2>4. Announced(d, n) => Announced(d, n)' \/ Mapped(f, n)
      BY <2>1, <2>2, <2>3, AnnouncedTail
    <2> QED
      BY <1>1, <1>4, <2>4 DEF Known
  <1> QED
    BY <1>1, <1>2, <1>3, <1>4, DiskShape DEF Known

\* The inductive invariant.  A folder that counts as explored has all its
\* files known or is still being scanned; a scan knows every file of the
\* directories behind it, and of the one it is in every file but those left.
Covered(f, d) == \A n \in files[d] : Known(f, d, n)

CoverInv ==
    /\ \A f \in Folders : explored[f] =>
          \/ \E t \in Threads : pc[t] \in Exploring /\ folder[t] = f
          \/ \A i \in 1..Len(FolderVec(f)) : Covered(f, FolderVec(f)[i])
    /\ \A t \in Threads : pc[t] \in Exploring =>
          \A i \in 1..index[t] - 1 : Covered(folder[t], FolderVec(folder[t])[i])
    /\ \A t \in Threads : pc[t] \in {"scan", "child"} =>
          \A n \in files[ScannedDir(t)] :
             n \in todo[t] \/ Known(folder[t], ScannedDir(t), n)

LEMMA CoveredStep ==
    ASSUME StructInv, [Next]_vars, NEW f \in Folders,
           NEW i \in 1..Len(FolderVec(f)), Covered(f, FolderVec(f)[i])
    PROVE  Covered(f, FolderVec(f)[i])'
  <1> DEFINE d == FolderVec(f)[i]
  <1>1. d \in Dirs /\ ReverseFolder[d] = f
    BY FolderVecType
  <1>2. ASSUME NEW n \in files'[d] PROVE Known(f, d, n)'
    <2>1. n \in Names
      BY <1>1, StructStep DEF StructInv, TypeOK
    <2>2. n \in files[d] => Known(f, d, n)
      BY DEF Covered
    <2> QED
      BY <1>1, <1>2, <2>1, <2>2, KnownStep
  <1>3. d' = d
    OBVIOUS
  <1> QED
    BY <1>2, <1>3 DEF Covered

\* A step that neither begins, advances nor ends a scan.
LEMMA CoverFrame ==
    ASSUME StructInv, CoverInv, [Next]_vars, UNCHANGED explored,
           \A t \in Threads :
              /\ pc[t] \in Exploring \/ pc'[t] \in Exploring =>
                    /\ pc'[t] \in Exploring
                    /\ pc[t] \in Exploring
                    /\ folder'[t] = folder[t]
                    /\ index'[t] = index[t]
              /\ pc'[t] \in {"scan", "child"} =>
                    \/ \A n \in files'[ScannedDir(t)] : n \in todo'[t]
                    \/ /\ pc[t] \in {"scan", "child"}
                       /\ \A n \in todo[t] :
                             \/ n \in todo'[t]
                             \/ n \notin files'[ScannedDir(t)]
                             \/ Known(folder[t], ScannedDir(t), n)'
    PROVE  CoverInv'
  <1>1. ASSUME NEW f \in Folders, explored'[f]
        PROVE  \/ \E t \in Threads : pc'[t] \in Exploring /\ folder'[t] = f
               \/ \A i \in 1..Len(FolderVec(f)) : Covered(f, FolderVec(f)[i])'
    <2>1. CASE \E t \in Threads : pc[t] \in Exploring /\ folder[t] = f
      BY <2>1
    <2>2. CASE \A i \in 1..Len(FolderVec(f)) : Covered(f, FolderVec(f)[i])
      BY <2>2, CoveredStep
    <2> QED
      BY <1>1, <2>1, <2>2 DEF CoverInv
  <1>2. ASSUME NEW t \in Threads, pc'[t] \in Exploring,
               NEW i \in 1..index'[t] - 1
        PROVE  Covered(folder[t], FolderVec(folder[t])[i])'
    <2>1. folder[t] \in Folders /\ i \in 1..Len(FolderVec(folder[t]))
      BY <1>2, FolderVecType DEF StructInv, TypeOK, ScanInv
    <2>2. Covered(folder[t], FolderVec(folder[t])[i])
      BY <1>2 DEF CoverInv
    <2>3. folder'[t] = folder[t]
      BY <1>2
    <2> QED
      BY <1>2, <2>1, <2>2, <2>3, CoveredStep DEF Covered, Known, Mapped, Announced
  <1>3. ASSUME NEW t \in Threads, pc'[t] \in {"scan", "child"},
               NEW n \in files'[ScannedDir(t)']
        PROVE  n \in todo'[t] \/ Known(folder[t], ScannedDir(t), n)'
    <2> DEFINE d == ScannedDir(t)
    <2>1. /\ folder'[t] = folder[t]
          /\ d' = d
      BY <1>3 DEF Exploring, ScannedDir
    <2>2. d \in Dirs /\ ReverseFolder[d] = folder[t]
      BY ScannedDirType
    <2>3. n \in Names
      BY <1>3, <2>1, <2>2, StructStep DEF StructInv, TypeOK
    <2>4. CASE \A m \in files'[d] : m \in todo'[t]
      BY <1>3, <2>1, <2>4
    <2>5. CASE /\ pc[t] \in {"scan", "child"}
               /\ \A m \in todo[t] : \/ m \in todo'[t]
                                     \/ m \notin files'[d]
                                     \/ Known(folder[t], d, m)'
      <3>1. n \in files[d] => n \in todo[t] \/ Known(folder[t], d, n)
        BY <2>5 DEF CoverInv
      <3>2. n \in todo'[t] \/ Known(folder[t], d, n)'
        BY <1>3, <2>1, <2>2, <2>3, <2>5, <3>1, KnownStep
      <3> QED
        BY <2>1, <3>2 DEF Known, Mapped, Announced
    <2> QED
      BY <1>3, <2>4, <2>5
  <1> QED
    BY <1>1, <1>2, <1>3 DEF CoverInv

\* The steps of a call outside the scan loop.
LEMMA CoverOutside ==
    ASSUME StructInv, CoverInv, [Next]_vars, NEW t \in Threads, ThreadStep(t),
           pc[t] \notin Exploring, ~LockProcessing(t)
    PROVE  CoverInv'
  <1> USE DEF StructInv, TypeOK, Goto, Processes
  <1>1. /\ \A u \in Threads \ {t} : /\ pc'[u] = pc[u]
                                    /\ folder'[u] = folder[u]
        /\ pc'[t] \notin Exploring
        /\ UNCHANGED <<explored, index>>
    <2>1. CASE \E i \in Intents, f \in Folders, n \in Names : Call(t, i, f, n)
      BY <2>1 DEF Call, Exploring, tables, scan
    <2>2. CASE Gate(t) \/ SnapshotFolder(t) \/ DeleteFile(t) \/ CheckFolder(t)
      BY <2>2 DEF Gate, SnapshotFolder, DeleteFile, CheckFolder, Exploring,
                  tables, scan, call
    <2>3. CASE FindMapping(t) \/ FindAgain(t) \/ FolderLookup(t)
               \/ LockWrite(t) \/ AddWrittenChild(t)
      BY <2>3 DEF FindMapping, FindAgain, FolderLookup, LockWrite,
                  AddWrittenChild, Return, Exploring, tables, scan, call
    <2>4. CASE SyscallCreates(t) \/ SyscallDeletes(t) \/ SyscallLeaves(t)
      BY <2>4 DEF SyscallCreates, SyscallDeletes, SyscallLeaves, Finish,
                  Exploring, tables
    <2> QED
      BY <2>1, <2>2, <2>3, <2>4
         DEF ThreadStep, Progress, OpenDirectory, AddReadEntry, SkipRemoved,
             AddChild, CloseDirectory, Exploring
  <1>2. \/ UNCHANGED todo
        \/ \E u \in Threads, n \in Names :
              todo' = [todo EXCEPT ![u] = @ \cup {n}]
    <2>1. CASE SyscallCreates(t)
      BY <2>1 DEF SyscallCreates, FileAppears
    <2>2. CASE SyscallDeletes(t) \/ SyscallLeaves(t)
      BY <2>2 DEF SyscallDeletes, SyscallLeaves, FileVanishes, NothingHappens
    <2>3. CASE ~(SyscallCreates(t) \/ SyscallDeletes(t) \/ SyscallLeaves(t))
      BY <2>3
         DEF ThreadStep, Progress, Call, Gate, FindMapping, CheckFolder,
             SnapshotFolder, OpenDirectory, AddReadEntry, SkipRemoved,
             AddChild, CloseDirectory, FindAgain, FolderLookup, LockWrite,
             AddWrittenChild, DeleteFile, Exploring, scan
    <2> QED
      BY <2>1, <2>2, <2>3
  <1>3. \A u \in Threads : todo[u] \subseteq todo'[u]
    BY <1>2
  <1> QED
    BY <1>1, <1>3, CoverFrame DEF Exploring

LEMMA CoverOthers ==
    ASSUME StructInv, CoverInv, [Next]_vars,
           ListenerStep \/ ExternalStep \/ UNCHANGED vars
    PROVE  CoverInv'
  <1> USE DEF StructInv, TypeOK
  <1>1. /\ \A u \in Threads : pc'[u] = pc[u]
        /\ UNCHANGED <<explored, folder, index>>
    BY OwnersDiffer
       DEF ListenerStep, TakeEvent, MapEvent, ListEvent, EraseEvent,
           EventDone, ExternalStep, ExternalCreate, ExternalDelete, Goto,
           Processes, vars, tables, call, scan
  <1>2. \/ UNCHANGED todo
        \/ \E u \in Threads, n \in Names :
              todo' = [todo EXCEPT ![u] = @ \cup {n}]
    BY DEF ListenerStep, TakeEvent, MapEvent, ListEvent, EraseEvent,
           EventDone, ExternalStep, ExternalCreate, ExternalDelete,
           FileAppears, FileVanishes, vars, scan
  <1>3. \A u \in Threads : todo[u] \subseteq todo'[u]
    BY <1>2
  <1> QED
    BY <1>1, <1>3, CoverFrame DEF Exploring

LEMMA CoverBegin ==
    ASSUME StructInv, CoverInv, [Next]_vars, NEW t \in Threads,
           LockProcessing(t)
    PROVE  CoverInv'
  <1>1. /\ pc' = [pc EXCEPT ![t] = "open"]
        /\ pc[t] = "lock" /\ index[t] = 1
        /\ UNCHANGED <<files, events, explored, read_mappings, folder, index,
                       todo>>
    BY DEF LockProcessing, Goto, Exploring, StructInv, ScanInv,
           disk, tables, call, scan
  <1>2. /\ pc'[t] = "open"
        /\ \A u \in Threads \ {t} : pc'[u] = pc[u]
    BY <1>1 DEF StructInv, TypeOK, Processes
  <1>3. \A f \in Folders : \A i \in 1..Len(FolderVec(f)) :
           Covered(f, FolderVec(f)[i]) => Covered(f, FolderVec(f)[i])'
    BY CoveredStep
  <1>4. ASSUME NEW f \in Folders, explored'[f]
        PROVE  \/ \E u \in Threads : pc'[u] \in Exploring /\ folder'[u] = f
               \/ \A i \in 1..Len(FolderVec(f)) : Covered(f, FolderVec(f)[i])'
    BY <1>1, <1>2, <1>3, <1>4 DEF CoverInv, Exploring
  <1>5. ASSUME NEW u \in Threads, pc'[u] \in Exploring,
               NEW i \in 1..index'[u] - 1
        PROVE  Covered(folder[u], FolderVec(folder[u])[i])'
    <2>1. u # t
      BY <1>1, <1>5
    <2>2. folder[u] \in Folders /\ i \in 1..Len(FolderVec(folder[u]))
      BY <1>1, <1>5, FolderVecType DEF StructInv, TypeOK, ScanInv
    <2>3. Covered(folder[u], FolderVec(folder[u])[i])
      BY <1>1, <1>2, <1>5, <2>1 DEF CoverInv
    <2> QED
      BY <1>1, <2>2, <2>3, <1>3
  <1>6. ASSUME NEW u \in Threads, pc'[u] \in {"scan", "child"}
        PROVE  FALSE
    BY <1>1, <1>2, <1>6, OwnersDiffer
       DEF LockProcessing, Free, StructInv, LockInv, Exploring
  <1> QED
    BY <1>1, <1>4, <1>5, <1>6 DEF CoverInv

LEMMA CoverScan ==
    ASSUME StructInv, CoverInv, [Next]_vars, NEW t \in Threads, NEW n \in Names,
           OpenDirectory(t) \/ AddReadEntry(t, n) \/ SkipRemoved(t, n)
              \/ AddChild(t)
    PROVE  CoverInv'
  <1> USE DEF StructInv, TypeOK, Processes
  <1>1. /\ \A u \in Threads \ {t} : pc'[u] = pc[u] /\ todo'[u] = todo[u]
        /\ pc[t] \in Exploring /\ pc'[t] \in Exploring
        /\ UNCHANGED <<files, explored, folder, index>>
    BY DEF OpenDirectory, AddReadEntry, SkipRemoved, AddChild, Goto, Exploring,
           disk, tables, call, scan
  <1>2. CASE OpenDirectory(t)
    <2>1. todo' = [todo EXCEPT ![t] = files[ScannedDir(t)]]
      BY <1>2 DEF OpenDirectory
    <2>2. \A m \in files'[ScannedDir(t)] : m \in todo'[t]
      BY <1>1, <2>1
    <2> QED
      BY <1>1, <2>2, CoverFrame
  <1>3. CASE AddReadEntry(t, n)
    <2>1. /\ pc[t] = "scan"
          /\ todo' = [todo EXCEPT ![t] = @ \ {n}]
          /\ read_mappings' =
                [read_mappings EXCEPT ![folder[t]][n] = ScannedDir(t)]
      BY <1>3 DEF AddReadEntry
    <2>2. Known(folder[t], ScannedDir(t), n)'
      <3>1. folder[t] \in Folders /\ ScannedDir(t) \in Dirs /\ folder' = folder
        BY <1>1, ScannedDirType
      <3>2. read_mappings'[folder[t]][n] = ScannedDir(t)
        BY <2>1, <3>1
      <3> QED
        BY <3>1, <3>2, OwnersDiffer DEF Known, Mapped
    <2>3. \A m \in todo[t] : m \in todo'[t] \/ m = n
      BY <2>1
    <2> QED
      BY <1>1, <2>1, <2>2, <2>3, CoverFrame
  <1>4. CASE SkipRemoved(t, n)
    <2>1. /\ pc[t] = "scan"
          /\ todo' = [todo EXCEPT ![t] = @ \ {n}]
          /\ n \notin files[ScannedDir(t)]
      BY <1>4 DEF SkipRemoved
    <2>2. \A m \in todo[t] : m \in todo'[t] \/ m \notin files'[ScannedDir(t)]
      BY <1>1, <2>1
    <2> QED
      BY <1>1, <2>1, <2>2, CoverFrame
  <1>5. CASE AddChild(t)
    <2>1. pc[t] = "child" /\ todo' = todo
      BY <1>5 DEF AddChild
    <2> QED
      BY <1>1, <2>1, CoverFrame
  <1> QED
    BY <1>2, <1>3, <1>4, <1>5

LEMMA CoverClose ==
    ASSUME StructInv, CoverInv, [Next]_vars, NEW t \in Threads,
           CloseDirectory(t)
    PROVE  CoverInv'
  <1> DEFINE f == folder[t]
             vec == FolderVec(f)
  <1>1. /\ pc[t] = "scan" /\ todo[t] = {}
        /\ explored' = [explored EXCEPT ![f] = TRUE]
        /\ UNCHANGED <<files, events, read_mappings, folder, todo>>
    BY DEF CloseDirectory, disk, call
  <1>2. /\ f \in Folders /\ Len(vec) \in Nat \ {0}
        /\ index[t] \in 1..Len(vec)
    BY FolderVecType DEF StructInv, TypeOK, ScanInv
  <1>3. \A i \in 1..index[t] : Covered(f, vec[i])
    <2>1. \A i \in 1..index[t] - 1 : Covered(f, vec[i])
      BY <1>1 DEF CoverInv, Exploring
    <2>2. Covered(f, vec[index[t]])
      BY <1>1 DEF CoverInv, Covered, ScannedDir
    <2> QED
      BY <1>2, <2>1, <2>2
  <1>4. \A g \in Folders : \A i \in 1..Len(FolderVec(g)) :
           Covered(g, FolderVec(g)[i]) => Covered(g, FolderVec(g)[i])'
    BY CoveredStep
  <1>5. \A u \in Threads \ {t} : pc'[u] = pc[u] /\ index'[u] = index[u]
    BY DEF CloseDirectory, Goto, StructInv, TypeOK, Processes
  <1>6. ASSUME NEW u \in Threads \ {t}, pc'[u] \in Exploring
        PROVE  FALSE
    BY <1>1, <1>5, <1>6 DEF StructInv, LockInv, Exploring
  <1>7. CASE pc'[t] = "open" /\ index'[t] = index[t] + 1
    <2>1. ASSUME NEW g \in Folders, explored'[g]
          PROVE  \/ \E u \in Threads : pc'[u] \in Exploring /\ folder'[u] = g
                 \/ \A i \in 1..Len(FolderVec(g)) : Covered(g, FolderVec(g)[i])'
      <3>1. CASE g = f
        BY <1>1, <1>7, <3>1 DEF Exploring
      <3>2. CASE g # f
        <4>1. explored[g]
          BY <1>1, <2>1, <3>2 DEF StructInv, TypeOK
        <4>2. ~ \E u \in Threads : pc[u] \in Exploring /\ folder[u] = g
          BY <1>1, <3>2 DEF StructInv, LockInv, Exploring
        <4> QED
          BY <1>4, <4>1, <4>2 DEF CoverInv
      <3> QED
        BY <3>1, <3>2
    <2>2. ASSUME NEW i \in 1..index'[t] - 1
          PROVE  Covered(folder[t], FolderVec(folder[t])[i])'
      <3>1. i \in 1..Len(vec) /\ Covered(f, vec[i])
        BY <1>2, <1>3, <1>7
      <3>2. folder'[t] = folder[t]
        BY <1>1
      <3> QED
        BY <1>2, <3>1, <3>2, CoveredStep DEF Covered, Known, Mapped, Announced
    <2>3. ASSUME NEW u \in Threads, pc'[u] \in Exploring
          PROVE  u = t /\ pc'[u] = "open"
      BY <1>6, <1>7, <2>3
    <2> QED
      BY <1>1, <2>1, <2>2, <2>3 DEF CoverInv, Exploring
  <1>8. CASE pc'[t] = "again" /\ index[t] = Len(vec)
    <2>1. ASSUME NEW g \in Folders, explored'[g]
          PROVE  \A i \in 1..Len(FolderVec(g)) : Covered(g, FolderVec(g)[i])'
      <3>1. CASE g = f
        BY <1>2, <1>3, <1>4, <1>8, <3>1
      <3>2. CASE g # f
        <4>1. explored[g]
          BY <1>1, <2>1, <3>2 DEF StructInv, TypeOK
        <4>2. ~ \E u \in Threads : pc[u] \in Exploring /\ folder[u] = g
          BY <1>1, <3>2 DEF StructInv, LockInv, Exploring
        <4> QED
          BY <1>4, <4>1, <4>2 DEF CoverInv
      <3> QED
        BY <3>1, <3>2
    <2>2. \A u \in Threads : pc'[u] \notin Exploring
      BY <1>6, <1>8 DEF Exploring
    <2> QED
      BY <2>1, <2>2 DEF CoverInv, Exploring
  <1> QED
    BY <1>2, <1>7, <1>8 DEF CloseDirectory, Goto, StructInv, TypeOK, Processes

LEMMA CoverStep ==
    ASSUME StructInv, CoverInv, [Next]_vars
    PROVE  CoverInv'
  <1>1. ASSUME NEW t \in Threads, ThreadStep(t)
        PROVE  CoverInv'
    <2>1. CASE pc[t] \notin Exploring /\ ~LockProcessing(t)
      BY <1>1, <2>1, CoverOutside
    <2>2. CASE LockProcessing(t)
      BY <2>2, CoverBegin
    <2>3. CASE pc[t] \in Exploring
      <3>1. CASE CloseDirectory(t)
        BY <3>1, CoverClose
      <3>2. CASE OpenDirectory(t) \/ AddChild(t)
        <4>1. name[t] \in Names
          BY DEF StructInv, TypeOK
        <4> QED
          BY <3>2, <4>1, CoverScan
      <3>3. CASE \E n \in Names : AddReadEntry(t, n) \/ SkipRemoved(t, n)
        BY <3>3, CoverScan
      <3> QED
        BY <1>1, <2>3, <3>1, <3>2, <3>3
           DEF ThreadStep, Progress, Call, Gate, FindMapping, CheckFolder,
               SnapshotFolder, LockProcessing, FindAgain, FolderLookup,
               LockWrite, AddWrittenChild, DeleteFile, SyscallCreates,
               SyscallDeletes, SyscallLeaves, Finish, Exploring
    <2> QED
      BY <2>1, <2>2, <2>3
  <1>2. CASE ListenerStep \/ ExternalStep \/ UNCHANGED vars
    BY <1>2, CoverOthers
  <1> QED
    BY <1>1, <1>2 DEF Next

\* An explored folder misses no file of its directories.
THEOREM CompleteTheorem == Spec => []Complete
  <1>1. Init => CoverInv
    BY DEF Init, CoverInv, Exploring, Processes
  <1>2. StructInv /\ CoverInv /\ [Next]_vars => CoverInv'
    BY CoverStep
  <1>3. StructInv /\ CoverInv => Complete
    <2> SUFFICES ASSUME StructInv, CoverInv, Quiet,
                        NEW f \in Folders, explored[f],
                        NEW d \in RangeOf(FolderVec(f)), NEW n \in files[d]
                 PROVE  read_mappings[f][n] # NoDir \/ Announced(d, n)
      BY DEF Complete
    <2>1. ~ \E t \in Threads : pc[t] \in Exploring
      BY OwnersDiffer DEF StructInv, LockInv, Quiet, Free
    <2>2. PICK i \in 1..Len(FolderVec(f)) : FolderVec(f)[i] = d
      BY DEF RangeOf
    <2>3. Covered(f, d)
      BY <2>1, <2>2 DEF CoverInv
    <2> QED
      BY <2>3 DEF Covered, Known, Mapped
  <1> QED
    BY <1>1, <1>2, <1>3, StructTheorem, PTL DEF Spec

-----------------------------------------------------------------------------
\* The position of a directory is that of its last occurrence in foldervec.
LEMMA PositionIs ==
    ASSUME NEW f \in Folders, NEW i \in 1..Len(FolderVec(f))
    PROVE  LET p == Position(f, FolderVec(f)[i]) IN
           /\ p \in 1..Len(FolderVec(f)) /\ i <= p
           /\ FolderVec(f)[p] = FolderVec(f)[i]
  <1> DEFINE d == FolderVec(f)[i]
             N == Len(FolderVec(f))
             S == {j \in 1..N : FolderVec(f)[j] = d}
  <1>1. N \in Nat \ {0}
    BY FolderVecType
  <1>2. S \in SUBSET (0..N) /\ i \in S
    BY <1>1
  <1>3. PICK x \in S : \A y \in S : y <= x
    <2> HIDE DEF S, N
    <2> QED
      BY <1>1, <1>2, GreatestElement
  <1>4. /\ x \in 1..N /\ FolderVec(f)[x] = d
        /\ \A j \in 1..N : FolderVec(f)[j] = d => j <= x
    BY <1>3
  <1>5. LET p == Position(f, d) IN
        /\ p \in 1..N /\ FolderVec(f)[p] = d
        /\ \A j \in 1..N : FolderVec(f)[j] = d => j <= p
    BY <1>4 DEF Position
  <1> QED
    BY <1>5

\* The write directory is on top.
LEMMA WriteDirOnTop ==
    ASSUME NEW f \in Folders, WriteDir[f] # NoDir
    PROVE  /\ WriteDir[f] \in Dirs /\ ReverseFolder[WriteDir[f]] = f
           /\ WriteDir[f] \in RangeOf(FolderVec(f))
           /\ Position(f, WriteDir[f]) = Len(FolderVec(f))
  <1>1. FolderPaths[f] \in Seq(Dirs) /\ WriteDir[f] \in Dirs
    BY FolderPathsType, WriteDirType
  <1>2. FolderVec(f) = Append(FolderPaths[f], WriteDir[f])
    BY DEF FolderVec
  <1>3. FolderVec(f)[Len(FolderVec(f))] = WriteDir[f]
    BY <1>1, <1>2
  <1>4. Len(FolderVec(f)) \in Nat \ {0}
    BY FolderVecType
  <1>5. Len(FolderVec(f)) \in 1..Len(FolderVec(f))
    BY <1>4
  <1>6. /\ Position(f, WriteDir[f]) \in 1..Len(FolderVec(f))
        /\ Len(FolderVec(f)) <= Position(f, WriteDir[f])
    BY <1>3, <1>5, PositionIs
  <1>7. ReverseFolder[WriteDir[f]] = f
    BY <1>3, <1>5, FolderVecType
  <1>8. WriteDir[f] \in RangeOf(FolderVec(f))
    BY <1>3, <1>5 DEF RangeOf
  <1> QED
    BY <1>1, <1>4, <1>6, <1>7, <1>8

LEMMA DirKnown ==
    ASSUME NEW d \in Dirs
    PROVE  d \in RangeOf(FolderVec(ReverseFolder[d]))
  <1> DEFINE f == ReverseFolder[d]
  <1>1. /\ f \in Folders /\ FolderPaths[f] \in Seq(Dirs)
        /\ d \in RangeOf(FolderPaths[f])
    BY FolderPathsType
  <1>2. PICK i \in 1..Len(FolderPaths[f]) : FolderPaths[f][i] = d
    BY <1>1 DEF RangeOf
  <1>3. i \in 1..Len(FolderVec(f)) /\ FolderVec(f)[i] = d
    <2>1. CASE WriteDir[f] = NoDir
      BY <1>2, <2>1 DEF FolderVec
    <2>2. CASE WriteDir[f] # NoDir
      <3>1. WriteDir[f] \in Dirs
        BY <1>1, <2>2, WriteDirType
      <3>2. FolderVec(f) = Append(FolderPaths[f], WriteDir[f])
        BY <2>2 DEF FolderVec
      <3> QED
        BY <1>1, <1>2, <3>1, <3>2
    <2> QED
      BY <2>1, <2>2
  <1> QED
    BY <1>3 DEF RangeOf

-----------------------------------------------------------------------------
(* What a step may do to the tables and to a thread *)

LEMMA MappingShape ==
    ASSUME StructInv, [Next]_vars
    PROVE  \/ UNCHANGED read_mappings
           \/ \E t \in Threads, n \in Names : AddReadEntry(t, n)
           \/ \E t \in Threads :
                 /\ pc[t] = "lockwrite" /\ WriteDir[folder[t]] # NoDir
                 /\ read_mappings' = [read_mappings EXCEPT
                       ![folder[t]][name[t]] = WriteDir[folder[t]]]
           \/ MapEvent
  <1>1. ASSUME NEW t \in Threads, ThreadStep(t), ~LockWrite(t),
               \A n \in Names : ~AddReadEntry(t, n)
        PROVE  UNCHANGED read_mappings
    BY <1>1
       DEF ThreadStep, Progress, Call, Gate, FindMapping, CheckFolder,
           SnapshotFolder, LockProcessing, OpenDirectory, SkipRemoved,
           AddChild, CloseDirectory, FindAgain, FolderLookup, AddWrittenChild,
           DeleteFile, SyscallCreates, SyscallDeletes, SyscallLeaves, Finish,
           tables
  <1>2. ASSUME NEW t \in Threads, LockWrite(t)
        PROVE  \/ UNCHANGED read_mappings
               \/ /\ pc[t] = "lockwrite" /\ WriteDir[folder[t]] # NoDir
                  /\ read_mappings' = [read_mappings EXCEPT
                        ![folder[t]][name[t]] = WriteDir[folder[t]]]
    BY <1>2 DEF LockWrite
  <1>3. ASSUME ListenerStep \/ ExternalStep \/ UNCHANGED vars, ~MapEvent
        PROVE  UNCHANGED read_mappings
    BY <1>3
       DEF ListenerStep, TakeEvent, ListEvent, EraseEvent, EventDone,
           ExternalStep, ExternalCreate, ExternalDelete, vars, tables
  <1> QED
    BY <1>1, <1>2, <1>3 DEF Next

LEMMA ChildrenShape ==
    ASSUME [Next]_vars
    PROVE  \/ UNCHANGED children
           \/ \E t \in Threads :
                 AddChild(t) \/ AddWrittenChild(t) \/ DeleteFile(t)
           \/ ListEvent \/ EraseEvent
  <1>1. ASSUME NEW t \in Threads, ThreadStep(t), ~AddChild(t),
               ~AddWrittenChild(t), ~DeleteFile(t)
        PROVE  UNCHANGED children
    BY <1>1
       DEF ThreadStep, Progress, Call, Gate, FindMapping, CheckFolder,
           SnapshotFolder, LockProcessing, OpenDirectory, SkipRemoved,
           AddReadEntry, CloseDirectory, FindAgain, FolderLookup, LockWrite,
           SyscallCreates, SyscallDeletes, SyscallLeaves, Finish, tables
  <1>2. ASSUME ListenerStep \/ ExternalStep \/ UNCHANGED vars,
               ~ListEvent, ~EraseEvent
        PROVE  UNCHANGED children
    BY <1>2
       DEF ListenerStep, TakeEvent, MapEvent, EventDone,
           ExternalStep, ExternalCreate, ExternalDelete, vars, tables
  <1> QED
    BY <1>1, <1>2 DEF Next

\* The locals of a thread that does not take the step, but for an entry of its
\* scan that appears as a file does.
LEMMA OtherThread ==
    ASSUME StructInv, [Next]_vars, NEW u \in Threads, ~ThreadStep(u)
    PROVE  /\ pc'[u] = pc[u] /\ intent'[u] = intent[u]
           /\ folder'[u] = folder[u] /\ name'[u] = name[u]
           /\ result'[u] = result[u] /\ index'[u] = index[u]
           /\ entry'[u] = entry[u]
           /\ todo[u] \subseteq todo'[u]
           /\ todo'[u] \subseteq todo[u] \cup files'[ScannedDir(u)]
  <1> USE DEF StructInv, TypeOK, Processes, Goto
  <1>1. ASSUME NEW d \in Dirs, NEW n \in Names,
               FileAppears(d, n) \/ FileVanishes(d, n)
        PROVE  /\ todo[u] \subseteq todo'[u]
               /\ todo'[u] \subseteq todo[u] \cup files'[ScannedDir(u)]
    <2>1. CASE UNCHANGED todo
      BY <2>1
    <2>2. CASE \E t \in Threads : /\ ScannedDir(t) = d
                                  /\ todo' = [todo EXCEPT ![t] = @ \cup {n}]
                                  /\ files' = [files EXCEPT ![d] = @ \cup {n}]
      <3>1. n \in files'[d]
        BY <2>2
      <3> QED
        BY <2>2, <3>1
    <2> QED
      BY <1>1, <2>1, <2>2 DEF FileAppears, FileVanishes
  <1>2. ASSUME NEW t \in Threads \ {u}, ThreadStep(t)
        PROVE  /\ pc'[u] = pc[u] /\ intent'[u] = intent[u]
               /\ folder'[u] = folder[u] /\ name'[u] = name[u]
               /\ result'[u] = result[u] /\ index'[u] = index[u]
               /\ entry'[u] = entry[u]
               /\ todo[u] \subseteq todo'[u]
               /\ todo'[u] \subseteq todo[u] \cup files'[ScannedDir(u)]
    <2>1. CASE \E i \in Intents, f \in Folders, n \in Names : Call(t, i, f, n)
      BY <1>2, <2>1 DEF Call, scan
    <2>2. CASE \/ Gate(t) \/ CheckFolder(t) \/ SnapshotFolder(t)
               \/ LockProcessing(t) \/ OpenDirectory(t) \/ AddChild(t)
               \/ CloseDirectory(t) \/ DeleteFile(t)
      BY <1>2, <2>2 DEF Gate, CheckFolder, SnapshotFolder, LockProcessing,
         OpenDirectory, AddChild, CloseDirectory, DeleteFile, call, scan
    <2>3. CASE \E n \in Names : AddReadEntry(t, n) \/ SkipRemoved(t, n)
      BY <1>2, <2>3 DEF AddReadEntry, SkipRemoved, call
    <2>4. CASE \/ FindMapping(t) \/ FindAgain(t) \/ FolderLookup(t)
               \/ LockWrite(t) \/ AddWrittenChild(t)
      BY <1>2, <2>4 DEF FindMapping, FindAgain, FolderLookup, LockWrite,
         AddWrittenChild, Return, call, scan
    <2>5. CASE SyscallCreates(t) \/ SyscallDeletes(t) \/ SyscallLeaves(t)
      <3>1. Finish(t)
        BY <2>5 DEF SyscallCreates, SyscallDeletes, SyscallLeaves
      <3>2. /\ todo[u] \subseteq todo'[u]
            /\ todo'[u] \subseteq todo[u] \cup files'[ScannedDir(u)]
        BY <1>1, <2>5 DEF SyscallCreates, SyscallDeletes, SyscallLeaves,
           NothingHappens
      <3> QED
        BY <1>2, <3>1, <3>2 DEF Finish
    <2> QED
      BY <1>2, <2>1, <2>2, <2>3, <2>4, <2>5 DEF ThreadStep, Progress
  <1>3. CASE ListenerStep \/ UNCHANGED vars
    BY <1>3, OwnersDiffer
       DEF ListenerStep, TakeEvent, MapEvent, ListEvent, EraseEvent,
           EventDone, vars, call, scan
  <1>4. CASE ExternalStep
    <2>1. UNCHANGED <<pc, call, result, index, entry>>
      BY <1>4 DEF ExternalStep, ExternalCreate, ExternalDelete
    <2>2. /\ todo[u] \subseteq todo'[u]
          /\ todo'[u] \subseteq todo[u] \cup files'[ScannedDir(u)]
      BY <1>1, <1>4, InputTypes
         DEF ExternalStep, ExternalCreate, ExternalDelete
    <2> QED
      BY <2>1, <2>2 DEF call
  <1> QED
    BY <1>2, <1>3, <1>4 DEF Next

\* The steps by which a thread gets to, or stays in, the readdir loop.
LEMMA ScanMove ==
    ASSUME StructInv, NEW u \in Threads, ThreadStep(u),
           pc'[u] \in {"scan", "child"}
    PROVE  \/ OpenDirectory(u) \/ AddChild(u)
           \/ \E n \in Names : AddReadEntry(u, n) \/ SkipRemoved(u, n)
  <1> USE DEF StructInv, TypeOK, Processes, Goto
  <1>1. ASSUME \/ \E i \in Intents, f \in Folders, n \in Names : Call(u, i, f, n)
               \/ Gate(u) \/ CheckFolder(u) \/ SnapshotFolder(u)
               \/ LockProcessing(u) \/ CloseDirectory(u) \/ DeleteFile(u)
        PROVE  FALSE
    BY <1>1 DEF Call, Gate, CheckFolder, SnapshotFolder, LockProcessing,
       CloseDirectory, DeleteFile
  <1>2. ASSUME \/ FindMapping(u) \/ FindAgain(u) \/ FolderLookup(u)
               \/ LockWrite(u) \/ AddWrittenChild(u)
        PROVE  FALSE
    BY <1>2 DEF FindMapping, FindAgain, FolderLookup, LockWrite,
       AddWrittenChild, Return
  <1>3. ASSUME SyscallCreates(u) \/ SyscallDeletes(u) \/ SyscallLeaves(u)
        PROVE  FALSE
    BY <1>3 DEF SyscallCreates, SyscallDeletes, SyscallLeaves, Finish
  <1> QED
    BY <1>1, <1>2, <1>3 DEF ThreadStep, Progress

-----------------------------------------------------------------------------
(* While nothing is deleted *)

\* The program and other processes delete nothing below the directories.
NothingDeleted == "Delete" \notin Intents /\ ExternalDirs = {}

Holds(f, n, d) == d \in RangeOf(FolderVec(f)) /\ n \in files[d]

\* Events only tell of files in write directories; what a mapping, a scan or
\* a creation names is there, or is about to be created in the write directory.
CreationInv ==
    /\ \A t \in Threads : intent[t] # "Delete" /\ pc[t] # "delete"
    /\ \A i \in 1..Len(events) :
          /\ events[i].op = "R"
          /\ events[i].dir = WriteDir[ReverseFolder[events[i].dir]]
          /\ events[i].name \in files[events[i].dir]
    /\ \A f \in Folders, n \in Names :
          \/ read_mappings[f][n] \in {NoDir, WriteDir[f]}
          \/ Holds(f, n, read_mappings[f][n])
    /\ \A t \in Threads :
          /\ pc[t] \in {"scan", "child"} => todo[t] \subseteq files[ScannedDir(t)]
          /\ pc[t] = "syscall" /\ intent[t] = "Create" =>
                \/ result[t] = WriteDir[folder[t]]
                \/ Holds(folder[t], name[t], result[t])

\* The event of the file that t creates.
Creates(t) ==
    /\ SyscallCreates(t)
    /\ result[t] = WriteDir[folder[t]]
    /\ result[t] \in Dirs /\ ReverseFolder[result[t]] = folder[t]
    /\ name[t] \notin files[result[t]]
    /\ files' = [files EXCEPT ![result[t]] = @ \cup {name[t]}]
    /\ events' = Append(events, [op |-> "R", dir |-> result[t], name |-> name[t]])

LEMMA CreationShape ==
    ASSUME NothingDeleted, StructInv, CreationInv, [Next]_vars
    PROVE  \/ UNCHANGED files /\ UNCHANGED events
           \/ \E t \in Threads : Creates(t)
           \/ UNCHANGED files /\ ListEvent
  <1> USE DEF StructInv, TypeOK
  <1>1. ASSUME NEW t \in Threads, SyscallCreates(t)
        PROVE  Creates(t)
    <2>1. /\ FileAppears(result[t], name[t]) /\ result[t] # NoDir
          /\ pc[t] = "syscall" /\ intent[t] = "Create"
      BY <1>1 DEF SyscallCreates, Finish
    <2>2. /\ name[t] \notin files[result[t]]
          /\ files' = [files EXCEPT ![result[t]] = @ \cup {name[t]}]
          /\ events' = Append(events,
                          [op |-> "R", dir |-> result[t], name |-> name[t]])
      BY <2>1 DEF FileAppears, Notify
    <2>3. result[t] = WriteDir[folder[t]]
      BY <2>1, <2>2 DEF CreationInv, Holds
    <2>4. result[t] \in Dirs /\ ReverseFolder[result[t]] = folder[t]
      BY <2>1, <2>3, WriteDirOnTop
    <2> QED
      BY <1>1, <2>2, <2>3, <2>4 DEF Creates
  <1>2. ASSUME NEW t \in Threads, ThreadStep(t), ~SyscallCreates(t)
        PROVE  UNCHANGED files /\ UNCHANGED events
    <2>1. ~SyscallDeletes(t)
      BY DEF SyscallDeletes, CreationInv
    <2> QED
      BY <1>2, <2>1
         DEF ThreadStep, Progress, Call, Gate, FindMapping, CheckFolder,
             SnapshotFolder, LockProcessing, OpenDirectory, AddReadEntry,
             SkipRemoved, AddChild, CloseDirectory, FindAgain, FolderLookup,
             LockWrite, AddWrittenChild, DeleteFile, SyscallLeaves,
             NothingHappens, disk
  <1>3. CASE ListenerStep
    <2>1. ~EraseEvent
      <3>1. SUFFICES ASSUME EraseEvent PROVE FALSE
        OBVIOUS
      <3>2. /\ events # << >> /\ Head(events).op = "D"
        BY <3>1 DEF EraseEvent, ListenerInv
      <3>3. Head(events) = events[1] /\ 1 \in 1..Len(events)
        BY <3>2
      <3> QED
        BY <3>2, <3>3 DEF CreationInv
    <2> QED
      BY <1>3, <2>1 DEF ListenerStep, TakeEvent, MapEvent, ListEvent, EventDone,
                        disk
  <1>4. ~ExternalStep
    BY DEF ExternalStep, NothingDeleted
  <1>5. CASE UNCHANGED vars
    BY <1>5 DEF vars, disk
  <1> QED
    BY <1>1, <1>2, <1>3, <1>4, <1>5 DEF Next

LEMMA FilesGrow ==
    ASSUME NothingDeleted, StructInv, CreationInv, [Next]_vars, NEW d \in Dirs
    PROVE  files[d] \subseteq files'[d]
  BY CreationShape DEF Creates, StructInv, TypeOK

LEMMA HoldsKept ==
    ASSUME NothingDeleted, StructInv, CreationInv, [Next]_vars,
           NEW f \in Folders, NEW n, NEW d, Holds(f, n, d)
    PROVE  Holds(f, n, d)'
  <1>1. d \in Dirs
    BY FolderVecType DEF Holds, RangeOf
  <1> QED
    BY <1>1, FilesGrow DEF Holds

LEMMA HeadEvent ==
    ASSUME StructInv, CreationInv, events # << >>
    PROVE  /\ Head(events).op = "R"
           /\ Head(events).dir = WriteDir[ReverseFolder[Head(events).dir]]
           /\ Head(events).name \in files[Head(events).dir]
  <1>1. events[1] = Head(events) /\ 1 \in 1..Len(events)
    BY DEF StructInv, TypeOK
  <1> QED
    BY <1>1 DEF CreationInv

LEMMA CreationEvents ==
    ASSUME NothingDeleted, StructInv, CreationInv, [Next]_vars,
           NEW i \in 1..Len(events')
    PROVE  /\ events'[i].op = "R"
           /\ events'[i].dir = WriteDir[ReverseFolder[events'[i].dir]]
           /\ events'[i].name \in files'[events'[i].dir]
  <1> DEFINE Good(e) == /\ e.op = "R"
                        /\ e.dir = WriteDir[ReverseFolder[e.dir]]
                        /\ e.name \in files'[e.dir]
  <1> SUFFICES Good(events'[i])
    OBVIOUS
  <1>1. events \in Seq(Events)
    BY DEF StructInv, TypeOK
  <1>2. ASSUME NEW j \in 1..Len(events) PROVE Good(events[j])
    <2>1. events[j].dir \in Dirs
      <3>1. events[j] \in Events
        BY <1>1
      <3> QED
        BY <3>1 DEF Events
    <2> QED
      BY <2>1, FilesGrow DEF CreationInv
  <1> HIDE DEF Good
  <1>3. CASE UNCHANGED events
    BY <1>2, <1>3 DEF Good
  <1>4. ASSUME NEW t \in Threads, Creates(t) PROVE Good(events'[i])
    <2> DEFINE e == [op |-> "R", dir |-> result[t], name |-> name[t]]
    <2>1. Good(e)
      BY <1>4 DEF Creates, Good, StructInv, TypeOK
    <2>2. events' = Append(events, e)
      BY <1>4 DEF Creates
    <2>3. i = Len(events) + 1 \/ i \in 1..Len(events)
      BY <1>1, <2>2
    <2>4. i \in 1..Len(events) => events'[i] = events[i]
      BY <1>1, <2>2
    <2>5. events'[Len(events) + 1] = e
      BY <1>1, <2>2
    <2> HIDE DEF e
    <2> QED
      BY <1>2, <2>1, <2>3, <2>4, <2>5
  <1>5. CASE ListEvent
    <2>1. events # << >> /\ events' = Tail(events)
      BY <1>5, HeadType DEF ListEvent, EventDone
    <2>2. i + 1 \in 1..Len(events) /\ events'[i] = events[i + 1]
      BY <1>1, <2>1
    <2> QED
      BY <1>2, <2>2
  <1> QED
    BY <1>3, <1>4, <1>5, CreationShape

LEMMA CreationMappings ==
    ASSUME NothingDeleted, StructInv, CreationInv, [Next]_vars,
           NEW f \in Folders, NEW n \in Names
    PROVE  \/ read_mappings'[f][n] \in {NoDir, WriteDir[f]}
           \/ Holds(f, n, read_mappings[f][n])'
  <1> USE DEF StructInv, TypeOK
  <1>1. CASE read_mappings'[f][n] = read_mappings[f][n]
    <2>1. Holds(f, n, read_mappings[f][n])
             => Holds(f, n, read_mappings[f][n])'
      <3>1. \E d : d = read_mappings[f][n]
        OBVIOUS
      <3>2. PICK d : d = read_mappings[f][n]
        BY <3>1
      <3> QED
        BY <1>1, <3>2, HoldsKept DEF Holds
    <2> QED
      BY <1>1, <2>1 DEF CreationInv, Holds
  <1>2. ASSUME NEW t \in Threads, NEW m \in Names, AddReadEntry(t, m)
        PROVE  \/ read_mappings'[f][n] = read_mappings[f][n]
               \/ Holds(f, n, read_mappings[f][n])'
    <2>1. /\ pc[t] = "scan" /\ m \in todo[t]
          /\ read_mappings' =
                [read_mappings EXCEPT ![folder[t]][m] = ScannedDir(t)]
          /\ UNCHANGED files
      BY <1>2 DEF AddReadEntry, disk
    <2>2. CASE f = folder[t] /\ n = m
      <3>1. read_mappings'[f][n] = ScannedDir(t)
        BY <2>1, <2>2
      <3>2. n \in files[ScannedDir(t)]
        BY <2>1, <2>2 DEF CreationInv
      <3>3. ScannedDir(t) \in RangeOf(FolderVec(f))
        BY <2>2, FolderVecType DEF ScannedDir, ScanInv, RangeOf
      <3> QED
        BY <2>1, <3>1, <3>2, <3>3 DEF Holds
    <2>3. CASE ~(f = folder[t] /\ n = m)
      BY <2>1, <2>3
    <2> QED
      BY <2>2, <2>3
  <1>3. ASSUME NEW t \in Threads,
               read_mappings' = [read_mappings EXCEPT
                  ![folder[t]][name[t]] = WriteDir[folder[t]]]
        PROVE  \/ read_mappings'[f][n] = read_mappings[f][n]
               \/ read_mappings'[f][n] = WriteDir[f]
    BY <1>3
  <1>4. CASE MapEvent
    <2>1. events # << >>
      BY <1>4, HeadType DEF MapEvent
    <2>2. Head(events).dir = WriteDir[ReverseFolder[Head(events).dir]]
      BY <2>1, HeadEvent
    <2>3. read_mappings' = [read_mappings EXCEPT
             ![ReverseFolder[Head(events).dir]][Head(events).name]
                = Head(events).dir]
      BY <1>4 DEF MapEvent
    <2>4. \/ read_mappings'[f][n] = read_mappings[f][n]
          \/ read_mappings'[f][n] = WriteDir[f]
      BY <2>2, <2>3
    <2> QED
      BY <1>1, <2>4
  <1> QED
    BY <1>1, <1>2, <1>3, <1>4, MappingShape

LEMMA CreationScan ==
    ASSUME NothingDeleted, StructInv, CreationInv, [Next]_vars,
           NEW u \in Threads, pc'[u] \in {"scan", "child"}
    PROVE  todo'[u] \subseteq files'[ScannedDir(u)'] /\ ScannedDir(u)' = ScannedDir(u)
  <1> USE DEF StructInv, TypeOK, Processes, Goto
  <1>1. files[ScannedDir(u)] \subseteq files'[ScannedDir(u)]
    BY ScannedDirType, FilesGrow
  <1>2. CASE ~ThreadStep(u)
    <2>1. /\ pc'[u] = pc[u] /\ ScannedDir(u)' = ScannedDir(u)
          /\ todo'[u] \subseteq todo[u] \cup files'[ScannedDir(u)]
      BY <1>2, OtherThread DEF ScannedDir
    <2> QED
      BY <1>1, <2>1 DEF CreationInv
  <1>3. CASE OpenDirectory(u)
    BY <1>3 DEF OpenDirectory, disk, call, ScannedDir
  <1>4. CASE AddChild(u)
    BY <1>4 DEF AddChild, disk, call, ScannedDir, CreationInv
  <1>5. ASSUME NEW n \in Names, AddReadEntry(u, n) \/ SkipRemoved(u, n)
        PROVE  /\ todo'[u] \subseteq files'[ScannedDir(u)']
               /\ ScannedDir(u)' = ScannedDir(u)
    BY <1>5 DEF AddReadEntry, SkipRemoved, disk, call, ScannedDir, CreationInv
  <1> QED
    BY <1>2, <1>3, <1>4, <1>5, ScanMove

LEMMA CreationCalls ==
    ASSUME NothingDeleted, StructInv, CreationInv, [Next]_vars,
           NEW u \in Threads
    PROVE  /\ intent'[u] # "Delete" /\ pc'[u] # "delete"
           /\ pc'[u] = "syscall" /\ intent'[u] = "Create" =>
                 \/ result'[u] = WriteDir[folder'[u]]
                 \/ Holds(folder[u], name[u], result[u])'
  <1> USE DEF StructInv, TypeOK, Processes, Goto
  <1>1. CASE ~ThreadStep(u)
    <2>1. /\ pc'[u] = pc[u] /\ intent'[u] = intent[u]
          /\ folder'[u] = folder[u] /\ name'[u] = name[u]
          /\ result'[u] = result[u]
      BY <1>1, OtherThread
    <2>2. Holds(folder[u], name[u], result[u])
             => Holds(folder[u], name[u], result[u])'
      <3>1. PICK f \in Folders, n \in Names, d \in Dirs \cup {NoDir} :
                f = folder[u] /\ n = name[u] /\ d = result[u]
        OBVIOUS
      <3> QED
        BY <2>1, <3>1, HoldsKept DEF Holds
    <2> QED
      BY <2>1, <2>2 DEF CreationInv
  <1>2. CASE \E i \in Intents, f \in Folders, n \in Names : Call(u, i, f, n)
    BY <1>2 DEF Call, NothingDeleted
  <1>3. CASE \/ Gate(u) \/ CheckFolder(u) \/ SnapshotFolder(u)
             \/ LockProcessing(u) \/ OpenDirectory(u) \/ AddChild(u)
             \/ CloseDirectory(u)
    BY <1>3 DEF Gate, CheckFolder, SnapshotFolder, LockProcessing,
       OpenDirectory, AddChild, CloseDirectory, call, CreationInv
  <1>4. CASE \E n \in Names : AddReadEntry(u, n) \/ SkipRemoved(u, n)
    BY <1>4 DEF AddReadEntry, SkipRemoved, call, CreationInv
  <1>5. CASE FindMapping(u) \/ FindAgain(u)
    <2>1. /\ UNCHANGED <<intent, folder, name, files>>
          /\ pc'[u] = "syscall" =>
                /\ read_mappings[folder[u]][name[u]] # NoDir
                /\ result'[u] = read_mappings[folder[u]][name[u]]
          /\ pc'[u] # "delete"
      BY <1>5 DEF FindMapping, FindAgain, Return, call, disk, CreationInv
    <2> QED
      BY <2>1 DEF CreationInv, Holds
  <1>6. CASE FolderLookup(u)
    BY <1>6 DEF FolderLookup, Return, call, CreationInv
  <1>7. CASE LockWrite(u) \/ AddWrittenChild(u)
    BY <1>7 DEF LockWrite, AddWrittenChild, Return, call, CreationInv
  <1>8. ~DeleteFile(u)
    BY DEF DeleteFile, CreationInv
  <1>9. CASE SyscallCreates(u) \/ SyscallDeletes(u) \/ SyscallLeaves(u)
    BY <1>9 DEF SyscallCreates, SyscallDeletes, SyscallLeaves, Finish
  <1> QED
    BY <1>1, <1>2, <1>3, <1>4, <1>5, <1>6, <1>7, <1>8, <1>9
       DEF ThreadStep, Progress

LEMMA CreationStep ==
    ASSUME NothingDeleted, StructInv, CreationInv, [Next]_vars
    PROVE  CreationInv'
  <1>1. \A i \in 1..Len(events') :
           /\ events'[i].op = "R"
           /\ events'[i].dir = WriteDir[ReverseFolder[events'[i].dir]]
           /\ events'[i].name \in files'[events'[i].dir]
    BY CreationEvents
  <1>2. \A f \in Folders, n \in Names :
           \/ read_mappings'[f][n] \in {NoDir, WriteDir[f]}
           \/ Holds(f, n, read_mappings[f][n])'
    BY CreationMappings
  <1>3. \A u \in Threads : pc'[u] \in {"scan", "child"} =>
           todo'[u] \subseteq files'[ScannedDir(u)']
    BY CreationScan
  <1>4. \A u \in Threads :
           /\ intent'[u] # "Delete" /\ pc'[u] # "delete"
           /\ pc'[u] = "syscall" /\ intent'[u] = "Create" =>
                 \/ result'[u] = WriteDir[folder'[u]]
                 \/ Holds(folder[u], name[u], result[u])'
    BY CreationCalls
  <1> QED
    BY <1>1, <1>2, <1>3, <1>4 DEF CreationInv

LEMMA CreationInvariant ==
    ASSUME NothingDeleted
    PROVE  Spec => []CreationInv
  <1>1. Init => CreationInv
    BY DEF Init, CreationInv, Processes
  <1>2. StructInv /\ CreationInv /\ [Next]_vars => CreationInv'
    BY CreationStep
  <1> QED
    BY <1>1, <1>2, StructTheorem, PTL DEF Spec

\* A new file goes to the write directory of its folder, unless a directory of
\* the folder holds it already (winevfs_get_path_inner, vfs.cpp:1258): a lookup
\* never answers with a directory that does not hold the file.
THEOREM CreateInWriteDirTheorem ==
    ASSUME NothingDeleted
    PROVE  Spec => []CreateInWriteDir
  <1>1. StructInv /\ CreationInv => CreateInWriteDir
    <2> SUFFICES ASSUME StructInv, CreationInv, NEW t \in Threads,
                        pc[t] = "syscall", intent[t] = "Create",
                        Winner(folder[t], name[t]) = NoDir
                 PROVE  result[t] = WriteDir[folder[t]]
      BY DEF CreateInWriteDir
    <2>1. folder[t] \in Folders
      BY DEF StructInv, TypeOK
    <2>2. ASSUME Holds(folder[t], name[t], result[t])
          PROVE  FALSE
      <3>1. PICK i \in 1..Len(FolderVec(folder[t])) :
                name[t] \in files[FolderVec(folder[t])[i]]
        BY <2>2 DEF Holds, RangeOf
      <3> DEFINE S == Backers(folder[t], name[t])
                 N == Len(FolderVec(folder[t]))
      <3>2. S \in SUBSET (0..N) /\ S # {} /\ N \in Nat
        BY <2>1, <3>1, FolderVecType DEF Backers
      <3>3. \E j \in S : \A k \in S : k <= j
        <4> HIDE DEF S, N
        <4> QED
          BY <3>2, GreatestElement
      <3>4. PICK j \in S : Winner(folder[t], name[t]) = FolderVec(folder[t])[j]
        BY <3>2, <3>3 DEF Winner
      <3>5. Winner(folder[t], name[t]) \in Dirs
        BY <2>1, <3>4, FolderVecType DEF Backers
      <3> QED
        BY <3>5, OwnersDiffer
    <2> QED
      BY <2>2 DEF CreationInv
  <1> QED
    BY <1>1, CreationInvariant, StructTheorem, PTL

-----------------------------------------------------------------------------
(* The load order and the listings.  A folder whose exploration has begun   *)
(* has every file listed, and mapped no lower than where it is, but for     *)
(* those the scan has still to read and those whose event is in the queue.  *)

Begun(f) ==
    explored[f] \/ \E t \in Threads : pc[t] \in Exploring /\ folder[t] = f

\* The scan of t has still to read n in the i-th directory of f.
Unread(t, f, i, n) ==
    /\ pc[t] \in Exploring /\ folder[t] = f
    /\ \/ index[t] < i
       \/ index[t] = i /\ (pc[t] = "open" \/ n \in todo[t])

Noted(f, d, n) ==
    \/ n \in children[f] \/ Announced(d, n)
    \/ \E t \in Threads : pc[t] = "child" /\ folder[t] = f /\ entry[t] = n

Settled(f, i, n) ==
    \/ ~Mapped(f, n)
    \/ i <= Position(f, read_mappings[f][n])
    \/ Announced(FolderVec(f)[i], n)

OrderInv ==
    /\ pc[Listener] = "list" =>
          LET e == Head(events) IN
          read_mappings[ReverseFolder[e.dir]][e.name]
             = WriteDir[ReverseFolder[e.dir]]
    /\ \A f \in Folders : Begun(f) =>
          \A i \in 1..Len(FolderVec(f)) : \A n \in files[FolderVec(f)[i]] :
             \/ Noted(f, FolderVec(f)[i], n) /\ Settled(f, i, n)
             \/ \E t \in Threads : Unread(t, f, i, n)

LEMMA BegunStep ==
    ASSUME StructInv, [Next]_vars, NEW f \in Folders, Begun(f)'
    PROVE  \/ Begun(f)
           \/ \E t \in Threads :
                 pc'[t] = "open" /\ folder'[t] = f /\ index'[t] = 1
  <1> USE DEF StructInv, TypeOK, Processes, Goto
  <1>1. ASSUME NEW t \in Threads, ThreadStep(t), ~CloseDirectory(t)
        PROVE  UNCHANGED explored
    BY <1>1
       DEF ThreadStep, Progress, Call, Gate, FindMapping, CheckFolder,
           SnapshotFolder, LockProcessing, OpenDirectory, AddReadEntry,
           SkipRemoved, AddChild, FindAgain, FolderLookup, LockWrite,
           AddWrittenChild, DeleteFile, SyscallCreates, SyscallDeletes,
           SyscallLeaves, Finish, tables
  <1>2. ASSUME ListenerStep \/ ExternalStep \/ UNCHANGED vars
        PROVE  UNCHANGED explored
    BY <1>2
       DEF ListenerStep, TakeEvent, MapEvent, ListEvent, EraseEvent,
           EventDone, ExternalStep, ExternalCreate, ExternalDelete, vars, tables
  <1>3. ASSUME NEW t \in Threads, CloseDirectory(t), explored'[f]
        PROVE  Begun(f)
    BY <1>3 DEF CloseDirectory, Begun, Exploring
  <1>4. CASE explored'[f]
    BY <1>1, <1>2, <1>3, <1>4 DEF Next, Begun
  <1>5. ASSUME NEW t \in Threads, pc'[t] \in Exploring, folder'[t] = f,
               ThreadStep(t)
        PROVE  Begun(f) \/ (pc'[t] = "open" /\ index'[t] = 1)
    <2>1. CASE pc[t] \in Exploring
      <3>1. pc'[t] # "idle" /\ pc'[t] # "gate"
        BY <1>5 DEF Exploring
      <3>2. folder'[t] = folder[t]
        BY <1>5, <3>1, StandoffShape
      <3> QED
        BY <1>5, <2>1, <3>2 DEF Begun
    <2>2. CASE pc[t] \notin Exploring
      <3>1. LockProcessing(t)
        BY <1>5, <2>2
           DEF ThreadStep, Progress, Call, Gate, FindMapping, CheckFolder,
               SnapshotFolder, OpenDirectory, AddReadEntry, SkipRemoved,
               AddChild, CloseDirectory, FindAgain, FolderLookup, LockWrite,
               AddWrittenChild, DeleteFile, SyscallCreates, SyscallDeletes,
               SyscallLeaves, Finish, Return, Exploring
      <3> QED
        BY <2>2, <3>1 DEF LockProcessing, ScanInv, scan
    <2> QED
      BY <2>1, <2>2
  <1>6. ASSUME NEW t \in Threads, pc'[t] \in Exploring, folder'[t] = f,
               ~ThreadStep(t)
        PROVE  Begun(f)
    BY <1>6, OtherThread DEF Begun
  <1> QED
    BY <1>4, <1>5, <1>6 DEF Begun

LEMMA NotedStep ==
    ASSUME NothingDeleted, StructInv, CreationInv, [Next]_vars,
           NEW f \in Folders, NEW d \in Dirs, ReverseFolder[d] = f,
           NEW n \in Names, Noted(f, d, n)
    PROVE  Noted(f, d, n)'
  <1> USE DEF StructInv, TypeOK
  <1>1. CASE n \in children[f]
    <2>1. ASSUME NEW t \in Threads PROVE ~DeleteFile(t)
      BY DEF DeleteFile, CreationInv
    <2>2. ~EraseEvent
      <3>1. SUFFICES ASSUME EraseEvent PROVE FALSE
        OBVIOUS
      <3>2. events # << >> /\ Head(events).op = "D"
        BY <3>1 DEF EraseEvent, ListenerInv
      <3> QED
        BY <3>2, HeadEvent
    <2>3. ASSUME NEW t \in Threads, AddChild(t)
          PROVE  n \in children'[f]
      BY <1>1, <2>3 DEF AddChild
    <2>4. ASSUME NEW t \in Threads, AddWrittenChild(t)
          PROVE  n \in children'[f]
      BY <1>1, <2>4 DEF AddWrittenChild
    <2>5. ASSUME ListEvent
          PROVE  n \in children'[f]
      BY <1>1, <2>5 DEF ListEvent
    <2> QED
      BY <1>1, <2>1, <2>2, <2>3, <2>4, <2>5, ChildrenShape DEF Noted
  <1>2. CASE Announced(d, n)
    <2>1. CASE UNCHANGED events
      BY <1>2, <2>1 DEF Announced, Noted
    <2>2. ASSUME NEW t \in Threads, Creates(t)
          PROVE  Announced(d, n)'
      <3> DEFINE e == [op |-> "R", dir |-> result[t], name |-> name[t]]
      <3>1. e \in Events /\ events' = Append(events, e)
        BY <2>2 DEF Creates, Events
      <3> HIDE DEF e
      <3> QED
        BY <1>2, <3>1, AnnouncedAppend
    <2>3. CASE ListEvent
      <3>1. events # << >> /\ events' = Tail(events)
        BY <2>3, HeadType DEF ListEvent, EventDone
      <3>2. CASE Head(events) = [op |-> "R", dir |-> d, name |-> n]
        <4>1. Head(events).dir = d /\ Head(events).name = n
          BY <3>2
        <4>2. n \in children'[f]
          BY <2>3, <4>1 DEF ListEvent
        <4> QED
          BY <4>2 DEF Noted
      <3> QED
        BY <1>2, <3>1, <3>2, AnnouncedTail DEF Noted
    <2> QED
      BY <2>1, <2>2, <2>3, CreationShape DEF Noted
  <1>3. ASSUME NEW t \in Threads, pc[t] = "child", folder[t] = f, entry[t] = n
        PROVE  Noted(f, d, n)'
    <2>1. CASE ~ThreadStep(t)
      BY <1>3, <2>1, OtherThread DEF Noted
    <2>2. CASE ThreadStep(t)
      <3>1. AddChild(t)
        BY <1>3, <2>2
           DEF ThreadStep, Progress, Call, Gate, FindMapping, CheckFolder,
               SnapshotFolder, LockProcessing, OpenDirectory, AddReadEntry,
               SkipRemoved, CloseDirectory, FindAgain, FolderLookup, LockWrite,
               AddWrittenChild, DeleteFile, SyscallCreates, SyscallDeletes,
               SyscallLeaves, Finish
      <3>2. n \in children'[f]
        BY <1>3, <3>1 DEF AddChild
      <3> QED
        BY <3>2 DEF Noted
    <2> QED
      BY <2>1, <2>2
  <1> QED
    BY <1>1, <1>2, <1>3 DEF Noted

LEMMA SettledStep ==
    ASSUME NothingDeleted, StructInv, CreationInv, OrderInv, [Next]_vars,
           NEW f \in Folders, NEW i \in 1..Len(FolderVec(f)),
           NEW n \in Names, Settled(f, i, n)
    PROVE  Settled(f, i, n)' \/ \E t \in Threads : Unread(t, f, i, n)'
  <1> DEFINE N == Len(FolderVec(f))
             d == FolderVec(f)[i]
  <1> USE DEF StructInv, TypeOK
  <1>1. N \in Nat \ {0} /\ d \in Dirs /\ ReverseFolder[d] = f
    BY FolderVecType
  <1>2. ASSUME WriteDir[f] # NoDir, read_mappings'[f][n] = WriteDir[f]
        PROVE  Settled(f, i, n)'
    <2>1. Position(f, WriteDir[f]) = N
      BY <1>2, WriteDirOnTop
    <2> HIDE DEF N
    <2>2. i <= N
      BY <1>1 DEF N
    <2> QED
      BY <1>2, <2>1, <2>2 DEF Settled
  <1>3. CASE read_mappings'[f][n] = read_mappings[f][n]
    <2>1. CASE ~Mapped(f, n) \/ i <= Position(f, read_mappings[f][n])
      <3>1. Mapped(f, n)' => Mapped(f, n)
        BY <1>3 DEF Mapped
      <3>2. PICK m : m = read_mappings[f][n] /\ m = read_mappings'[f][n]
        BY <1>3
      <3> QED
        BY <2>1, <3>1, <3>2 DEF Settled
    <2>2. CASE Announced(d, n)
      <3>1. CASE UNCHANGED events
        BY <2>2, <3>1 DEF Announced, Settled
      <3>2. ASSUME NEW t \in Threads, Creates(t)
            PROVE  Announced(d, n)'
        <4> DEFINE e == [op |-> "R", dir |-> result[t], name |-> name[t]]
        <4>1. e \in Events /\ events' = Append(events, e)
          BY <3>2 DEF Creates, Events
        <4> HIDE DEF e
        <4> QED
          BY <2>2, <4>1, AnnouncedAppend
      <3>3. CASE ListEvent
        <4>1. pc[Listener] = "list" /\ events # << >> /\ events' = Tail(events)
          BY <3>3, HeadType DEF ListEvent, EventDone
        <4>2. CASE Head(events) = [op |-> "R", dir |-> d, name |-> n]
          <5>1. d = WriteDir[f] /\ read_mappings[f][n] = WriteDir[f]
            BY <1>1, <4>1, <4>2, HeadEvent DEF OrderInv
          <5>2. WriteDir[f] # NoDir
            BY <1>1, <5>1, OwnersDiffer
          <5> QED
            BY <1>2, <1>3, <5>1, <5>2
        <4> QED
          BY <2>2, <4>1, <4>2, AnnouncedTail DEF Settled
      <3> QED
        BY <3>1, <3>2, <3>3, CreationShape DEF Settled
    <2> QED
      BY <2>1, <2>2 DEF Settled
  <1>4. ASSUME NEW t \in Threads, NEW m \in Names, AddReadEntry(t, m),
               f = folder[t], n = m
        PROVE  Settled(f, i, n)' \/ Unread(t, f, i, n)'
    <2>1. /\ pc[t] = "scan" /\ pc'[t] = "child"
          /\ read_mappings'[f][n] = ScannedDir(t)
          /\ folder'[t] = f /\ index'[t] = index[t]
      BY <1>4 DEF AddReadEntry, Goto, Processes, call
    <2>2. index[t] \in 1..N /\ ScannedDir(t) = FolderVec(f)[index[t]]
      BY <1>1, <1>4 DEF ScanInv, ScannedDir
    <2>3. /\ index[t] <= Position(f, ScannedDir(t))
          /\ Position(f, ScannedDir(t)) \in 1..N
      BY <2>2, PositionIs
    <2> HIDE DEF N
    <2>4. CASE i <= index[t]
      <3>1. i <= Position(f, ScannedDir(t))
        BY <1>1, <2>2, <2>3, <2>4 DEF N
      <3> QED
        BY <2>1, <3>1 DEF Settled
    <2>5. CASE ~(i <= index[t])
      <3>1. index[t] < i
        BY <1>1, <2>2, <2>5 DEF N
      <3> QED
        BY <2>1, <3>1 DEF Unread, Exploring
    <2> QED
      BY <2>4, <2>5
  <1>5. ASSUME NEW t \in Threads, NEW m \in Names, AddReadEntry(t, m),
               ~(f = folder[t] /\ n = m)
        PROVE  read_mappings'[f][n] = read_mappings[f][n]
    BY <1>5 DEF AddReadEntry
  <1>6. ASSUME NEW t \in Threads, WriteDir[folder[t]] # NoDir,
               read_mappings' = [read_mappings EXCEPT
                  ![folder[t]][name[t]] = WriteDir[folder[t]]]
        PROVE  \/ read_mappings'[f][n] = read_mappings[f][n]
               \/ WriteDir[f] # NoDir /\ read_mappings'[f][n] = WriteDir[f]
    BY <1>6
  <1>7. CASE MapEvent
    <2>1. events # << >> /\ Head(events).dir \in Dirs
      BY <1>7, HeadType DEF MapEvent
    <2>2. Head(events).dir = WriteDir[ReverseFolder[Head(events).dir]]
      BY <2>1, HeadEvent
    <2>3. read_mappings' = [read_mappings EXCEPT
             ![ReverseFolder[Head(events).dir]][Head(events).name]
                = Head(events).dir]
      BY <1>7 DEF MapEvent
    <2>4. \/ read_mappings'[f][n] = read_mappings[f][n]
          \/ WriteDir[f] # NoDir /\ read_mappings'[f][n] = WriteDir[f]
      BY <2>1, <2>2, <2>3, OwnersDiffer
    <2> QED
      BY <1>2, <1>3, <2>4
  <1> QED
    BY <1>2, <1>3, <1>4, <1>5, <1>6, <1>7, MappingShape

LEMMA UnreadStep ==
    ASSUME NothingDeleted, StructInv, CreationInv, [Next]_vars,
           NEW f \in Folders, NEW i \in 1..Len(FolderVec(f)),
           NEW n \in files[FolderVec(f)[i]],
           NEW t \in Threads, Unread(t, f, i, n)
    PROVE  \/ Unread(t, f, i, n)'
           \/ Noted(f, FolderVec(f)[i], n)' /\ Settled(f, i, n)'
  <1> DEFINE N == Len(FolderVec(f))
  <1> USE DEF StructInv, TypeOK, Processes, Goto
  <1>1. /\ N \in Nat \ {0} /\ index[t] \in 1..N /\ i \in 1..N
        /\ pc[t] \in Exploring /\ folder[t] = f
        /\ ScannedDir(t) = FolderVec(f)[index[t]]
        /\ n \in Names
    BY FolderVecType DEF ScanInv, Unread, ScannedDir
  <1>2. CASE ~ThreadStep(t)
    BY <1>2, OtherThread DEF Unread
  <1>3. CASE OpenDirectory(t)
    <2>1. /\ pc'[t] = "scan" /\ folder'[t] = f /\ index'[t] = index[t]
          /\ todo'[t] = files[ScannedDir(t)]
      BY <1>1, <1>3 DEF OpenDirectory, call
    <2> QED
      BY <1>1, <2>1 DEF Unread, Exploring
  <1>4. CASE AddChild(t)
    BY <1>1, <1>4 DEF AddChild, call, Unread, Exploring
  <1>5. ASSUME NEW m \in Names, SkipRemoved(t, m)
        PROVE  Unread(t, f, i, n)'
    <2>1. /\ pc'[t] = pc[t] /\ folder'[t] = f /\ index'[t] = index[t]
          /\ todo'[t] = todo[t] \ {m} /\ m \notin files[ScannedDir(t)]
      BY <1>1, <1>5 DEF SkipRemoved, call
    <2> QED
      BY <1>1, <2>1 DEF Unread
  <1>6. ASSUME NEW m \in Names, AddReadEntry(t, m)
        PROVE  \/ Unread(t, f, i, n)'
               \/ Noted(f, FolderVec(f)[i], n)' /\ Settled(f, i, n)'
    <2>1. /\ pc[t] = "scan" /\ pc'[t] = "child" /\ folder'[t] = f
          /\ index'[t] = index[t]
          /\ todo'[t] = todo[t] \ {m} /\ entry'[t] = m
          /\ read_mappings'[f][m] = ScannedDir(t)
      BY <1>1, <1>6 DEF AddReadEntry, call
    <2>2. CASE index[t] < i \/ m # n
      BY <1>1, <2>1, <2>2 DEF Unread, Exploring
    <2>3. CASE index[t] = i /\ m = n
      <3>1. Noted(f, FolderVec(f)[i], n)'
        BY <2>1, <2>3 DEF Noted
      <3>2. i <= Position(f, ScannedDir(t))
        BY <1>1, <2>3, PositionIs
      <3>3. Settled(f, i, n)'
        BY <2>1, <2>3, <3>2 DEF Settled
      <3> QED
        BY <3>1, <3>3
    <2> QED
      BY <2>2, <2>3 DEF Unread
  <1>7. CASE CloseDirectory(t)
    <2>1. pc[t] = "scan" /\ todo[t] = {} /\ folder'[t] = f
      BY <1>1, <1>7 DEF CloseDirectory, call
    <2>2. index[t] < i
      BY <2>1 DEF Unread
    <2>3. index[t] < N
      BY <1>1, <2>2
    <2>4. index'[t] = index[t] + 1 /\ pc'[t] = "open"
      BY <1>1, <1>7, <2>3 DEF CloseDirectory
    <2>5. index'[t] < i \/ index'[t] = i
      BY <1>1, <2>2, <2>4
    <2> QED
      BY <2>1, <2>4, <2>5 DEF Unread, Exploring
  <1>8. CASE ThreadStep(t) /\ ~OpenDirectory(t) /\ ~AddChild(t)
             /\ ~CloseDirectory(t)
             /\ \A m \in Names : ~SkipRemoved(t, m) /\ ~AddReadEntry(t, m)
    BY <1>1, <1>8
       DEF ThreadStep, Progress, Call, Gate, FindMapping, CheckFolder,
           SnapshotFolder, LockProcessing, FindAgain, FolderLookup, LockWrite,
           AddWrittenChild, DeleteFile, SyscallCreates, SyscallDeletes,
           SyscallLeaves, Finish, Exploring
  <1> QED
    BY <1>2, <1>3, <1>4, <1>5, <1>6, <1>7, <1>8

LEMMA NewFileStep ==
    ASSUME NothingDeleted, StructInv, CreationInv, [Next]_vars,
           NEW d \in Dirs, NEW n \in files'[d], n \notin files[d]
    PROVE  Announced(d, n)'
  <1>1. PICK t \in Threads : Creates(t)
    BY CreationShape
  <1>2. d = result[t] /\ n = name[t]
    BY <1>1 DEF Creates, StructInv, TypeOK
  <1> DEFINE e == [op |-> "R", dir |-> d, name |-> n]
  <1>3. e \in Events /\ events' = Append(events, e)
    BY <1>1, <1>2 DEF Creates, Events, StructInv, TypeOK
  <1> QED
    BY <1>3, AnnouncedAppend

LEMMA ListTopStep ==
    ASSUME NothingDeleted, StructInv, CreationInv, OrderInv, [Next]_vars,
           pc'[Listener] = "list"
    PROVE  LET e == Head(events)' IN
           read_mappings'[ReverseFolder[e.dir]][e.name]
              = WriteDir[ReverseFolder[e.dir]]
  <1> USE DEF StructInv, TypeOK, Processes, Goto
  <1>1. \/ MapEvent
        \/ pc[Listener] = "list" /\ ~ListenerStep
    <2>1. CASE ListenerStep
      BY <2>1 DEF ListenerStep, TakeEvent, ListEvent, EraseEvent, EventDone
    <2>2. ASSUME NEW t \in Threads, ThreadStep(t)
          PROVE  pc'[Listener] = pc[Listener]
      BY <2>2, OwnersDiffer
         DEF ThreadStep, Progress, Call, Gate, FindMapping, CheckFolder,
             SnapshotFolder, LockProcessing, OpenDirectory, AddReadEntry,
             SkipRemoved, AddChild, CloseDirectory, FindAgain, FolderLookup,
             LockWrite, AddWrittenChild, DeleteFile, SyscallCreates,
             SyscallDeletes, SyscallLeaves, Finish, Return
    <2>3. ASSUME ExternalStep \/ UNCHANGED vars
          PROVE  pc' = pc
      BY <2>3 DEF ExternalStep, ExternalCreate, ExternalDelete, vars
    <2> QED
      BY <2>1, <2>2, <2>3 DEF Next
  <1>2. events # << >> /\ Head(events).dir \in Dirs /\ Head(events).name \in Names
        /\ ReverseFolder[Head(events).dir] \in Folders
    BY <1>1, HeadType DEF MapEvent
  <1>3. Head(events).dir = WriteDir[ReverseFolder[Head(events).dir]]
    BY <1>2, HeadEvent
  <1>4. CASE MapEvent
    BY <1>2, <1>3, <1>4 DEF MapEvent, disk
  <1>5. CASE pc[Listener] = "list" /\ ~ListenerStep
    <2>1. Head(events') = Head(events)
      <3>1. ~ListEvent
        BY <1>5 DEF ListenerStep
      <3>2. ASSUME NEW t \in Threads, Creates(t)
            PROVE  Head(events') = Head(events)
        <4>1. PICK e \in Events : events' = Append(events, e)
          BY <3>2 DEF Creates, Events
        <4> QED
          BY <1>2, <4>1
      <3> QED
        BY <3>1, <3>2, CreationShape
    <2>2. ASSUME NEW t \in Threads, NEW m \in Names, AddReadEntry(t, m)
          PROVE  FALSE
      BY <1>5, <2>2, OwnersDiffer DEF AddReadEntry, LockInv, Exploring
    <2> DEFINE f == ReverseFolder[Head(events).dir]
               n == Head(events).name
    <2>3. read_mappings[f][n] = WriteDir[f]
      BY <1>5 DEF OrderInv
    <2>4. read_mappings'[f][n] = WriteDir[f]
      <3>1. ~MapEvent
        BY <1>5 DEF ListenerStep
      <3>2. CASE UNCHANGED read_mappings
        BY <2>3, <3>2
      <3>3. ASSUME NEW t \in Threads,
                   read_mappings' = [read_mappings EXCEPT
                      ![folder[t]][name[t]] = WriteDir[folder[t]]]
            PROVE  read_mappings'[f][n] = WriteDir[f]
        BY <1>2, <2>3, <3>3
      <3> QED
        BY <2>2, <3>1, <3>2, <3>3, MappingShape
    <2> QED
      BY <2>1, <2>4
  <1> QED
    BY <1>1, <1>4, <1>5

LEMMA OrderStep ==
    ASSUME NothingDeleted, StructInv, CreationInv, OrderInv, [Next]_vars
    PROVE  OrderInv'
  <1>1. ASSUME NEW f \in Folders, Begun(f)',
               NEW i \in 1..Len(FolderVec(f)), NEW n \in files'[FolderVec(f)[i]]
        PROVE  \/ Noted(f, FolderVec(f)[i], n)' /\ Settled(f, i, n)'
               \/ \E t \in Threads : Unread(t, f, i, n)'
    <2> DEFINE d == FolderVec(f)[i]
    <2>1. d \in Dirs /\ ReverseFolder[d] = f
      BY FolderVecType
    <2>2. CASE n \notin files[d]
      <3>1. Announced(d, n)'
        BY <2>1, <2>2, NewFileStep
      <3> QED
        BY <3>1 DEF Noted, Settled
    <2>3. CASE \E t \in Threads :
                  pc'[t] = "open" /\ folder'[t] = f /\ index'[t] = 1
      <3>1. 1 < i \/ 1 = i
        OBVIOUS
      <3> QED
        BY <2>3, <3>1 DEF Unread, Exploring
    <2>4. CASE n \in files[d] /\ Begun(f)
      <3>1. n \in Names
        BY <2>1, <2>4 DEF StructInv, TypeOK
      <3>2. CASE Noted(f, d, n) /\ Settled(f, i, n)
        BY <2>1, <3>1, <3>2, NotedStep, SettledStep
      <3>3. CASE \E t \in Threads : Unread(t, f, i, n)
        BY <2>4, <3>3, UnreadStep
      <3> QED
        BY <2>4, <3>2, <3>3 DEF OrderInv
    <2> QED
      BY <1>1, <2>2, <2>3, <2>4, BegunStep
  <1>2. pc'[Listener] = "list" =>
           LET e == Head(events)' IN
           read_mappings'[ReverseFolder[e.dir]][e.name]
              = WriteDir[ReverseFolder[e.dir]]
    BY ListTopStep
  <1> QED
    BY <1>1, <1>2 DEF OrderInv

LEMMA OrderInvariant ==
    ASSUME NothingDeleted
    PROVE  Spec => []OrderInv
  <1>1. Init => OrderInv
    BY OwnersDiffer DEF Init, OrderInv, Begun, Exploring, Processes
  <1>2. StructInv /\ CreationInv /\ OrderInv /\ [Next]_vars => OrderInv'
    BY OrderStep
  <1> QED
    BY <1>1, <1>2, StructTheorem, CreationInvariant, PTL DEF Spec

\* What the invariant says of an explored folder when no scan is under way.
LEMMA OrderQuiet ==
    ASSUME StructInv, OrderInv, Quiet, NEW f \in Folders, explored[f],
           NEW i \in 1..Len(FolderVec(f)), NEW n \in files[FolderVec(f)[i]]
    PROVE  /\ n \in children[f] \/ Announced(FolderVec(f)[i], n)
           /\ Settled(f, i, n)
  <1>1. \A t \in Threads : pc[t] \notin Exploring
    BY OwnersDiffer DEF StructInv, LockInv, Quiet, Free
  <1>2. Noted(f, FolderVec(f)[i], n) /\ Settled(f, i, n)
    BY <1>1 DEF OrderInv, Begun, Unread
  <1> QED
    BY <1>1, <1>2 DEF Noted, Exploring

\* An explored folder lists every file of its directories, or the event that
\* lists it is in the queue (_add_read_entry and listener_cb), whatever threads
\* explore and create at the same time.
THEOREM ListedTheorem ==
    ASSUME NothingDeleted
    PROVE  Spec => []Listed
  <1>1. StructInv /\ OrderInv => Listed
    <2> SUFFICES ASSUME StructInv, OrderInv, Quiet, NEW f \in Folders,
                        explored[f], NEW d \in RangeOf(FolderVec(f)),
                        NEW n \in files[d]
                 PROVE  n \in children[f] \/ Announced(d, n)
      BY DEF Listed
    <2>1. PICK i \in 1..Len(FolderVec(f)) : FolderVec(f)[i] = d
      BY DEF RangeOf
    <2> QED
      BY <2>1, OrderQuiet
  <1> QED
    BY <1>1, OrderInvariant, StructTheorem, PTL

\* No mapping names a directory below one that holds the file (README: "in that
\* order"), although a second scan of the folder starts from its lowest directory
\* again, and creations and events replace mappings meanwhile.
THEOREM LoadOrderTheorem ==
    ASSUME NothingDeleted
    PROVE  Spec => []LoadOrder
  <1>1. StructInv /\ OrderInv => LoadOrder
    <2> SUFFICES ASSUME StructInv, OrderInv, Quiet, NEW f \in Folders,
                        explored[f], NEW d \in RangeOf(FolderVec(f)),
                        NEW n \in files[d]
                 PROVE  \/ read_mappings[f][n] = NoDir
                        \/ Position(f, d) <= Position(f, read_mappings[f][n])
                        \/ Announced(d, n)
      BY DEF LoadOrder
    <2>1. PICK j \in 1..Len(FolderVec(f)) : FolderVec(f)[j] = d
      BY DEF RangeOf
    <2>2. PICK i \in 1..Len(FolderVec(f)) :
              i = Position(f, d) /\ FolderVec(f)[i] = d
      BY <2>1, PositionIs
    <2>3. Settled(f, i, n)
      BY <2>2, OrderQuiet
    <2> QED
      BY <2>2, <2>3 DEF Settled, Mapped
  <1> QED
    BY <1>1, OrderInvariant, StructTheorem, PTL
=============================================================================
