---------------------------- MODULE VfsExactProofs ----------------------------
(***************************************************************************)
(* Theorems about VfsLookup when the calls of the program succeed, for any *)
(* folders, directories, names and load orders: no folder at rest lists a  *)
(* file that is gone, whatever other processes create and delete while     *)
(* folders are explored; and every call is redirected to the highest       *)
(* directory that holds its file, when the program has one thread.  With   *)
(* two that is false: an exploration sets explored after the first         *)
(* directory (vfs.cpp:523).                                                *)
(***************************************************************************)
EXTENDS VfsLookupProofs

\* A call that the program makes fails only where it must: creating a file
\* that is there, deleting one that is not.
CallsSucceed == "fail" \notin Outcomes

OneThread == \A t, u \in Threads : t = u

-----------------------------------------------------------------------------
(* What a folder lists: the invariant *)

Removal(d, n) == [op |-> "D", dir |-> d, name |-> n]

\* n is in d, or an event from the k-th in the queue on tells that it went.
Present(d, n, k) ==
    n \in files[d] \/ \E i \in k..Len(events) : events[i] = Removal(d, n)

\* t is about to create n in the write directory of f.
Creating(t, f, n) ==
    /\ pc[t] = "syscall" /\ intent[t] = "Create"
    /\ folder[t] = f /\ name[t] = n
    /\ result[t] = WriteDir[f] /\ result[t] # NoDir

\* Every name a folder lists, an event adds or a scan has read is the name of
\* a file that is there, that is about to be created, or that a removal still
\* in the queue, behind the event that adds it, will take from the listing.
ListedPresent ==
    \A f \in Folders : \A n \in children[f] :
        \/ \E d \in Dirs : ReverseFolder[d] = f /\ Present(d, n, 1)
        \/ \E t \in Threads : Creating(t, f, n)

QueuedPresent ==
    \A i \in 1..Len(events) : events[i].op = "R" =>
        Present(events[i].dir, events[i].name, i + 1)

ScannedPresent ==
    \A t \in Threads :
        /\ pc[t] \in {"scan", "child"} =>
              \A n \in todo[t] : Present(ScannedDir(t), n, 1)
        /\ pc[t] = "child" => Present(ScannedDir(t), entry[t], 1)

\* Only a creation gets as far as the write mapping.
CreationPath ==
    \A t \in Threads :
        /\ pc[t] \in {"lockwrite", "wchild"} => intent[t] = "Create"
        /\ pc[t] = "wchild" => WriteDir[folder[t]] # NoDir

PhantomInv ==
    ListedPresent /\ QueuedPresent /\ ScannedPresent /\ CreationPath

-----------------------------------------------------------------------------
(* How a step moves the queue under what is present *)

\* An event is queued: what was present still is, the file that vanished by
\* the removal that is now in the queue.
LEMMA PresentAppend ==
    ASSUME StructInv, NEW c \in Dirs, NEW m \in Names,
           FileAppears(c, m) \/ FileVanishes(c, m),
           NEW d \in Dirs, NEW n \in Names, NEW k \in 1..Len(events) + 1,
           Present(d, n, k)
    PROVE  Present(d, n, k)'
  <1> USE DEF StructInv, TypeOK
  <1>1. PICK e \in Events :
           /\ events' = Append(events, e)
           /\ n \in files[d] => n \in files'[d] \/ e = Removal(d, n)
    <2>1. CASE FileAppears(c, m)
      <3> DEFINE e == [op |-> "R", dir |-> c, name |-> m]
      <3>1. e \in Events /\ events' = Append(events, e)
        BY <2>1 DEF FileAppears, Notify, Events
      <3>2. n \in files[d] => n \in files'[d]
        BY <2>1 DEF FileAppears
      <3> QED
        BY <3>1, <3>2
    <2>2. CASE FileVanishes(c, m)
      <3>1. Removal(c, m) \in Events /\ events' = Append(events, Removal(c, m))
        BY <2>2 DEF FileVanishes, Notify, Events, Removal
      <3>2. n \in files[d] => n \in files'[d] \/ (c = d /\ m = n)
        BY <2>2 DEF FileVanishes
      <3> QED
        BY <3>1, <3>2
    <2> QED
      BY <2>1, <2>2
  <1>2. /\ Len(events') = Len(events) + 1
        /\ events'[Len(events) + 1] = e
        /\ \A i \in 1..Len(events) : events'[i] = events[i]
    BY <1>1
  <1>3. ASSUME NEW i \in k..Len(events), events[i] = Removal(d, n)
        PROVE  Present(d, n, k)'
    <2>1. i \in k..Len(events') /\ events'[i] = Removal(d, n)
      BY <1>2, <1>3
    <2> QED
      BY <2>1 DEF Present, Removal
  <1>4. ASSUME e = Removal(d, n)
        PROVE  Present(d, n, k)'
    <2>1. /\ Len(events) + 1 \in k..Len(events')
          /\ events'[Len(events) + 1] = Removal(d, n)
      BY <1>2, <1>4
    <2> QED
      BY <2>1 DEF Present, Removal
  <1>5. n \in files'[d] => Present(d, n, k)'
    BY DEF Present
  <1> QED
    BY <1>1, <1>3, <1>4, <1>5 DEF Present

\* The event at the head is done.
LEMMA PresentTail ==
    ASSUME StructInv, UNCHANGED files, events # << >>, events' = Tail(events),
           NEW d, NEW n, NEW k \in Nat \ {0}, Present(d, n, k + 1)
    PROVE  Present(d, n, k)'
  <1>1. events \in Seq(Events)
    BY DEF StructInv, TypeOK
  <1>2. ASSUME NEW i \in k + 1..Len(events), events[i] = Removal(d, n)
        PROVE  Present(d, n, k)'
    <2>1. i - 1 \in k..Len(events') /\ events'[i - 1] = Removal(d, n)
      BY <1>1, <1>2
    <2> QED
      BY <2>1 DEF Present, Removal
  <1>3. n \in files[d] => Present(d, n, k)'
    BY DEF Present
  <1> QED
    BY <1>2, <1>3 DEF Present

\* Unless it is its own removal that is done, what is present stays so.
LEMMA PresentHead ==
    ASSUME StructInv, NEW d, NEW n, Present(d, n, 1), events # << >>
    PROVE  Present(d, n, 2) \/ Head(events) = Removal(d, n)
  <1>1. events \in Seq(Events) /\ Head(events) = events[1]
    BY DEF StructInv, TypeOK
  <1>2. ASSUME NEW i \in 1..Len(events), events[i] = Removal(d, n)
        PROVE  Present(d, n, 2) \/ Head(events) = Removal(d, n)
    <2>1. CASE i = 1
      BY <1>1, <1>2, <2>1
    <2>2. CASE i # 1
      <3>1. i \in 2..Len(events)
        BY <1>1, <2>2
      <3> QED
        BY <1>2, <3>1 DEF Present
    <2> QED
      BY <2>1, <2>2
  <1> QED
    BY <1>2 DEF Present

LEMMA PresentKept ==
    ASSUME StructInv, [Next]_vars, ~ListEvent, ~EraseEvent,
           NEW d \in Dirs, NEW n \in Names, NEW k \in 1..Len(events) + 1,
           Present(d, n, k)
    PROVE  Present(d, n, k)'
  <1>1. CASE UNCHANGED files /\ UNCHANGED events
    BY <1>1 DEF Present
  <1> QED
    BY <1>1, DiskShape, PresentAppend

-----------------------------------------------------------------------------
(* Every step preserves the invariant *)

LEMMA QueuedStep ==
    ASSUME StructInv, QueuedPresent, [Next]_vars
    PROVE  QueuedPresent'
  <1> USE DEF StructInv, TypeOK
  <1>0. events \in Seq(Events) /\ Len(events) \in Nat
    OBVIOUS
  <1>1. ASSUME NEW i \in 1..Len(events)
        PROVE  events[i].dir \in Dirs /\ events[i].name \in Names
    <2>1. events[i] \in Events
      BY <1>0
    <2> QED
      BY <2>1 DEF Events
  <1>2. CASE UNCHANGED files /\ UNCHANGED events
    BY <1>2 DEF QueuedPresent, Present
  <1>3. ASSUME NEW c \in Dirs, NEW m \in Names,
               FileAppears(c, m) \/ FileVanishes(c, m)
        PROVE  QueuedPresent'
    <2>1. PICK e \in Events :
             /\ events' = Append(events, e)
             /\ e.op = "R" => e.name \in files'[e.dir]
      <3>1. CASE FileAppears(c, m)
        <4> DEFINE e == [op |-> "R", dir |-> c, name |-> m]
        <4>1. e \in Events /\ events' = Append(events, e)
          BY <3>1 DEF FileAppears, Notify, Events
        <4>2. m \in files'[c]
          BY <3>1 DEF FileAppears
        <4> QED
          BY <4>1, <4>2
      <3>2. CASE FileVanishes(c, m)
        <4> DEFINE e == [op |-> "D", dir |-> c, name |-> m]
        <4>1. e \in Events /\ events' = Append(events, e)
          BY <3>2 DEF FileVanishes, Notify, Events
        <4> QED
          BY <4>1
      <3> QED
        BY <1>3, <3>1, <3>2
    <2>2. /\ Len(events') = Len(events) + 1
          /\ events'[Len(events) + 1] = e
          /\ \A i \in 1..Len(events) : events'[i] = events[i]
      BY <1>0, <2>1
    <2>3. ASSUME NEW i \in 1..Len(events'), events'[i].op = "R"
          PROVE  Present(events[i].dir, events[i].name, i + 1)'
      <3>1. CASE i = Len(events) + 1
        BY <2>1, <2>2, <2>3, <3>1 DEF Present
      <3>2. CASE i \in 1..Len(events)
        <4>1. PICK d \in Dirs, n \in Names :
                 d = events[i].dir /\ n = events[i].name
          BY <1>1, <3>2
        <4>2. i + 1 \in 1..Len(events) + 1
          BY <1>0, <3>2
        <4>3. Present(d, n, i + 1)
          BY <2>2, <2>3, <3>2, <4>1 DEF QueuedPresent
        <4>4. Present(d, n, i + 1)'
          BY <1>3, <4>2, <4>3, PresentAppend
        <4> QED
          BY <2>2, <3>2, <4>1, <4>4 DEF Present
      <3> QED
        BY <1>0, <2>2, <3>1, <3>2
    <2> QED
      BY <2>3 DEF QueuedPresent
  <1>4. CASE UNCHANGED files /\ (ListEvent \/ EraseEvent)
    <2>1. events # << >> /\ events' = Tail(events)
      BY <1>4, HeadType DEF ListEvent, EraseEvent, EventDone
    <2>2. ASSUME NEW i \in 1..Len(events'), events'[i].op = "R"
          PROVE  Present(events[i].dir, events[i].name, i + 1)'
      <3>1. /\ i + 1 \in 1..Len(events) /\ i + 1 \in Nat \ {0}
            /\ events'[i] = events[i + 1]
        BY <1>0, <2>1
      <3>2. PICK d, n : d = events[i + 1].dir /\ n = events[i + 1].name
        OBVIOUS
      <3>3. Present(d, n, (i + 1) + 1)
        BY <2>2, <3>1, <3>2 DEF QueuedPresent
      <3>4. Present(d, n, i + 1)'
        BY <1>4, <2>1, <3>1, <3>3, PresentTail
      <3> QED
        BY <3>1, <3>2, <3>4 DEF Present
    <2> QED
      BY <2>2 DEF QueuedPresent
  <1> QED
    BY <1>2, <1>3, <1>4, DiskShape

LEMMA ScannedStep ==
    ASSUME StructInv, ScannedPresent, [Next]_vars
    PROVE  ScannedPresent'
  <1> USE DEF StructInv, TypeOK, Processes, Goto
  <1> SUFFICES ASSUME NEW u \in Threads, pc'[u] \in {"scan", "child"}
               PROVE  /\ \A n \in todo'[u] : Present(ScannedDir(u), n, 1)'
                      /\ pc'[u] = "child" => Present(ScannedDir(u), entry[u], 1)'
    BY DEF ScannedPresent
  <1>1. /\ ScannedDir(u)' = ScannedDir(u)
        /\ \A n \in todo'[u] :
              \/ n \in todo[u] /\ pc[u] \in {"scan", "child"}
              \/ n \in files'[ScannedDir(u)]
        /\ pc'[u] = "child" =>
              \/ entry'[u] = entry[u] /\ pc[u] = "child"
              \/ entry'[u] \in todo[u] /\ pc[u] = "scan"
    <2>1. CASE ~ThreadStep(u)
      BY <2>1, OtherThread DEF ScannedDir
    <2>2. CASE OpenDirectory(u)
      BY <2>2 DEF OpenDirectory, disk, call, ScannedDir
    <2>3. CASE AddChild(u)
      BY <2>3 DEF AddChild, disk, call, ScannedDir
    <2>4. ASSUME NEW m \in Names, AddReadEntry(u, m)
          PROVE  /\ ScannedDir(u)' = ScannedDir(u)
                 /\ todo'[u] \subseteq todo[u] /\ pc[u] = "scan"
                 /\ entry'[u] \in todo[u]
      BY <2>4 DEF AddReadEntry, call, ScannedDir
    <2>5. ASSUME NEW m \in Names, SkipRemoved(u, m)
          PROVE  /\ ScannedDir(u)' = ScannedDir(u)
                 /\ todo'[u] \subseteq todo[u] /\ pc[u] = "scan"
                 /\ pc'[u] = "scan"
      BY <2>5 DEF SkipRemoved, call, ScannedDir
    <2> QED
      BY <2>1, <2>2, <2>3, <2>4, <2>5, ScanMove
  <1>2. ScannedDir(u) \in Dirs
    BY ScannedDirType
  <1>3. processing' # Listener
    <2>1. pc'[u] \in Exploring
      BY DEF Exploring
    <2>2. processing' = u
      BY <2>1, StructStep DEF LockInv
    <2> QED
      BY <2>2, OwnersDiffer
  <1>4. pc[u] \in {"scan", "child"} => ~ListEvent /\ ~EraseEvent
    <2>1. pc[u] \in {"scan", "child"} => processing = u
      BY DEF LockInv, Exploring
    <2>2. ListEvent \/ EraseEvent => processing = Listener
      BY DEF LockInv, ListEvent, EraseEvent
    <2> QED
      BY <2>1, <2>2, OwnersDiffer
  <1>5. ASSUME NEW n \in Names, pc[u] \in {"scan", "child"},
               Present(ScannedDir(u), n, 1)
        PROVE  Present(ScannedDir(u), n, 1)'
    <2>1. PICK d \in Dirs : d = ScannedDir(u) /\ d = ScannedDir(u)'
      BY <1>1, <1>2
    <2>2. 1 \in 1..Len(events) + 1
      OBVIOUS
    <2>3. Present(d, n, 1)'
      BY <1>4, <1>5, <2>1, <2>2, PresentKept
    <2> QED
      BY <2>1, <2>3 DEF Present
  <1>6. ASSUME NEW n \in todo'[u]
        PROVE  Present(ScannedDir(u), n, 1)'
    <2>1. n \in Names
      BY StructStep
    <2>2. CASE n \in todo[u] /\ pc[u] \in {"scan", "child"}
      BY <1>5, <2>1, <2>2 DEF ScannedPresent
    <2>3. CASE n \in files'[ScannedDir(u)]
      BY <1>1, <2>3 DEF Present
    <2> QED
      BY <1>1, <2>2, <2>3
  <1>7. ASSUME pc'[u] = "child"
        PROVE  Present(ScannedDir(u), entry[u], 1)'
    <2>1. PICK n \in Names : n = entry'[u]
      BY StructStep
    <2>2. pc[u] \in {"scan", "child"} /\ Present(ScannedDir(u), n, 1)
      BY <1>1, <1>7, <2>1 DEF ScannedPresent
    <2>3. Present(ScannedDir(u), n, 1)'
      BY <1>5, <2>2
    <2> QED
      BY <2>1, <2>3 DEF Present
  <1> QED
    BY <1>6, <1>7

LEMMA CreationPathStep ==
    ASSUME StructInv, CreationPath, [Next]_vars
    PROVE  CreationPath'
  <1> USE DEF StructInv, TypeOK, Processes, Goto, CreationPath
  <1> SUFFICES ASSUME NEW u \in Threads
               PROVE  /\ pc'[u] \in {"lockwrite", "wchild"} =>
                            intent'[u] = "Create"
                      /\ pc'[u] = "wchild" => WriteDir[folder'[u]] # NoDir
    OBVIOUS
  <1>1. CASE ~ThreadStep(u)
    BY <1>1, OtherThread
  <1>2. CASE FolderLookup(u)
    BY <1>2 DEF FolderLookup, Return, call
  <1>3. CASE LockWrite(u)
    BY <1>3 DEF LockWrite, Return, call
  <1>4. CASE ThreadStep(u) /\ ~FolderLookup(u) /\ ~LockWrite(u)
    BY <1>4
       DEF ThreadStep, Progress, Call, Gate, FindMapping, CheckFolder,
           SnapshotFolder, LockProcessing, OpenDirectory, AddReadEntry,
           SkipRemoved, AddChild, CloseDirectory, FindAgain, AddWrittenChild,
           DeleteFile, SyscallCreates, SyscallDeletes, SyscallLeaves, Finish,
           Return
  <1> QED
    BY <1>1, <1>2, <1>3, <1>4

\* A creation ends with the file in its write directory.
LEMMA CreatingStep ==
    ASSUME CallsSucceed, StructInv, [Next]_vars, NEW t \in Threads,
           NEW f \in Folders, NEW n \in Names, Creating(t, f, n)
    PROVE  \/ Creating(t, f, n)'
           \/ \E d \in Dirs : ReverseFolder[d] = f /\ Present(d, n, 1)'
  <1> USE DEF StructInv, TypeOK, Processes, Goto
  <1>1. /\ pc[t] = "syscall" /\ intent[t] = "Create"
        /\ folder[t] = f /\ name[t] = n
        /\ result[t] = WriteDir[f] /\ result[t] # NoDir
    BY DEF Creating
  <1>2. WriteDir[f] \in Dirs /\ ReverseFolder[WriteDir[f]] = f
    BY <1>1, WriteDirOnTop
  <1>3. CASE ~ThreadStep(t)
    BY <1>1, <1>3, OtherThread DEF Creating
  <1>4. CASE SyscallCreates(t)
    <2>1. FileAppears(WriteDir[f], n)
      BY <1>1, <1>4 DEF SyscallCreates
    <2>2. n \in files'[WriteDir[f]]
      BY <1>2, <2>1 DEF FileAppears
    <2> QED
      BY <1>2, <2>2 DEF Present
  <1>5. CASE SyscallLeaves(t)
    <2>1. n \in files[WriteDir[f]] /\ UNCHANGED files
      BY <1>1, <1>5 DEF SyscallLeaves, NothingHappens, CallsSucceed, disk
    <2> QED
      BY <1>2, <2>1 DEF Present
  <1>6. ASSUME ThreadStep(t), ~SyscallCreates(t), ~SyscallLeaves(t)
        PROVE  FALSE
    BY <1>1, <1>6
       DEF ThreadStep, Progress, Call, Gate, FindMapping, CheckFolder,
           SnapshotFolder, LockProcessing, OpenDirectory, AddReadEntry,
           SkipRemoved, AddChild, CloseDirectory, FindAgain, FolderLookup,
           LockWrite, AddWrittenChild, DeleteFile, SyscallDeletes
  <1> QED
    BY <1>3, <1>4, <1>5, <1>6

LEMMA ListedStep ==
    ASSUME CallsSucceed, StructInv, PhantomInv, [Next]_vars
    PROVE  ListedPresent'
  <1> USE DEF StructInv, TypeOK, Processes, Goto
  <1> SUFFICES ASSUME NEW f \in Folders, NEW n \in children'[f]
               PROVE  \/ \E d \in Dirs :
                            ReverseFolder[d] = f /\ Present(d, n, 1)'
                      \/ \E t \in Threads : Creating(t, f, n)'
    BY DEF ListedPresent
  <1>0. n \in Names /\ 1 \in 1..Len(events) + 1
    BY StructStep
  <1>1. CASE n \in children[f]
    <2>1. ASSUME NEW t \in Threads, Creating(t, f, n)
          PROVE  \/ Creating(t, f, n)'
                 \/ \E d \in Dirs : ReverseFolder[d] = f /\ Present(d, n, 1)'
      BY <1>0, <2>1, CreatingStep
    <2>2. ASSUME NEW d \in Dirs, ReverseFolder[d] = f, Present(d, n, 1)
          PROVE  Present(d, n, 1)'
      <3>1. CASE ~ListEvent /\ ~EraseEvent
        BY <1>0, <2>2, <3>1, PresentKept
      <3>2. CASE ListEvent \/ EraseEvent
        <4>1. /\ events # << >> /\ events' = Tail(events)
              /\ UNCHANGED files /\ Head(events).dir \in Dirs
              /\ ReverseFolder[Head(events).dir] \in Folders
          BY <3>2, HeadType DEF ListEvent, EraseEvent, EventDone
        <4>2. Head(events) # Removal(d, n)
          <5>1. SUFFICES ASSUME Head(events) = Removal(d, n) PROVE FALSE
            OBVIOUS
          <5>2. /\ Head(events).op = "D" /\ Head(events).dir = d
                /\ Head(events).name = n
            BY <5>1 DEF Removal
          <5>3. EraseEvent
            BY <3>2, <5>2 DEF ListEvent, ListenerInv
          <5>4. n \notin children'[f]
            BY <2>2, <5>2, <5>3 DEF EraseEvent
          <5> QED
            BY <5>4
        <4>3. Present(d, n, 1 + 1)
          BY <2>2, <4>1, <4>2, PresentHead
        <4> QED
          BY <4>1, <4>3, PresentTail
      <3> QED
        BY <3>1, <3>2
    <2> QED
      BY <1>1, <2>1, <2>2 DEF PhantomInv, ListedPresent
  <1>2. ASSUME NEW t \in Threads, AddChild(t), n \notin children[f]
        PROVE  \E d \in Dirs : ReverseFolder[d] = f /\ Present(d, n, 1)'
    <2>1. /\ pc[t] = "child" /\ f = folder[t] /\ n = entry[t]
          /\ UNCHANGED <<files, events>>
      BY <1>2 DEF AddChild, disk
    <2>2. Present(ScannedDir(t), n, 1)
      BY <2>1 DEF PhantomInv, ScannedPresent
    <2>3. PICK d \in Dirs : d = ScannedDir(t) /\ ReverseFolder[d] = f
      BY <2>1, ScannedDirType
    <2> QED
      BY <2>1, <2>2, <2>3 DEF Present
  <1>3. ASSUME NEW t \in Threads, AddWrittenChild(t), n \notin children[f]
        PROVE  Creating(t, f, n)'
    <2>1. /\ pc[t] = "wchild" /\ f = folder[t] /\ n = name[t]
          /\ intent[t] = "Create" /\ WriteDir[f] # NoDir
      BY <1>3 DEF AddWrittenChild, PhantomInv, CreationPath
    <2>2. /\ pc'[t] = "syscall" /\ result'[t] = WriteDir[f]
          /\ UNCHANGED <<intent, folder, name>>
      BY <1>3, <2>1 DEF AddWrittenChild, Return, call
    <2> QED
      BY <2>1, <2>2 DEF Creating
  <1>4. ASSUME NEW t \in Threads, DeleteFile(t), n \notin children[f]
        PROVE  FALSE
    BY <1>4 DEF DeleteFile
  <1>5. ASSUME ListEvent, n \notin children[f]
        PROVE  \E d \in Dirs : ReverseFolder[d] = f /\ Present(d, n, 1)'
    <2>1. /\ events # << >> /\ Head(events).dir \in Dirs
          /\ ReverseFolder[Head(events).dir] \in Folders
          /\ events' = Tail(events) /\ UNCHANGED files
      BY <1>5, HeadType DEF ListEvent, EventDone
    <2>2. Head(events).op = "R"
      BY <1>5 DEF ListEvent, ListenerInv
    <2>3. /\ f = ReverseFolder[Head(events).dir]
          /\ n = Head(events).name
      BY <1>5, <2>1 DEF ListEvent
    <2>4. 1 \in 1..Len(events) /\ events[1] = Head(events)
      BY <2>1
    <2>5. PICK d \in Dirs : d = Head(events).dir
      BY <2>1
    <2>6. Present(d, n, 1 + 1)
      BY <2>2, <2>3, <2>4, <2>5 DEF PhantomInv, QueuedPresent
    <2>7. Present(d, n, 1)'
      BY <2>1, <2>6, PresentTail
    <2> QED
      BY <2>3, <2>5, <2>7
  <1>6. ASSUME EraseEvent, n \notin children[f]
        PROVE  FALSE
    BY <1>6 DEF EraseEvent
  <1> QED
    BY <1>1, <1>2, <1>3, <1>4, <1>5, <1>6, ChildrenShape

LEMMA PhantomInvariant ==
    ASSUME CallsSucceed
    PROVE  Spec => []PhantomInv
  <1>1. Init => PhantomInv
    BY DEF Init, PhantomInv, ListedPresent, QueuedPresent, ScannedPresent,
           CreationPath, Processes
  <1>2. StructInv /\ PhantomInv /\ [Next]_vars => PhantomInv'
    <2> SUFFICES ASSUME StructInv, PhantomInv, [Next]_vars PROVE PhantomInv'
      OBVIOUS
    <2>1. ListedPresent'
      BY ListedStep
    <2>2. QueuedPresent'
      BY QueuedStep DEF PhantomInv
    <2>3. ScannedPresent'
      BY ScannedStep DEF PhantomInv
    <2>4. CreationPath'
      BY CreationPathStep DEF PhantomInv
    <2> QED
      BY <2>1, <2>2, <2>3, <2>4 DEF PhantomInv
  <1> QED
    BY <1>1, <1>2, StructTheorem, PTL DEF Spec

\* At rest, no virtual folder lists a file that none of its directories holds,
\* whatever was created and deleted while it was being explored: the removal
\* of a file is behind its arrival in the queue, and no event is applied during
\* a scan (listener_cb, vfs.cpp:895, under the processing mutex).
THEOREM NoPhantomTheorem ==
    ASSUME CallsSucceed
    PROVE  Spec => []NoPhantom
  <1>1. StructInv /\ PhantomInv => NoPhantom
    <2> SUFFICES ASSUME StructInv, PhantomInv, AtRest,
                        NEW f \in Folders, NEW n \in children[f]
                 PROVE  \E d \in RangeOf(FolderVec(f)) : n \in files[d]
      BY DEF NoPhantom
    <2>1. events = << >> /\ \A t \in Threads : pc[t] = "idle"
      BY DEF AtRest, Processes
    <2>2. Len(events) = 0
      BY <2>1
    <2>3. PICK d \in Dirs : ReverseFolder[d] = f /\ Present(d, n, 1)
      BY <2>1 DEF PhantomInv, ListedPresent, Creating
    <2>4. n \in files[d]
      BY <2>2, <2>3 DEF Present
    <2> QED
      BY <2>3, <2>4, DirKnown
  <1> QED
    BY <1>1, PhantomInvariant, StructTheorem, PTL

-----------------------------------------------------------------------------
(* What a lookup answers: the invariant *)

\* A thread is about to create n below f, which is mapped already.
Making(f, n) ==
    \E t \in Threads :
        /\ folder[t] = f /\ name[t] = n
        /\ pc[t] = "wchild" \/ (pc[t] = "syscall" /\ intent[t] = "Create")

ExactMapping(f, n) ==
    \/ read_mappings[f][n] = Winner(f, n)
    \/ /\ Winner(f, n) = NoDir /\ read_mappings[f][n] = WriteDir[f]
       /\ Making(f, n)

\* The directories that hold n and whose entry for it the scan of t has read.
Scanned(t, n) ==
    {j \in Backers(folder[t], n) :
        j < index[t] \/ (j = index[t] /\ pc[t] # "open" /\ n \notin todo[t])}

\* The scan has left n mapped to the highest of them.
ScanExact(t, n) ==
    \/ Scanned(t, n) = {} /\ read_mappings[folder[t]][n] = NoDir
    \/ \E j \in Scanned(t, n) :
          /\ read_mappings[folder[t]][n] = FolderVec(folder[t])[j]
          /\ \A k \in Scanned(t, n) : k <= j

Busy(f) == \E t \in Threads : pc[t] \in Exploring /\ folder[t] = f

\* Mappings are exact in an explored folder, so far as the scan got in the one
\* that is being explored, and absent elsewhere.
MappingsExact ==
    /\ \A t \in Threads : pc[t] \in Exploring =>
          \A n \in Names : ScanExact(t, n)
    /\ \A f \in Folders : ~Busy(f) => \A n \in Names :
          /\ explored[f] => ExactMapping(f, n)
          /\ ~explored[f] => read_mappings[f][n] = NoDir

EventsExplored ==
    \A i \in 1..Len(events) : explored[ReverseFolder[events[i].dir]]

\* Past the lookup that missed, the folder is explored and no directory has
\* the file.
PathInv(t) ==
    /\ pc[t] \in {"wmap", "lock"} => ~explored[folder[t]]
    /\ pc[t] \in {"again", "folder", "lockwrite", "wchild"} =>
          explored[folder[t]]
    /\ (pc[t] = "check" /\ explored[folder[t]])
          \/ pc[t] \in {"folder", "lockwrite", "wchild"}
       => Winner(folder[t], name[t]) = NoDir
    /\ pc[t] \in {"lockwrite", "wchild"} => intent[t] = "Create"
    /\ pc[t] = "wchild" =>
          read_mappings[folder[t]][name[t]] = WriteDir[folder[t]]

AnswerInv(t) ==
    pc[t] = "syscall" =>
        /\ Winner(folder[t], name[t]) # NoDir =>
              result[t] = Winner(folder[t], name[t])
        /\ Winner(folder[t], name[t]) = NoDir /\ intent[t] = "Read" =>
              result[t] = NoDir
        /\ intent[t] = "Create" =>
              read_mappings[folder[t]][name[t]] = result[t]

ExactInv ==
    /\ MappingsExact /\ EventsExplored
    /\ \A t \in Threads : PathInv(t) /\ AnswerInv(t)

-----------------------------------------------------------------------------
(* The highest directory *)

LEMMA BackersType ==
    ASSUME NEW f \in Folders, NEW n
    PROVE  Backers(f, n) \subseteq 1..Len(FolderVec(f))
  BY DEF Backers

LEMMA GreatestIs ==
    ASSUME NEW S \in SUBSET Nat, NEW i \in S, \A j \in S : j <= i
    PROVE  (CHOOSE k \in S : \A j \in S : j <= k) = i
  <1> DEFINE P(k) == \A j \in S : j <= k
             c == CHOOSE k \in S : P(k)
  <1>1. c \in S /\ P(c)
    OBVIOUS
  <1>2. c <= i /\ i <= c
    BY <1>1
  <1>3. c = i
    <2> HIDE DEF c
    <2> QED
      BY <1>1, <1>2
  <1> QED
    BY <1>3

LEMMA WinnerIs ==
    ASSUME NEW f \in Folders, NEW n, NEW i \in Backers(f, n),
           \A j \in Backers(f, n) : j <= i
    PROVE  Winner(f, n) = FolderVec(f)[i]
  <1>1. Backers(f, n) \in SUBSET Nat
    BY FolderVecType, BackersType
  <1>2. (CHOOSE k \in Backers(f, n) : \A j \in Backers(f, n) : j <= k) = i
    BY <1>1, GreatestIs
  <1> QED
    BY <1>2 DEF Winner

LEMMA WinnerNone ==
    ASSUME NEW f \in Folders, NEW n
    PROVE  /\ Winner(f, n) = NoDir <=> Backers(f, n) = {}
           /\ Winner(f, n) # NoDir =>
                 Winner(f, n) \in Dirs /\ n \in files[Winner(f, n)]
  <1>1. CASE Backers(f, n) = {}
    BY <1>1 DEF Winner
  <1>2. CASE Backers(f, n) # {}
    <2> DEFINE S == Backers(f, n)
               N == Len(FolderVec(f))
    <2>1. S \in SUBSET (0..N) /\ S # {} /\ N \in Nat
      BY <1>2, FolderVecType, BackersType
    <2>2. \E j \in S : \A k \in S : k <= j
      <3> HIDE DEF S, N
      <3> QED
        BY <2>1, GreatestElement
    <2>3. PICK j \in S : \A k \in S : k <= j
      BY <2>2
    <2>4. Winner(f, n) = FolderVec(f)[j]
      BY <2>3, WinnerIs
    <2>5. FolderVec(f)[j] \in Dirs /\ n \in files[FolderVec(f)[j]]
      BY FolderVecType DEF Backers
    <2> QED
      BY <1>2, <2>4, <2>5, OwnersDiffer
  <1> QED
    BY <1>1, <1>2

\* The write directory is the last one scanned.
LEMMA WriteDirLast ==
    ASSUME NEW f \in Folders, WriteDir[f] # NoDir
    PROVE  FolderVec(f)[Len(FolderVec(f))] = WriteDir[f]
  <1>1. FolderPaths[f] \in Seq(Dirs) /\ WriteDir[f] \in Dirs
    BY FolderPathsType, WriteDirOnTop
  <1>2. FolderVec(f) = Append(FolderPaths[f], WriteDir[f])
    BY DEF FolderVec
  <1> QED
    BY <1>1, <1>2

LEMMA WriteDirWins ==
    ASSUME NEW f \in Folders, NEW n, WriteDir[f] # NoDir
    PROVE  /\ n \in files[WriteDir[f]] => Winner(f, n) = WriteDir[f]
           /\ n \in files'[WriteDir[f]] => Winner(f, n)' = WriteDir[f]
  <1> DEFINE N == Len(FolderVec(f))
  <1>1. N \in Nat \ {0} /\ FolderVec(f)[N] = WriteDir[f]
    BY FolderVecType, WriteDirLast
  <1> HIDE DEF N
  <1>2. ASSUME NEW S \in SUBSET (1..N), N \in S
        PROVE  (CHOOSE k \in S : \A j \in S : j <= k) = N
    <2>1. \A j \in S : j \in Nat /\ j <= N
      BY <1>1, <1>2
    <2>2. S \in SUBSET Nat
      BY <2>1
    <2> QED
      BY <1>2, <2>1, <2>2, GreatestIs
  <1>3. /\ Backers(f, n) \in SUBSET (1..N) /\ Backers(f, n)' \in SUBSET (1..N)
        /\ n \in files[WriteDir[f]] => N \in Backers(f, n)
        /\ n \in files'[WriteDir[f]] => N \in Backers(f, n)'
    BY <1>1 DEF Backers, N
  <1>4. ASSUME N \in Backers(f, n) PROVE Winner(f, n) = WriteDir[f]
    <2>1. (CHOOSE k \in Backers(f, n) : \A j \in Backers(f, n) : j <= k) = N
      BY <1>2, <1>3, <1>4
    <2> QED
      BY <1>1, <1>4, <2>1 DEF Winner
  <1>5. ASSUME N \in Backers(f, n)' PROVE Winner(f, n)' = WriteDir[f]
    <2> DEFINE S == Backers(f, n)'
    <2>1. (CHOOSE k \in S : \A j \in S : j <= k) = N
      <3>1. S \in SUBSET (1..N) /\ N \in S
        BY <1>3, <1>5
      <3> HIDE DEF S
      <3> QED
        BY <1>2, <3>1
    <2> QED
      BY <1>1, <1>5, <2>1 DEF Winner
  <1> QED
    BY <1>3, <1>4, <1>5

LEMMA WinnerSame ==
    ASSUME UNCHANGED files, NEW f, NEW n
    PROVE  Winner(f, n)' = Winner(f, n) /\ Backers(f, n)' = Backers(f, n)
  BY DEF Winner, Backers

\* The event being applied: a file of the write directory.
LEMMA HeadWins ==
    ASSUME StructInv, CreationInv, EventsExplored, pc[Listener] # "idle"
    PROVE  LET e == Head(events) IN
           /\ e.dir = WriteDir[ReverseFolder[e.dir]]
           /\ Winner(ReverseFolder[e.dir], e.name) = e.dir
           /\ e.dir # NoDir
           /\ explored[ReverseFolder[e.dir]]
  <1>1. /\ events # << >> /\ Head(events).dir \in Dirs
        /\ ReverseFolder[Head(events).dir] \in Folders
    BY HeadType
  <1>2. 1 \in 1..Len(events) /\ events[1] = Head(events)
    BY <1>1 DEF StructInv, TypeOK
  <1> QED
    BY <1>1, <1>2, HeadEvent, WriteDirWins, OwnersDiffer DEF EventsExplored

\* A step that leaves files, mappings and what is explored alone, outside
\* scans, leaves mappings exact, unless a creation that they wait for ends.
LEMMA QuietMappings ==
    ASSUME UNCHANGED <<files, read_mappings, explored>>, MappingsExact,
           \A t \in Threads : pc[t] \notin Exploring /\ pc'[t] \notin Exploring,
           \A f \in Folders, n \in Names :
              /\ Making(f, n) /\ Winner(f, n) = NoDir
              /\ read_mappings[f][n] # NoDir
              => Making(f, n)'
    PROVE  MappingsExact'
  <1> SUFFICES ASSUME NEW f \in Folders, NEW n \in Names
               PROVE  /\ explored[f] => ExactMapping(f, n)'
                      /\ ~explored[f] => read_mappings[f][n] = NoDir
    BY DEF MappingsExact
  <1>1. /\ explored[f] => ExactMapping(f, n)
        /\ ~explored[f] => read_mappings[f][n] = NoDir
    BY DEF MappingsExact, Busy
  <1> QED
    BY <1>1, WinnerSame DEF ExactMapping

-----------------------------------------------------------------------------
(* The listener *)

LEMMA ListenerAlone ==
    ASSUME StructInv, ListenerStep, NEW t \in Threads
    PROVE  pc[t] \notin Exploring
  <1>1. processing \in {NoOne, Listener}
    BY DEF StructInv, LockInv, ListenerStep, TakeEvent, MapEvent, ListEvent,
           EraseEvent, Free
  <1> QED
    BY <1>1, OwnersDiffer DEF StructInv, LockInv

LEMMA MapEventExact ==
    ASSUME NothingDeleted, StructInv, CreationInv, ExactInv, [Next]_vars,
           MapEvent
    PROVE  MappingsExact'
  <1> USE DEF StructInv, TypeOK
  <1> DEFINE e == Head(events)
             g == ReverseFolder[e.dir]
  <1>1. /\ g \in Folders /\ e.name \in Names
        /\ e.dir = WriteDir[g] /\ Winner(g, e.name) = e.dir
        /\ explored[g]
    BY HeadType, HeadWins DEF MapEvent, ExactInv
  <1>2. /\ read_mappings' = [read_mappings EXCEPT ![g][e.name] = e.dir]
        /\ UNCHANGED <<files, explored, folder, name, intent>>
        /\ \A t \in Threads : pc'[t] = pc[t] /\ pc[t] \notin Exploring
    BY ListenerAlone, OwnersDiffer
       DEF MapEvent, ListenerStep, Goto, Processes, disk, call
  <1> HIDE DEF e, g
  <1> SUFFICES ASSUME NEW f \in Folders, NEW n \in Names
               PROVE  /\ explored[f] => ExactMapping(f, n)'
                      /\ ~explored[f] => read_mappings'[f][n] = NoDir
    BY <1>2 DEF MappingsExact
  <1>3. /\ explored[f] => ExactMapping(f, n)
        /\ ~explored[f] => read_mappings[f][n] = NoDir
    BY <1>2 DEF ExactInv, MappingsExact, Busy
  <1>4. Making(f, n)' <=> Making(f, n)
    BY <1>2 DEF Making
  <1>5. CASE f = g /\ n = e.name
    <2>1. read_mappings'[f][n] = Winner(f, n)
      BY <1>1, <1>2, <1>5
    <2> QED
      BY <1>1, <1>2, <1>5, <2>1, WinnerSame DEF ExactMapping
  <1>6. CASE ~(f = g /\ n = e.name)
    <2>1. read_mappings'[f][n] = read_mappings[f][n]
      BY <1>2, <1>6
    <2> QED
      BY <1>2, <1>3, <1>4, <2>1, WinnerSame DEF ExactMapping
  <1> QED
    BY <1>5, <1>6

LEMMA ListenerExact ==
    ASSUME NothingDeleted, StructInv, CreationInv, ExactInv, [Next]_vars,
           ListenerStep \/ UNCHANGED vars
    PROVE  MappingsExact'
  <1>1. CASE UNCHANGED vars
    <2>1. UNCHANGED <<files, read_mappings, explored, pc, index, todo,
                      folder, name, intent>>
      BY <1>1 DEF vars, disk, tables, call, scan
    <2>2. ASSUME NEW t \in Threads, NEW n \in Names
          PROVE  ScanExact(t, n) => ScanExact(t, n)'
      BY <2>1 DEF ScanExact, Scanned, Backers
    <2>3. ASSUME NEW f \in Folders, NEW n \in Names
          PROVE  /\ ExactMapping(f, n) => ExactMapping(f, n)'
                 /\ Busy(f)' <=> Busy(f)
      BY <2>1, WinnerSame DEF ExactMapping, Making, Busy
    <2> QED
      BY <2>1, <2>2, <2>3 DEF ExactInv, MappingsExact
  <1>2. CASE TakeEvent \/ ListEvent \/ EraseEvent
    <2>1. UNCHANGED <<files, read_mappings, explored, folder, name, intent>>
      BY <1>2 DEF TakeEvent, ListEvent, EraseEvent, EventDone, disk, tables,
                  call
    <2>2. \A t \in Threads : pc'[t] = pc[t] /\ pc[t] \notin Exploring
      BY <1>2, ListenerAlone, OwnersDiffer
         DEF ListenerStep, TakeEvent, ListEvent, EraseEvent, EventDone, Goto,
             Processes, StructInv, TypeOK
    <2>3. ASSUME NEW f \in Folders, NEW n \in Names
          PROVE  Making(f, n) => Making(f, n)'
      BY <2>1, <2>2 DEF Making
    <2> QED
      BY <2>1, <2>2, <2>3, QuietMappings DEF ExactInv
  <1> QED
    BY <1>1, <1>2, MapEventExact DEF ListenerStep

-----------------------------------------------------------------------------
(* The thread's own steps outside a scan *)

\* The steps of a call that move no mapping and no file.
Moves(t) ==
    \/ \E i \in Intents, f \in Folders, n \in Names : Call(t, i, f, n)
    \/ Gate(t) \/ FindMapping(t) \/ CheckFolder(t) \/ SnapshotFolder(t)
    \/ FindAgain(t) \/ FolderLookup(t)
    \/ LockWrite(t) /\ WriteDir[folder[t]] = NoDir
    \/ AddWrittenChild(t)

LEMMA MovesShape ==
    ASSUME StructInv, NEW t \in Threads, Moves(t)
    PROVE  /\ UNCHANGED <<files, read_mappings, explored>>
           /\ pc[t] \notin Exploring /\ pc'[t] \notin Exploring
           /\ pc[t] # "syscall"
           /\ pc[t] = "wchild" =>
                 AddWrittenChild(t) /\ UNCHANGED <<folder, name, intent>>
  BY DEF Moves, Call, Gate, FindMapping, CheckFolder, SnapshotFolder,
         FindAgain, FolderLookup, LockWrite, AddWrittenChild, Return, Goto,
         Exploring, Processes, StructInv, TypeOK, disk, tables, call

LEMMA MovesExact ==
    ASSUME OneThread, NothingDeleted, StructInv, CreationInv, ExactInv,
           NEW t \in Threads, Moves(t)
    PROVE  MappingsExact'
  <1> USE DEF StructInv, TypeOK
  <1>1. ASSUME NEW f \in Folders, NEW n \in Names, Making(f, n)
        PROVE  Making(f, n)'
    <2>1. /\ pc[t] = "wchild" /\ folder[t] = f /\ name[t] = n
      BY <1>1, MovesShape DEF OneThread, Making
    <2>2. pc'[t] = "syscall" /\ intent'[t] = "Create"
      BY <2>1, MovesShape
         DEF AddWrittenChild, Return, Goto, Processes, ExactInv, PathInv, call
    <2> QED
      BY <2>1, <2>2, MovesShape DEF Making
  <1>2. \A u \in Threads : pc[u] \notin Exploring /\ pc'[u] \notin Exploring
    BY MovesShape DEF OneThread
  <1> QED
    BY <1>1, <1>2, MovesShape, QuietMappings DEF ExactInv

\* The mapping is made before the file.
LEMMA LockWriteExact ==
    ASSUME OneThread, NothingDeleted, StructInv, CreationInv, ExactInv,
           NEW t \in Threads, LockWrite(t), WriteDir[folder[t]] # NoDir
    PROVE  MappingsExact'
  <1> USE DEF StructInv, TypeOK
  <1>1. /\ pc[t] = "lockwrite" /\ pc'[t] = "wchild"
        /\ read_mappings' = [read_mappings EXCEPT
                               ![folder[t]][name[t]] = WriteDir[folder[t]]]
        /\ UNCHANGED <<files, explored, folder, name>>
    BY DEF LockWrite, Goto, Processes, disk, call
  <1>2. \A u \in Threads : u = t
    BY DEF OneThread
  <1> SUFFICES ASSUME NEW f \in Folders, NEW n \in Names
               PROVE  /\ explored[f] => ExactMapping(f, n)'
                      /\ ~explored[f] => read_mappings'[f][n] = NoDir
    BY <1>1, <1>2 DEF MappingsExact, Exploring
  <1>3. /\ explored[f] => ExactMapping(f, n)
        /\ ~explored[f] => read_mappings[f][n] = NoDir
    BY <1>1, <1>2 DEF ExactInv, MappingsExact, Busy, Exploring
  <1>4. CASE f = folder[t] /\ n = name[t]
    <2>1. explored[f] /\ Winner(f, n) = NoDir
      BY <1>1, <1>4 DEF ExactInv, PathInv
    <2>2. read_mappings'[f][n] = WriteDir[f] /\ Making(f, n)'
      BY <1>1, <1>4 DEF Making
    <2> QED
      BY <1>1, <2>1, <2>2, WinnerSame DEF ExactMapping
  <1>5. CASE ~(f = folder[t] /\ n = name[t])
    <2>1. read_mappings'[f][n] = read_mappings[f][n]
      BY <1>1, <1>5
    <2>2. ~Making(f, n)
      BY <1>1, <1>2 DEF Making
    <2> QED
      BY <1>1, <1>3, <2>1, <2>2, WinnerSame DEF ExactMapping
  <1> QED
    BY <1>4, <1>5

LEMMA CreatesOnly ==
    ASSUME NothingDeleted, StructInv, CreationInv, [Next]_vars,
           NEW t \in Threads, SyscallCreates(t)
    PROVE  Creates(t)
  <1>1. FileAppears(result[t], name[t]) /\ result[t] # NoDir
    BY DEF SyscallCreates
  <1>2. /\ pc[t] = "syscall" /\ pc'[t] = "idle" /\ intent[t] = "Create"
        /\ name[t] \notin files[result[t]]
        /\ files' = [files EXCEPT ![result[t]] = @ \cup {name[t]}]
        /\ events' = Append(events,
                        [op |-> "R", dir |-> result[t], name |-> name[t]])
    BY <1>1
       DEF SyscallCreates, Finish, FileAppears, Notify, Goto, Processes,
           StructInv, TypeOK
  <1>3. result[t] = WriteDir[folder[t]] /\ folder[t] \in Folders
    BY <1>2 DEF CreationInv, Holds, StructInv, TypeOK
  <1> QED
    BY <1>1, <1>2, <1>3, WriteDirOnTop DEF Creates

\* The file is created where it is mapped.
LEMMA CreatesExact ==
    ASSUME OneThread, NothingDeleted, StructInv, CreationInv, ExactInv,
           NEW t \in Threads, Creates(t)
    PROVE  /\ MappingsExact'
           /\ explored[folder[t]]
  <1> USE DEF StructInv, TypeOK
  <1> DEFINE g == folder[t]
             d == WriteDir[g]
  <1>1. /\ pc[t] = "syscall" /\ pc'[t] = "idle" /\ intent[t] = "Create"
        /\ result[t] = d /\ d # NoDir /\ d \in Dirs /\ ReverseFolder[d] = g
        /\ g \in Folders /\ name[t] \in Names
        /\ name[t] \notin files[d]
        /\ files' = [files EXCEPT ![d] = @ \cup {name[t]}]
        /\ UNCHANGED <<read_mappings, explored>>
    BY DEF Creates, SyscallCreates, Finish, Goto, Processes, tables
  <1>2. \A u \in Threads : u = t
    BY DEF OneThread
  <1>3. read_mappings[g][name[t]] = d
    BY <1>1 DEF ExactInv, AnswerInv
  <1>4. ASSUME NEW f \in Folders, NEW n \in Names
        PROVE  /\ explored[f] => ExactMapping(f, n)
               /\ ~explored[f] => read_mappings[f][n] = NoDir
    BY <1>1, <1>2 DEF ExactInv, MappingsExact, Busy, Exploring
  <1>5. explored[g]
    BY <1>1, <1>3, <1>4
  <1> HIDE DEF g, d
  <1>6. ASSUME NEW f \in Folders, NEW n \in Names
        PROVE  /\ explored'[f] => ExactMapping(f, n)'
               /\ ~explored'[f] => read_mappings'[f][n] = NoDir
    <2>1. CASE f = g /\ n = name[t]
      <3>1. n \in files'[d]
        BY <1>1, <2>1
      <3>2. Winner(f, n)' = WriteDir[f]
        <4>1. f \in Folders /\ WriteDir[f] # NoDir /\ n \in files'[WriteDir[f]]
          BY <1>1, <2>1, <3>1 DEF d
        <4> QED
          BY <4>1, WriteDirWins
      <3> QED
        BY <1>1, <1>3, <1>5, <2>1, <3>2 DEF ExactMapping, d
    <2>2. CASE ~(f = g /\ n = name[t])
      <3>1. Backers(f, n)' = Backers(f, n)
        <4>1. ASSUME NEW i \in 1..Len(FolderVec(f))
              PROVE  n \in files'[FolderVec(f)[i]]
                        <=> n \in files[FolderVec(f)[i]]
          BY <1>1, <2>2, FolderVecType
        <4> QED
          BY <4>1 DEF Backers
      <3>2. Winner(f, n)' = Winner(f, n)
        BY <3>1 DEF Winner
      <3>3. ~Making(f, n)
        BY <1>2, <2>2 DEF Making, g
      <3> QED
        BY <1>1, <1>4, <3>2, <3>3 DEF ExactMapping
    <2> QED
      BY <2>1, <2>2
  <1>7. \A u \in Threads : pc'[u] \notin Exploring
    BY <1>1, <1>2 DEF Exploring
  <1> QED
    BY <1>5, <1>6, <1>7 DEF MappingsExact, g

LEMMA LeavesExact ==
    ASSUME OneThread, NothingDeleted, CallsSucceed, StructInv, CreationInv,
           ExactInv, NEW t \in Threads, SyscallLeaves(t)
    PROVE  MappingsExact'
  <1> USE DEF StructInv, TypeOK
  <1>1. /\ pc[t] = "syscall" /\ pc'[t] = "idle"
        /\ UNCHANGED <<files, read_mappings, explored>>
    BY DEF SyscallLeaves, Finish, NothingHappens, Goto, Processes, tables, disk
  <1>2. \A u \in Threads : u = t
    BY DEF OneThread
  <1>3. ASSUME NEW f \in Folders, NEW n \in Names, Making(f, n),
               Winner(f, n) = NoDir, read_mappings[f][n] # NoDir
        PROVE  FALSE
    <2>1. /\ intent[t] = "Create" /\ folder[t] = f /\ name[t] = n
          /\ result[t] = read_mappings[f][n] /\ result[t] # NoDir
      BY <1>1, <1>2, <1>3 DEF Making, ExactInv, AnswerInv
    <2>2. n \in files[result[t]]
      BY <2>1 DEF SyscallLeaves, CallsSucceed
    <2>3. result[t] = WriteDir[f] \/ result[t] \in RangeOf(FolderVec(f))
      BY <1>1, <2>1 DEF CreationInv, Holds
    <2>4. result[t] \in RangeOf(FolderVec(f))
      BY <2>1, <2>3, WriteDirOnTop
    <2>5. Backers(f, n) # {}
      BY <2>2, <2>4 DEF Backers, RangeOf
    <2> QED
      BY <1>3, <2>5, WinnerNone
  <1>4. \A u \in Threads : pc[u] \notin Exploring /\ pc'[u] \notin Exploring
    BY <1>1, <1>2 DEF Exploring
  <1> QED
    BY <1>1, <1>3, <1>4, QuietMappings DEF ExactInv

-----------------------------------------------------------------------------
(* The scan of a folder *)

\* The tables of all other folders stay as they are while t scans.
LEMMA OtherFolders ==
    ASSUME OneThread, ExactInv, NEW t \in Threads,
           pc[t] \notin {"wchild", "syscall"},
           UNCHANGED <<files, folder>>,
           pc[t] \in Exploring \/ pc'[t] \in Exploring,
           NEW f \in Folders, f # folder[t],
           explored'[f] = explored[f], NEW n \in Names,
           read_mappings'[f][n] = read_mappings[f][n]
    PROVE  /\ explored'[f] => ExactMapping(f, n)'
           /\ ~explored'[f] => read_mappings'[f][n] = NoDir
  <1>1. ~Busy(f) /\ ~Making(f, n)
    BY DEF Busy, Making, OneThread
  <1>2. /\ explored[f] => ExactMapping(f, n)
        /\ ~explored[f] => read_mappings[f][n] = NoDir
    BY <1>1 DEF ExactInv, MappingsExact
  <1> QED
    BY <1>1, <1>2, WinnerSame DEF ExactMapping

LEMMA ScanTypes ==
    ASSUME StructInv, NEW t \in Threads
    PROVE  /\ folder[t] \in Folders
           /\ index[t] \in 1..Len(FolderVec(folder[t]))
           /\ Len(FolderVec(folder[t])) \in Nat
           /\ \A n \in Names :
                 Backers(folder[t], n) \subseteq 1..Len(FolderVec(folder[t]))
           /\ pc \in [Processes -> ThreadPc \cup ListenerPc]
           /\ t \in Processes
  <1>1. /\ folder[t] \in Folders /\ index[t] \in Nat \ {0}
        /\ index[t] <= Len(FolderVec(folder[t]))
    BY DEF StructInv, TypeOK, ScanInv
  <1>2. Len(FolderVec(folder[t])) \in Nat
    BY <1>1, FolderVecType
  <1> QED
    BY <1>1, <1>2, BackersType DEF StructInv, TypeOK, Processes

\* The steps of a scan that read no entry: what was scanned is the same.
LEMMA ScanSame ==
    ASSUME OneThread, NothingDeleted, StructInv, CreationInv, ExactInv,
           NEW t \in Threads,
           OpenDirectory(t) \/ AddChild(t)
              \/ \E m \in Names : SkipRemoved(t, m)
    PROVE  MappingsExact'
  <1> USE DEF Processes, Goto
  <1>1. /\ UNCHANGED <<files, read_mappings, explored, folder, index>>
        /\ pc[t] \in Exploring /\ pc'[t] \in Exploring
    BY ScanTypes
       DEF OpenDirectory, AddChild, SkipRemoved, disk, tables, call, Exploring
  <1>2. \A u \in Threads : u = t
    BY DEF OneThread
  <1>3. ASSUME NEW n \in Names
        PROVE  Scanned(t, n)' = Scanned(t, n)
    <2>1. CASE OpenDirectory(t)
      <3>1. /\ pc[t] = "open" /\ pc'[t] = "scan"
            /\ todo'[t] = files[FolderVec(folder[t])[index[t]]]
        BY <2>1, ScanTypes DEF OpenDirectory, ScannedDir, StructInv, TypeOK
      <3>2. \A j \in Backers(folder[t], n) : j = index[t] => n \in todo'[t]
        BY <3>1 DEF Backers
      <3> QED
        BY <1>1, <3>1, <3>2 DEF Scanned, Backers
    <2>2. CASE AddChild(t)
      <3>1. pc[t] = "child" /\ pc'[t] = "scan" /\ todo'[t] = todo[t]
        BY <2>2, ScanTypes DEF AddChild
      <3> QED
        BY <1>1, <3>1 DEF Scanned, Backers
    <2>3. ASSUME NEW m \in Names, SkipRemoved(t, m)
          PROVE  FALSE
      BY <2>3 DEF SkipRemoved, CreationInv
    <2> QED
      BY <2>1, <2>2, <2>3
  <1>4. ASSUME NEW n \in Names
        PROVE  ScanExact(t, n)'
    <2>1. ScanExact(t, n)
      BY <1>1 DEF ExactInv, MappingsExact
    <2> QED
      BY <1>1, <1>3, <2>1 DEF ScanExact
  <1>5. ASSUME NEW f \in Folders, f # folder[t], NEW n \in Names
        PROVE  /\ explored'[f] => ExactMapping(f, n)'
               /\ ~explored'[f] => read_mappings'[f][n] = NoDir
    BY <1>1, <1>5, OtherFolders DEF Exploring
  <1> QED
    BY <1>1, <1>2, <1>4, <1>5 DEF MappingsExact, Busy

LEMMA LockProcessingExact ==
    ASSUME OneThread, NothingDeleted, StructInv, CreationInv, ExactInv,
           NEW t \in Threads, LockProcessing(t)
    PROVE  MappingsExact'
  <1>1. /\ UNCHANGED <<files, read_mappings, explored, folder, index, todo>>
        /\ pc[t] = "lock" /\ pc'[t] = "open" /\ index[t] = 1
    BY ScanTypes
       DEF LockProcessing, Goto, disk, tables, call, scan, StructInv, ScanInv,
           Exploring
  <1>2. \A u \in Threads : u = t
    BY DEF OneThread
  <1>3. ASSUME NEW n \in Names
        PROVE  ScanExact(t, n)'
    <2>1. \A j \in Backers(folder[t], n) : j \in Nat /\ ~(j < 1)
      <3>1. Backers(folder[t], n) \subseteq 1..Len(FolderVec(folder[t]))
        BY ScanTypes
      <3> QED
        BY <3>1
    <2>2. Scanned(t, n)' = {}
      BY <1>1, <2>1, WinnerSame DEF Scanned
    <2>3. read_mappings[folder[t]][n] = NoDir
      BY <1>1, <1>2, ScanTypes
         DEF ExactInv, MappingsExact, PathInv, Busy, Exploring
    <2> QED
      BY <1>1, <2>2, <2>3 DEF ScanExact
  <1>4. ASSUME NEW f \in Folders, f # folder[t], NEW n \in Names
        PROVE  /\ explored'[f] => ExactMapping(f, n)'
               /\ ~explored'[f] => read_mappings'[f][n] = NoDir
    BY <1>1, <1>4, OtherFolders DEF Exploring
  <1> QED
    BY <1>1, <1>2, <1>3, <1>4 DEF MappingsExact, Busy, Exploring

\* Each entry read raises the mapping of its name to the directory scanned.
LEMMA AddReadEntryExact ==
    ASSUME OneThread, NothingDeleted, StructInv, CreationInv, ExactInv,
           NEW t \in Threads, NEW m \in Names, AddReadEntry(t, m)
    PROVE  MappingsExact'
  <1> DEFINE g == folder[t]
             N == Len(FolderVec(g))
  <1>1. /\ UNCHANGED <<files, explored, folder, index>>
        /\ pc[t] = "scan" /\ pc'[t] = "child" /\ m \in todo[t]
        /\ todo'[t] = todo[t] \ {m}
        /\ read_mappings' = [read_mappings EXCEPT ![g][m] = ScannedDir(t)]
    BY ScanTypes
       DEF AddReadEntry, Goto, disk, call, StructInv, TypeOK
  <1>2. \A u \in Threads : u = t
    BY DEF OneThread
  <1>3. g \in Folders /\ index[t] \in 1..N /\ N \in Nat
    BY ScanTypes
  <1>4. ASSUME NEW n \in Names
        PROVE  ScanExact(t, n)'
    <2>1. CASE n = m
      <3>1. read_mappings'[g][n] = FolderVec(g)[index[t]]
        BY <1>1, <1>3, <2>1 DEF ScannedDir, StructInv, TypeOK
      <3>2. index[t] \in Scanned(t, n)'
        <4>1. m \in files[FolderVec(g)[index[t]]]
          BY <1>1 DEF CreationInv, ScannedDir
        <4> QED
          BY <1>1, <1>3, <2>1, <4>1 DEF Scanned, Backers
      <3>3. \A k \in Scanned(t, n)' : k <= index[t]
        BY <1>1, <1>3, ScanTypes DEF Scanned, Backers
      <3> QED
        BY <1>1, <3>1, <3>2, <3>3 DEF ScanExact
    <2>2. CASE n # m
      <3>1. Scanned(t, n)' = Scanned(t, n)
        BY <1>1, <2>2 DEF Scanned, Backers
      <3>2. read_mappings'[g][n] = read_mappings[g][n]
        BY <1>1, <2>2 DEF StructInv, TypeOK
      <3>3. ScanExact(t, n)
        BY <1>1 DEF ExactInv, MappingsExact, Exploring
      <3> QED
        BY <1>1, <3>1, <3>2, <3>3 DEF ScanExact
    <2> QED
      BY <2>1, <2>2
  <1>5. ASSUME NEW f \in Folders, f # folder[t], NEW n \in Names
        PROVE  /\ explored'[f] => ExactMapping(f, n)'
               /\ ~explored'[f] => read_mappings'[f][n] = NoDir
    <2>1. read_mappings'[f][n] = read_mappings[f][n]
      BY <1>1, <1>5 DEF StructInv, TypeOK
    <2> QED
      BY <1>1, <1>5, <2>1, OtherFolders DEF Exploring
  <1> QED
    BY <1>1, <1>2, <1>4, <1>5 DEF MappingsExact, Busy, Exploring

LEMMA CloseDirectoryExact ==
    ASSUME OneThread, NothingDeleted, StructInv, CreationInv, ExactInv,
           NEW t \in Threads, CloseDirectory(t)
    PROVE  MappingsExact'
  <1> DEFINE g == folder[t]
             N == Len(FolderVec(g))
  <1>1. /\ UNCHANGED <<files, read_mappings, folder, todo>>
        /\ pc[t] = "scan" /\ todo[t] = {}
        /\ explored' = [explored EXCEPT ![g] = TRUE]
        /\ \/ index[t] < N /\ index'[t] = index[t] + 1 /\ pc'[t] = "open"
           \/ index[t] = N /\ pc'[t] = "again"
    BY ScanTypes
       DEF CloseDirectory, Goto, disk, call, StructInv, TypeOK
  <1>2. \A u \in Threads : u = t
    BY DEF OneThread
  <1>3. g \in Folders /\ index[t] \in 1..N /\ N \in Nat
    BY ScanTypes
  <1>4. ASSUME NEW n \in Names
        PROVE  ScanExact(t, n) /\ Backers(g, n) \subseteq 1..N
    BY <1>1, ScanTypes DEF ExactInv, MappingsExact, Exploring
  <1>5. ASSUME NEW f \in Folders, f # folder[t], NEW n \in Names
        PROVE  /\ explored'[f] => ExactMapping(f, n)'
               /\ ~explored'[f] => read_mappings'[f][n] = NoDir
    <2>1. explored'[f] = explored[f]
      BY <1>1, <1>5 DEF StructInv, TypeOK
    <2> QED
      BY <1>1, <1>5, <2>1, OtherFolders DEF Exploring
  <1>6. CASE index[t] < N /\ index'[t] = index[t] + 1 /\ pc'[t] = "open"
    <2>1. ASSUME NEW n \in Names
          PROVE  ScanExact(t, n)'
      <3>1. \A j \in Backers(g, n) :
               j < index[t] + 1 <=> j < index[t] \/ j = index[t]
        BY <1>3, <1>4
      <3>2. Scanned(t, n)' = Scanned(t, n)
        BY <1>1, <1>6, <3>1, <1>4 DEF Scanned, Backers
      <3> QED
        BY <1>1, <1>4, <3>2 DEF ScanExact
    <2> QED
      BY <1>1, <1>2, <1>5, <1>6, <2>1 DEF MappingsExact, Busy, Exploring
  <1>7. CASE index[t] = N /\ pc'[t] = "again"
    <2>1. ASSUME NEW n \in Names
          PROVE  read_mappings[g][n] = Winner(g, n)
      <3>1. Scanned(t, n) = Backers(g, n)
        <4>1. \A j \in Backers(g, n) : j < index[t] \/ j = index[t]
          BY <1>3, <1>4, <1>7
        <4> QED
          BY <1>1, <4>1 DEF Scanned
      <3>2. CASE Backers(g, n) = {} /\ read_mappings[g][n] = NoDir
        BY <1>3, <3>2, WinnerNone
      <3>3. CASE \E j \in Backers(g, n) :
                    /\ read_mappings[g][n] = FolderVec(g)[j]
                    /\ \A k \in Backers(g, n) : k <= j
        BY <1>3, <3>3, WinnerIs
      <3> QED
        BY <1>4, <3>1, <3>2, <3>3 DEF ScanExact
    <2>2. \A n \in Names : ExactMapping(g, n)'
      BY <1>1, <2>1, WinnerSame DEF ExactMapping
    <2>3. explored'[g]
      BY <1>1, <1>3 DEF StructInv, TypeOK
    <2> QED
      BY <1>1, <1>2, <1>5, <1>7, <2>2, <2>3 DEF MappingsExact, Exploring
  <1> QED
    BY <1>1, <1>6, <1>7

LEMMA MappingsStep ==
    ASSUME OneThread, NothingDeleted, CallsSucceed, StructInv, CreationInv,
           ExactInv, [Next]_vars
    PROVE  MappingsExact'
  <1>1. ASSUME NEW t \in Threads, ThreadStep(t)
        PROVE  MappingsExact'
    <2>1. CASE Moves(t)
      BY <2>1, MovesExact
    <2>2. CASE LockWrite(t) /\ WriteDir[folder[t]] # NoDir
      BY <2>2, LockWriteExact
    <2>3. CASE SyscallCreates(t)
      BY <1>1, <2>3, CreatesOnly, CreatesExact
    <2>4. CASE SyscallLeaves(t)
      BY <2>4, LeavesExact
    <2>5. CASE LockProcessing(t)
      BY <2>5, LockProcessingExact
    <2>6. CASE OpenDirectory(t) \/ AddChild(t)
                  \/ \E m \in Names : SkipRemoved(t, m)
      BY <2>6, ScanSame
    <2>7. CASE \E m \in Names : AddReadEntry(t, m)
      BY <2>7, AddReadEntryExact
    <2>8. CASE CloseDirectory(t)
      BY <2>8, CloseDirectoryExact
    <2>9. ~DeleteFile(t) /\ ~SyscallDeletes(t)
      BY DEF DeleteFile, SyscallDeletes, CreationInv
    <2> QED
      BY <1>1, <2>1, <2>2, <2>3, <2>4, <2>5, <2>6, <2>7, <2>8, <2>9
         DEF ThreadStep, Progress, Moves
  <1>2. ~ExternalStep
    BY DEF ExternalStep, NothingDeleted
  <1> QED
    BY <1>1, <1>2, ListenerExact DEF Next

-----------------------------------------------------------------------------
(* The call the thread is in *)

LEMMA EventsStep ==
    ASSUME OneThread, NothingDeleted, StructInv, CreationInv, ExactInv,
           [Next]_vars
    PROVE  EventsExplored'
  <1> USE DEF StructInv, TypeOK
  <1>1. events \in Seq(Events)
    OBVIOUS
  <1>2. ASSUME NEW i \in 1..Len(events)
        PROVE  explored'[ReverseFolder[events[i].dir]]
    <2>1. events[i] \in Events
      BY <1>1
    <2>2. ReverseFolder[events[i].dir] \in Folders
      BY <2>1, FolderPathsType DEF Events
    <2> QED
      BY <2>2, ExploredStep DEF ExactInv, EventsExplored
  <1>3. CASE UNCHANGED events
    BY <1>2, <1>3 DEF EventsExplored
  <1>4. ASSUME NEW t \in Threads, Creates(t)
        PROVE  EventsExplored'
    <2> DEFINE e == [op |-> "R", dir |-> result[t], name |-> name[t]]
    <2>1. /\ events' = Append(events, e) /\ e.dir = result[t]
          /\ ReverseFolder[result[t]] = folder[t]
      BY <1>4 DEF Creates
    <2>2. explored'[ReverseFolder[e.dir]]
      BY <1>4, <2>1, CreatesExact, ExploredStep
    <2> HIDE DEF e
    <2>3. ASSUME NEW i \in 1..Len(events')
          PROVE  explored'[ReverseFolder[events'[i].dir]]
      <3>1. i = Len(events) + 1 \/ i \in 1..Len(events)
        BY <1>1, <2>1
      <3>2. CASE i = Len(events) + 1
        BY <1>1, <2>1, <2>2, <3>2
      <3>3. CASE i \in 1..Len(events)
        BY <1>1, <1>2, <2>1, <3>3
      <3> QED
        BY <3>1, <3>2, <3>3
    <2> QED
      BY <2>3 DEF EventsExplored
  <1>5. CASE ListEvent
    <2>1. events # << >> /\ events' = Tail(events)
      BY <1>5, HeadType DEF ListEvent, EventDone
    <2>2. ASSUME NEW i \in 1..Len(events')
          PROVE  explored'[ReverseFolder[events'[i].dir]]
      <3>1. i + 1 \in 1..Len(events) /\ events'[i] = events[i + 1]
        BY <1>1, <2>1
      <3> QED
        BY <1>2, <3>1
    <2> QED
      BY <2>2 DEF EventsExplored
  <1> QED
    BY <1>3, <1>4, <1>5, CreationShape

\* The lookup of an explored folder answers exactly, before anything is made.
LEMMA LookupIs ==
    ASSUME OneThread, ExactInv, NEW t \in Threads,
           folder[t] \in Folders, name[t] \in Names,
           pc[t] \in {"find", "check", "again"}
    PROVE  /\ explored[folder[t]] =>
                 read_mappings[folder[t]][name[t]] = Winner(folder[t], name[t])
           /\ ~explored[folder[t]] =>
                 read_mappings[folder[t]][name[t]] = NoDir
  <1>1. ~Busy(folder[t]) /\ ~Making(folder[t], name[t])
    BY DEF Busy, Making, OneThread, Exploring
  <1> QED
    BY <1>1 DEF ExactInv, MappingsExact, ExactMapping

\* The listener changes no answer: what it maps is the file's winner.
LEMMA WaitingCall ==
    ASSUME OneThread, NothingDeleted, StructInv, CreationInv, ExactInv,
           [Next]_vars, NEW t \in Threads, ~ThreadStep(t)
    PROVE  PathInv(t)' /\ AnswerInv(t)'
  <1> USE DEF StructInv, TypeOK
  <1>1. /\ pc'[t] = pc[t] /\ folder'[t] = folder[t] /\ name'[t] = name[t]
        /\ intent'[t] = intent[t] /\ result'[t] = result[t]
    BY OtherThread
  <1>2. ListenerStep \/ UNCHANGED vars
    BY DEF Next, OneThread, ExternalStep, NothingDeleted
  <1>3. UNCHANGED <<files, explored>>
    BY <1>2 DEF ListenerStep, TakeEvent, MapEvent, ListEvent, EraseEvent,
                EventDone, vars, disk, tables
  <1>4. \/ read_mappings'[folder[t]][name[t]] = read_mappings[folder[t]][name[t]]
        \/ /\ read_mappings'[folder[t]][name[t]] = Winner(folder[t], name[t])
           /\ Winner(folder[t], name[t]) # NoDir
    <2>1. CASE MapEvent
      <3> DEFINE e == Head(events)
                 g == ReverseFolder[e.dir]
      <3>1. /\ read_mappings' = [read_mappings EXCEPT ![g][e.name] = e.dir]
            /\ g \in Folders /\ e.name \in Names
            /\ Winner(g, e.name) = e.dir /\ e.dir # NoDir
        BY <2>1, HeadType, HeadWins DEF MapEvent, ExactInv
      <3> HIDE DEF e, g
      <3>2. CASE folder[t] = g /\ name[t] = e.name
        BY <3>1, <3>2
      <3>3. CASE ~(folder[t] = g /\ name[t] = e.name)
        BY <3>1, <3>3
      <3> QED
        BY <3>2, <3>3
    <2>2. CASE ~MapEvent
      BY <1>2, <2>2
         DEF ListenerStep, TakeEvent, ListEvent, EraseEvent, EventDone, vars,
             tables
    <2> QED
      BY <2>1, <2>2
  <1>5. Winner(folder[t], name[t])' = Winner(folder[t], name[t])
    BY <1>1, <1>3 DEF Winner, Backers
  <1>6. PathInv(t) /\ AnswerInv(t)
    BY DEF ExactInv
  <1>7. PathInv(t)'
    BY <1>1, <1>3, <1>4, <1>5, <1>6 DEF PathInv
  <1>8. AnswerInv(t)'
    <2>1. pc[t] = "syscall" /\ Winner(folder[t], name[t]) # NoDir =>
             result[t] = Winner(folder[t], name[t])
      BY <1>6 DEF AnswerInv
    <2> QED
      BY <1>1, <1>3, <1>4, <1>5, <1>6, <2>1 DEF AnswerInv
  <1> QED
    BY <1>7, <1>8

LEMMA CallStep ==
    ASSUME OneThread, NothingDeleted, StructInv, CreationInv, ExactInv,
           NEW t \in Threads, ThreadStep(t)
    PROVE  PathInv(t)' /\ AnswerInv(t)'
  <1> USE DEF Goto
  <1>0. /\ pc \in [Processes -> ThreadPc \cup ListenerPc] /\ t \in Processes
        /\ result \in [Threads -> Dirs \cup {NoDir}]
        /\ folder[t] \in Folders /\ name[t] \in Names
        /\ intent[t] \in {"Read", "Create", "Delete"} /\ intent[t] # "Delete"
    BY DEF StructInv, TypeOK, Processes, CreationInv
  <1>1. PathInv(t)
    BY DEF ExactInv
  <1>2. ASSUME pc'[t] \in {"idle", "gate", "find", "open", "scan", "child"}
        PROVE  PathInv(t)' /\ AnswerInv(t)'
    BY <1>2 DEF PathInv, AnswerInv
  <1> DEFINE f == folder[t]
             n == name[t]
  <1>4. CASE \E i \in Intents, g \in Folders, m \in Names : Call(t, i, g, m)
    BY <1>0, <1>2, <1>4 DEF Call
  <1>5. CASE Gate(t) \/ LockProcessing(t) \/ OpenDirectory(t) \/ AddChild(t)
    BY <1>0, <1>2, <1>5 DEF Gate, LockProcessing, OpenDirectory, AddChild
  <1>6. CASE \E m \in Names : AddReadEntry(t, m) \/ SkipRemoved(t, m)
    BY <1>0, <1>2, <1>6 DEF AddReadEntry, SkipRemoved
  <1>7. CASE SyscallCreates(t) \/ SyscallDeletes(t) \/ SyscallLeaves(t)
    BY <1>0, <1>2, <1>7
       DEF SyscallCreates, SyscallDeletes, SyscallLeaves, Finish
  <1>8. CASE DeleteFile(t)
    BY <1>8 DEF DeleteFile, CreationInv
  <1>9. CASE FindMapping(t)
    <2>1. /\ pc[t] = "find"
          /\ UNCHANGED <<files, read_mappings, explored, folder, name, intent>>
          /\ \/ /\ read_mappings[f][n] # NoDir
                /\ result'[t] = read_mappings[f][n] /\ pc'[t] = "syscall"
             \/ /\ read_mappings[f][n] = NoDir /\ pc'[t] = "check"
      BY <1>0, <1>9 DEF FindMapping, Return, disk, tables, call
    <2>2. /\ explored[f] => read_mappings[f][n] = Winner(f, n)
          /\ ~explored[f] => read_mappings[f][n] = NoDir
      BY <1>0, <2>1, LookupIs
    <2> QED
      BY <2>1, <2>2, WinnerSame DEF PathInv, AnswerInv
  <1>10. CASE CheckFolder(t)
    <2>1. /\ pc[t] = "check"
          /\ UNCHANGED <<files, read_mappings, explored, folder, name, intent>>
          /\ \/ explored[f] /\ pc'[t] = "folder"
             \/ ~explored[f] /\ pc'[t] = "wmap"
      BY <1>0, <1>10 DEF CheckFolder, disk, tables, call
    <2> QED
      BY <1>1, <2>1, WinnerSame DEF PathInv, AnswerInv
  <1>11. CASE SnapshotFolder(t)
    BY <1>0, <1>1, <1>11 DEF SnapshotFolder, PathInv, AnswerInv, tables, call
  <1>12. CASE CloseDirectory(t)
    <2>1. /\ UNCHANGED folder
          /\ explored'[f]
          /\ pc'[t] \in {"open", "again"}
      BY <1>0, <1>12 DEF CloseDirectory, call, StructInv, TypeOK
    <2> QED
      BY <1>2, <2>1 DEF PathInv, AnswerInv
  <1>13. CASE FindAgain(t)
    <2>1. /\ pc[t] = "again"
          /\ UNCHANGED <<files, read_mappings, explored, folder, name, intent>>
          /\ \/ /\ read_mappings[f][n] # NoDir
                /\ result'[t] = read_mappings[f][n] /\ pc'[t] = "syscall"
             \/ /\ read_mappings[f][n] = NoDir /\ pc'[t] = "folder"
      BY <1>0, <1>13 DEF FindAgain, Return, disk, tables, call
    <2>2. explored[f] /\ read_mappings[f][n] = Winner(f, n)
      BY <1>0, <1>1, <2>1, LookupIs DEF PathInv
    <2> QED
      BY <2>1, <2>2, WinnerSame DEF PathInv, AnswerInv
  <1>14. CASE FolderLookup(t)
    <2>1. /\ pc[t] = "folder"
          /\ UNCHANGED <<files, read_mappings, explored, folder, name, intent>>
          /\ \/ intent[t] = "Create" /\ pc'[t] = "lockwrite"
             \/ /\ intent[t] # "Create" /\ pc'[t] = "syscall"
                /\ result'[t] = NoDir
      BY <1>0, <1>14 DEF FolderLookup, Return, disk, tables, call
    <2> QED
      BY <1>1, <2>1, WinnerSame DEF PathInv, AnswerInv
  <1>15. CASE LockWrite(t)
    <2>1. /\ pc[t] = "lockwrite" /\ intent[t] = "Create" /\ explored[f]
          /\ Winner(f, n) = NoDir
          /\ UNCHANGED <<files, explored, folder, name, intent>>
      BY <1>1, <1>15 DEF LockWrite, disk, call, PathInv
    <2>2. CASE WriteDir[f] = NoDir
      <3>1. /\ UNCHANGED read_mappings
            /\ pc'[t] = "syscall" /\ result'[t] = NoDir
        BY <1>0, <1>15, <2>1, <2>2 DEF LockWrite, Return
      <3>2. read_mappings[f][n] = NoDir
        <4>1. ~Busy(f)
          BY <2>1 DEF Busy, OneThread, Exploring
        <4> QED
          BY <1>0, <2>1, <2>2, <4>1 DEF ExactInv, MappingsExact, ExactMapping
      <3> QED
        BY <2>1, <3>1, <3>2, WinnerSame DEF PathInv, AnswerInv
    <2>3. CASE WriteDir[f] # NoDir
      <3>1. /\ pc'[t] = "wchild"
            /\ read_mappings'[f][n] = WriteDir[f]
        BY <1>0, <1>15, <2>3 DEF LockWrite, StructInv, TypeOK
      <3> QED
        BY <2>1, <3>1, WinnerSame DEF PathInv, AnswerInv
    <2> QED
      BY <2>2, <2>3
  <1>16. CASE AddWrittenChild(t)
    <2>1. /\ pc[t] = "wchild" /\ intent[t] = "Create"
          /\ Winner(f, n) = NoDir /\ read_mappings[f][n] = WriteDir[f]
          /\ UNCHANGED <<files, read_mappings, explored, folder, name, intent>>
      BY <1>1, <1>16 DEF AddWrittenChild, disk, call, PathInv
    <2>2. pc'[t] = "syscall" /\ result'[t] = WriteDir[f]
      BY <1>0, <1>16, <2>1 DEF AddWrittenChild, Return
    <2> QED
      BY <2>1, <2>2, WinnerSame DEF PathInv, AnswerInv
  <1> QED
    BY <1>4, <1>5, <1>6, <1>7, <1>8, <1>9, <1>10, <1>11, <1>12, <1>13, <1>14,
       <1>15, <1>16 DEF ThreadStep, Progress

LEMMA ExactInvariant ==
    ASSUME OneThread, NothingDeleted, CallsSucceed
    PROVE  Spec => []ExactInv
  <1>1. Init => ExactInv
    BY DEF Init, ExactInv, MappingsExact, EventsExplored, PathInv, AnswerInv,
           Processes, Exploring
  <1>2. StructInv /\ CreationInv /\ ExactInv /\ [Next]_vars => ExactInv'
    <2> SUFFICES ASSUME StructInv, CreationInv, ExactInv, [Next]_vars
                 PROVE  ExactInv'
      OBVIOUS
    <2>1. MappingsExact'
      BY MappingsStep
    <2>2. EventsExplored'
      BY EventsStep
    <2>3. ASSUME NEW t \in Threads
          PROVE  PathInv(t)' /\ AnswerInv(t)'
      BY CallStep, WaitingCall
    <2> QED
      BY <2>1, <2>2, <2>3 DEF ExactInv
  <1> QED
    BY <1>1, <1>2, StructTheorem, CreationInvariant, PTL DEF Spec

\* Every call that reads or creates is redirected to the highest directory
\* that holds its file, and one that reads finds none only if none does
\* (find_read_mapping, vfs.cpp:1015), while the listener applies the events of
\* what the program itself created.
THEOREM LookupExactTheorem ==
    ASSUME OneThread, NothingDeleted, CallsSucceed
    PROVE  Spec => []LookupExact
  <1>1. ExactInv => LookupExact
    BY DEF ExactInv, AnswerInv, LookupExact
  <1> QED
    BY <1>1, ExactInvariant, PTL
=============================================================================
