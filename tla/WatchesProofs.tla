---------------------------- MODULE WatchesProofs ----------------------------
(***************************************************************************)
(* Theorems about Watches for any tree of directories and files, queue and *)
(* number of changes.                                                      *)
(***************************************************************************)
EXTENDS Watches, SequenceLemmas

-----------------------------------------------------------------------------
(* The invariants *)

Paths == Dirs \cup Files

Event == [kind : {"create", "delete", "delete_self", "ignored", "overflow"},
          wd : Int, name : Names \cup {""}, isdir : BOOLEAN]

ScanFrame == [dir : Dirs, recursive : BOOLEAN, search : Dirs,
              at : {"start", "entered", "reading"}, left : SUBSET Paths]

TypeInv ==
    /\ dirs \subseteq disk \cap Dirs /\ disk \ dirs \subseteq Files
    /\ << >> \in dirs /\ \A p \in disk \ {<< >>} : IsDir(Parent(p))
    /\ watches \in [DOMAIN watches -> Dirs]
    /\ fdtable \in [DOMAIN fdtable -> Dirs]
    /\ reverse_fdtable \in [DOMAIN reverse_fdtable -> Int]
    /\ DOMAIN reverse_fdtable \subseteq Dirs
    /\ queue \in Seq(Event) /\ Len(queue) <= MaxQueue + 1
    /\ listener \in BOOLEAN
    /\ explored \subseteq registered /\ registered \subseteq Dirs
    /\ mapped \subseteq Paths
    /\ scan \in Seq(ScanFrame)
    /\ removed \subseteq Dirs /\ unlinked \subseteq Files
    /\ overflowed \in BOOLEAN

\* The watch tables agree with the instance: a descriptor leads to the directory
\* it watches, and a directory leads to its only watch, unless it was refused or
\* the directory has been removed.
TableInv ==
    /\ \E m \in {0} \cup DOMAIN fdtable : \A wd \in DOMAIN fdtable : wd <= m
    /\ DOMAIN fdtable \subseteq Int
    /\ \A wd \in DOMAIN watches :
          /\ wd \in DOMAIN fdtable /\ wd # -1
          /\ watches[wd] \in dirs
          /\ fdtable[wd] = watches[wd]
    /\ \A d \in DOMAIN reverse_fdtable :
          \/ reverse_fdtable[d] = -1
          \/ d \in removed
          \/ reverse_fdtable[d] \in DOMAIN watches /\ watches[reverse_fdtable[d]] = d
    /\ << >> \notin removed

\* A creation names a path below the directory of its descriptor: that of a
\* directory, or one that is a file or has been a file.
EventInv(e) ==
    e.kind = "create" =>
       /\ e.wd \in DOMAIN fdtable /\ e.wd # -1 /\ e.name \in Names
       /\ Append(fdtable[e.wd], e.name) \in
             IF e.isdir THEN Dirs ELSE (disk \ dirs) \cup unlinked

QueueInv == \A e \in ToSet(queue) : EventInv(e)

\* A directory that a scan has entered is watched and registered, and is there
\* unless it has been removed; else it was a file then.  What it has still to take is
\* there or has been removed.
FrameInv(f) ==
    /\ f.at # "start" =>
          \/ /\ f.dir \in registered /\ f.dir \in DOMAIN reverse_fdtable
             /\ f.dir \in dirs \cup removed
          \/ f.dir \in misread
    /\ f.left \subseteq disk \cup removed \cup unlinked

ScanInv == \A f \in ToSet(scan) : FrameInv(f)

ExploredInv == explored \ forgotten \subseteq DOMAIN reverse_fdtable \cup misread

WatchInv == TypeInv /\ TableInv /\ QueueInv /\ ScanInv /\ ExploredInv

\* About to be registered by a scan, or to be mapped by it.
Opening(f, p) == f.dir = p /\ (f.at = "start" \/ (f.at = "entered" /\ ~IsDir(p)))

Pending(p) == \E f \in ToSet(scan) : Opening(f, p)

Heard(p) == Known(p) \/ Announced(p) \/ Pending(p)

\* Unmissed, in the middle of a scan as well.
CoverInv ==
    ~overflowed =>
        \A p \in disk \ {<< >>} : ~Lost(Parent(p)) =>
            /\ Parent(p) \in explored \ forgotten => Heard(p)
            /\ \A f \in ToSet(scan) :
                  f.at = "reading" /\ f.dir = Parent(p) => p \in f.left \/ Heard(p)

-----------------------------------------------------------------------------
(* Paths *)

LEMMA PathSplit ==
    ASSUME NEW p \in Paths, p # << >>
    PROVE  /\ Parent(p) \in Dirs /\ Last(p) \in Names
           /\ Append(Parent(p), Last(p)) = p
  <1>1. p \in Seq(Names) /\ Parent(p) \in Dirs
    BY WatchConstants DEF Paths
  <1>2. Parent(p) = Front(p)
    BY DEF Parent, Up, Front
  <1> QED
    BY <1>1, <1>2, FrontLast

LEMMA PathJoin ==
    ASSUME NEW d \in Dirs, NEW n \in Names
    PROVE  /\ Append(d, n) # << >>
           /\ Parent(Append(d, n)) = d
           /\ Last(Append(d, n)) = n
  <1>1. d \in Seq(Names)
    BY WatchConstants
  <1>2. Parent(Append(d, n)) = Front(Append(d, n))
    BY DEF Parent, Up, Front
  <1> QED
    BY <1>1, <1>2, FrontOfAppend

LEMMA DirsOnly == << >> \in Dirs /\ Dirs \subseteq Paths
  BY WatchConstants DEF Paths

-----------------------------------------------------------------------------
(* The tables *)

LEMMA NewWatchFresh ==
    ASSUME TableInv
    PROVE  /\ NewWatch \in Nat \ {0}
           /\ \A wd \in DOMAIN fdtable : wd < NewWatch
  <1> DEFINE S == {0} \cup DOMAIN watches \cup DOMAIN fdtable
  <1>1. S = {0} \cup DOMAIN fdtable /\ S \subseteq Int
    BY DEF TableInv
  <1>2. PICK m \in S : \A wd \in DOMAIN fdtable : wd <= m
    BY <1>1 DEF TableInv
  <1>3. \E x \in S : \A y \in S : x >= y
    <2>1. CASE m >= 0
      BY <1>1, <1>2, <2>1
    <2>2. CASE ~(m >= 0)
      <3>1. \A y \in S : 0 >= y
        BY <1>1, <1>2, <2>2
      <3> QED
        BY <3>1
    <2> QED
      BY <2>1, <2>2
  <1>4. Max(S) \in S /\ \A y \in S : Max(S) >= y
    BY <1>3 DEF Max
  <1> HIDE DEF S
  <1>5. NewWatch = Max(S) + 1
    BY DEF NewWatch, S
  <1>6. 0 \in S /\ DOMAIN fdtable \subseteq S
    BY <1>1 DEF S
  <1>7. PICK x \in S : NewWatch = x + 1 /\ \A y \in S : x >= y
    BY <1>4, <1>5
  <1>8. S \subseteq Int
    BY <1>1 DEF S
  <1>9. x \in Int /\ x >= 0
    BY <1>6, <1>7, <1>8
  <1>10. \A wd \in DOMAIN fdtable : wd \in Int /\ x >= wd
    BY <1>6, <1>7, <1>8
  <1>11. NewWatch \in Nat \ {0}
    BY <1>7, <1>9
  <1>12. \A wd \in DOMAIN fdtable : wd < NewWatch
    BY <1>7, <1>9, <1>10
  <1> QED
    BY <1>11, <1>12

\* What every step but setsid does to the tables: entries are only added, but
\* that of -1 may be replaced.
Growing ==
    /\ DOMAIN fdtable \subseteq DOMAIN fdtable'
    /\ \A wd \in DOMAIN fdtable \ {-1} : fdtable'[wd] = fdtable[wd]
    /\ DOMAIN reverse_fdtable \subseteq DOMAIN reverse_fdtable'
    /\ \A d \in DOMAIN reverse_fdtable : reverse_fdtable'[d] = reverse_fdtable[d]
    /\ removed \subseteq removed' /\ unlinked \subseteq unlinked'
    /\ misread \subseteq misread' /\ madeup \subseteq madeup'
    /\ (overflowed => overflowed')
    /\ registered \subseteq registered' /\ mapped \subseteq mapped'
    /\ disk \subseteq disk' \cup removed' \cup unlinked'
    /\ dirs \subseteq dirs' \cup removed'
    /\ disk \ dirs \subseteq (disk' \ dirs') \cup unlinked'
    /\ \A p \in disk \cap disk' : p \in dirs' <=> p \in dirs
    /\ forgotten' = forgotten

LEMMA WatchTables ==
    ASSUME TypeInv, TableInv, NEW d \in Dirs, d \in dirs,
           WatchDirectory(d), UNCHANGED <<disk, dirs, removed>>
    PROVE  /\ TableInv'
           /\ watches' \in [DOMAIN watches' -> Dirs]
           /\ fdtable' \in [DOMAIN fdtable' -> Dirs]
           /\ reverse_fdtable' \in [DOMAIN reverse_fdtable' -> Int]
           /\ DOMAIN reverse_fdtable' \subseteq Dirs
           /\ DOMAIN fdtable \subseteq DOMAIN fdtable'
           /\ \A wd \in DOMAIN fdtable \ {-1} : fdtable'[wd] = fdtable[wd]
           /\ DOMAIN reverse_fdtable' = DOMAIN reverse_fdtable \cup {d}
           /\ \A c \in DOMAIN reverse_fdtable :
                 reverse_fdtable'[c] = reverse_fdtable[c]
  <1>1. CASE d \in DOMAIN reverse_fdtable
    BY <1>1 DEF WatchDirectory, TypeInv, TableInv
  <1>2. CASE d \notin DOMAIN reverse_fdtable
    <2>1. PICK wd \in {NewWatch, -1} :
              /\ watches' = IF wd = -1 THEN watches ELSE Put(watches, wd, d)
              /\ fdtable' = Put(fdtable, wd, d)
              /\ reverse_fdtable' = Put(reverse_fdtable, d, wd)
      BY <1>2 DEF WatchDirectory
    <2>2. /\ wd \in Int
          /\ wd # -1 => \A w \in DOMAIN fdtable : w < wd
          /\ wd # -1 => wd >= 0
      BY <2>1, NewWatchFresh
    <2>3. /\ DOMAIN fdtable' = DOMAIN fdtable \cup {wd}
          /\ fdtable'[wd] = d
          /\ \A w \in DOMAIN fdtable \ {wd} : fdtable'[w] = fdtable[w]
      BY <2>1 DEF Put
    <2>4. /\ DOMAIN reverse_fdtable' = DOMAIN reverse_fdtable \cup {d}
          /\ reverse_fdtable'[d] = wd
          /\ \A c \in DOMAIN reverse_fdtable :
                reverse_fdtable'[c] = reverse_fdtable[c]
      BY <1>2, <2>1 DEF Put
    <2>5. \/ wd = -1 /\ watches' = watches
          \/ /\ wd # -1
             /\ DOMAIN watches' = DOMAIN watches \cup {wd}
             /\ watches'[wd] = d
             /\ \A w \in DOMAIN watches \ {wd} : watches'[w] = watches[w]
      BY <2>1 DEF Put
    <2>6. /\ DOMAIN watches \subseteq DOMAIN fdtable
          /\ DOMAIN fdtable \subseteq Int
      BY DEF TableInv
    <2>7. wd # -1 => wd \notin DOMAIN fdtable
      BY <2>2, <2>6
    <2>8. /\ watches' \in [DOMAIN watches' -> Dirs]
          /\ fdtable' \in [DOMAIN fdtable' -> Dirs]
          /\ reverse_fdtable' \in [DOMAIN reverse_fdtable' -> Int]
          /\ DOMAIN reverse_fdtable' \subseteq Dirs
      BY <2>1, <2>2 DEF Put, TypeInv
    <2>9. \E m \in {0} \cup DOMAIN fdtable' : \A w \in DOMAIN fdtable' : w <= m
      <3>1. CASE wd # -1
        BY <2>2, <2>3, <2>6, <3>1
      <3>2. CASE wd = -1
        <4>1. PICK m \in {0} \cup DOMAIN fdtable : \A w \in DOMAIN fdtable : w <= m
          BY DEF TableInv
        <4>2. CASE m >= -1
          BY <2>3, <2>6, <3>2, <4>1, <4>2
        <4>3. CASE ~(m >= -1)
          BY <2>3, <2>6, <3>2, <4>1, <4>3
        <4> QED
          BY <4>2, <4>3
      <3> QED
        BY <3>1, <3>2
    <2>10. \A w \in DOMAIN watches' :
              /\ w \in DOMAIN fdtable' /\ w # -1
              /\ watches'[w] \in dirs'
              /\ fdtable'[w] = watches'[w]
      BY <2>3, <2>5, <2>6, <2>7 DEF TableInv
    <2>11. \A c \in DOMAIN reverse_fdtable' :
              \/ reverse_fdtable'[c] = -1
              \/ c \in removed'
              \/ /\ reverse_fdtable'[c] \in DOMAIN watches'
                 /\ watches'[reverse_fdtable'[c]] = c
      BY <2>4, <2>5, <2>6, <2>7 DEF TableInv
    <2>12. DOMAIN fdtable' \subseteq Int
      BY <2>2, <2>3, <2>6
    <2>13. TableInv'
      BY <2>9, <2>10, <2>11, <2>12 DEF TableInv
    <2> QED
      BY <2>3, <2>4, <2>7, <2>8, <2>13
  <1> QED
    BY <1>1, <1>2

\* Events mean the same while the tables grow.
LEMMA EventKept ==
    ASSUME Growing, NEW e, EventInv(e)
    PROVE  EventInv(e)'
  BY DEF Growing, EventInv

LEMMA FrameKept ==
    ASSUME Growing, NEW f \in ScanFrame, FrameInv(f)
    PROVE  FrameInv(f)'
  <1>1. f.dir \in Dirs
    BY DEF ScanFrame
  <1> QED
    BY <1>1, DirsOnly DEF Growing, FrameInv

-----------------------------------------------------------------------------
(* The queue *)

LEMMA EventType ==
    ASSUME NEW k \in {"create", "delete", "delete_self", "ignored", "overflow"},
           NEW w \in Int, NEW n \in Names \cup {""}
    PROVE  /\ [kind |-> k, wd |-> w, name |-> n, isdir |-> TRUE] \in Event
           /\ [kind |-> k, wd |-> w, name |-> n, isdir |-> FALSE] \in Event
  BY DEF Event

LEMMA OverflowType ==
    [kind |-> "overflow", wd |-> -1, name |-> "", isdir |-> FALSE] \in Event
  BY DEF Event

LEMMA Reported ==
    ASSUME TypeInv, NEW news \in Seq(Event), Report(news)
    PROVE  /\ queue' \in Seq(Event) /\ Len(queue') <= MaxQueue + 1
           /\ overflowed' \in BOOLEAN /\ (overflowed => overflowed')
           /\ ~overflowed' => /\ ~overflowed
                              /\ ToSet(queue') = ToSet(queue) \cup ToSet(news)
           /\ \A e \in ToSet(queue') :
                 \/ e \in ToSet(queue) \cup ToSet(news)
                 \/ e.kind = "overflow" /\ e.wd = -1 /\ overflowed'
  <1> DEFINE room == MaxQueue - Len(queue)
             overflow == [kind |-> "overflow", wd |-> -1, name |-> "",
                          isdir |-> FALSE]
  <1>1. /\ queue \in Seq(Event) /\ Len(queue) \in Nat /\ Len(news) \in Nat
        /\ MaxQueue \in Nat /\ room \in Int /\ room + Len(queue) = MaxQueue
        /\ Len(queue) <= MaxQueue + 1
    BY WatchConstants DEF TypeInv
  <1>2. overflow \in Event
    BY OverflowType
  <1>3. overflow.kind = "overflow" /\ overflow.wd = -1
    OBVIOUS
  <1>4. \/ /\ Len(news) <= room
           /\ queue' = queue \o news /\ UNCHANGED overflowed
        \/ /\ ~(Len(news) <= room) /\ room < 0
           /\ queue' = queue /\ overflowed' = TRUE
        \/ /\ ~(Len(news) <= room) /\ ~(room < 0)
           /\ queue' = Append(queue \o SubSeq(news, 1, room), overflow)
           /\ overflowed' = TRUE
    BY DEF Report
  <1> HIDE DEF room, overflow
  <1>5. CASE Len(news) <= room /\ queue' = queue \o news /\ UNCHANGED overflowed
    <2>1. /\ queue' \in Seq(Event) /\ Len(queue') = Len(queue) + Len(news)
          /\ ToSet(queue') = ToSet(queue) \cup ToSet(news)
      BY <1>1, <1>5, ConcatElements
    <2> QED
      BY <1>1, <1>5, <2>1 DEF TypeInv
  <1>6. CASE queue' = queue /\ overflowed' = TRUE
    BY <1>1, <1>6
  <1>7. CASE /\ ~(Len(news) <= room) /\ ~(room < 0)
             /\ queue' = Append(queue \o SubSeq(news, 1, room), overflow)
             /\ overflowed' = TRUE
    <2> DEFINE cut == SubSeq(news, 1, room)
    <2>1. /\ cut \in Seq(Event) /\ Len(cut) = room
          /\ ToSet(cut) \subseteq ToSet(news)
      <3>1. room \in 0..Len(news)
        BY <1>1, <1>7
      <3> QED
        BY <3>1, PrefixElements
    <2>2. queue' = Append(queue \o cut, overflow)
      BY <1>7
    <2> DEFINE body == queue \o cut
    <2> HIDE DEF cut
    <2>3. /\ body \in Seq(Event)
          /\ Len(body) = Len(queue) + room
          /\ ToSet(body) = ToSet(queue) \cup ToSet(cut)
      BY <1>1, <2>1, ConcatElements
    <2> HIDE DEF body
    <2>4. /\ queue' \in Seq(Event)
          /\ Len(queue') = Len(body) + 1
          /\ ToSet(queue') = ToSet(body) \cup {overflow}
      <3>1. queue' = Append(body, overflow)
        BY <2>2 DEF body
      <3> QED
        BY <1>2, <2>3, <3>1, AppendElements
    <2>5. Len(queue') <= MaxQueue + 1
      BY <1>1, <2>3, <2>4
    <2>6. \A e \in ToSet(queue') :
             \/ e \in ToSet(queue) \cup ToSet(news)
             \/ e.kind = "overflow" /\ e.wd = -1 /\ overflowed'
      BY <1>3, <1>7, <2>1, <2>3, <2>4
    <2> QED
      BY <1>7, <2>4, <2>5, <2>6
  <1> QED
    BY <1>4, <1>5, <1>6, <1>7

LEMMA EmptyElements == ToSet(<< >>) = {}
  BY DEF ToSet

LEMMA SeenEvents ==
    ASSUME TypeInv, TableInv, NEW p \in Paths, p # << >>,
           NEW kind \in {"create", "delete"}, NEW isdir \in BOOLEAN
    PROVE  /\ Seen(kind, p, isdir) \in Seq(Event)
           /\ \A e \in ToSet(Seen(kind, p, isdir)) :
                 /\ e.kind = kind /\ e.name = Last(p) /\ (e.isdir <=> isdir)
                 /\ e.wd \in DOMAIN watches /\ watches[e.wd] = Parent(p)
           /\ Watching(Parent(p)) # {} => ToSet(Seen(kind, p, isdir)) # {}
  <1>1. CASE Watching(Parent(p)) = {}
    BY <1>1, EmptyElements DEF Seen
  <1>2. CASE Watching(Parent(p)) # {}
    <2>1. PICK wd \in Watching(Parent(p)) :
              Seen(kind, p, isdir) = <<[kind |-> kind, wd |-> wd, name |-> Last(p),
                                 isdir |-> isdir]>>
      BY <1>2 DEF Seen
    <2> DEFINE e == [kind |-> kind, wd |-> wd, name |-> Last(p),
                     isdir |-> isdir]
    <2>2. /\ wd \in DOMAIN watches /\ watches[wd] = Parent(p)
          /\ wd \in Int
      BY <2>1 DEF Watching, TableInv
    <2>3. e \in Event
      <3>1. Last(p) \in Names
        BY PathSplit
      <3>2. CASE isdir = TRUE
        <4>1. e = [kind |-> kind, wd |-> wd, name |-> Last(p), isdir |-> TRUE]
          BY <3>2
        <4> HIDE DEF e
        <4> QED
          BY <2>2, <3>1, <4>1, EventType
      <3>3. CASE isdir = FALSE
        <4>1. e = [kind |-> kind, wd |-> wd, name |-> Last(p), isdir |-> FALSE]
          BY <3>3
        <4> HIDE DEF e
        <4> QED
          BY <2>2, <3>1, <4>1, EventType
      <3> QED
        BY <3>2, <3>3
    <2>4. /\ e.kind = kind /\ e.name = Last(p) /\ (e.isdir <=> isdir)
          /\ e.wd = wd
      OBVIOUS
    <2>5. Seen(kind, p, isdir) = <<e>>
      BY <2>1
    <2> HIDE DEF e
    <2>6. <<e>> \in Seq(Event) /\ ToSet(<<e>>) = {e}
      BY <2>3 DEF ToSet
    <2> QED
      BY <2>2, <2>4, <2>5, <2>6
  <1> QED
    BY <1>1, <1>2

LEMMA SeenOf ==
    ASSUME TypeInv, TableInv, NEW p \in Paths, p # << >>
    PROVE  /\ Seen("delete", p, IsDir(p)) \in Seq(Event)
           /\ \A e \in ToSet(Seen("delete", p, IsDir(p))) : e.kind = "delete"
  <1>1. CASE IsDir(p)
    <2>1. IsDir(p) = TRUE
      BY <1>1 DEF IsDir
    <2> QED
      BY <2>1, SeenEvents, Zenon
  <1>2. CASE ~IsDir(p)
    <2>1. IsDir(p) = FALSE
      BY <1>2 DEF IsDir
    <2> QED
      BY <2>1, SeenEvents, Zenon
  <1> QED
    BY <1>1, <1>2

LEMMA SeenSelfEvents ==
    ASSUME TypeInv, TableInv, NEW p \in Paths
    PROVE  /\ SeenSelf(p) \in Seq(Event)
           /\ \A e \in ToSet(SeenSelf(p)) :
                 /\ e.kind \in {"delete_self", "ignored"}
                 /\ e.wd \in DOMAIN watches /\ watches[e.wd] = p
  <1>1. CASE Watching(p) = {}
    BY <1>1, EmptyElements DEF SeenSelf
  <1>2. CASE Watching(p) # {}
    <2>1. PICK wd \in Watching(p) :
              SeenSelf(p) =
                 <<[kind |-> "delete_self", wd |-> wd, name |-> "", isdir |-> FALSE],
                   [kind |-> "ignored", wd |-> wd, name |-> "", isdir |-> FALSE]>>
      BY <1>2 DEF SeenSelf
    <2> DEFINE e == [kind |-> "delete_self", wd |-> wd, name |-> "", isdir |-> FALSE]
               f == [kind |-> "ignored", wd |-> wd, name |-> "", isdir |-> FALSE]
    <2>2. /\ wd \in DOMAIN watches /\ watches[wd] = p
          /\ wd \in Int
      BY <2>1 DEF Watching, TableInv
    <2>3. e \in Event /\ f \in Event
      BY <2>2, EventType
    <2>4. e.kind = "delete_self" /\ e.wd = wd /\ f.kind = "ignored" /\ f.wd = wd
      OBVIOUS
    <2>5. SeenSelf(p) = <<e, f>>
      BY <2>1
    <2> HIDE DEF e, f
    <2>6. <<e, f>> \in Seq(Event) /\ ToSet(<<e, f>>) = {e, f}
      BY <2>3 DEF ToSet
    <2> QED
      BY <2>2, <2>4, <2>5, <2>6
  <1> QED
    BY <1>1, <1>2

-----------------------------------------------------------------------------
(* The stack of a scan *)

LEMMA StackParts ==
    ASSUME TypeInv, scan # << >>
    PROVE  /\ Top \in ScanFrame /\ Rest \in Seq(ScanFrame)
           /\ ToSet(scan) = ToSet(Rest) \cup {Top}
  BY FrontLast DEF TypeInv, Top, Rest, Last

LEMMA StackPush ==
    ASSUME NEW r \in Seq(ScanFrame), NEW f \in ScanFrame
    PROVE  /\ Append(r, f) \in Seq(ScanFrame)
           /\ ToSet(Append(r, f)) = ToSet(r) \cup {f}
  BY AppendElements

LEMMA NewFrame ==
    ASSUME NEW d \in Dirs, NEW r \in BOOLEAN, NEW q \in Dirs
    PROVE  /\ Frame(d, r, q) \in ScanFrame
           /\ Frame(d, r, q).dir = d /\ Frame(d, r, q).at = "start"
           /\ Frame(d, r, q).left = {}
  BY DEF Frame, ScanFrame

LEMMA OneFrame ==
    ASSUME NEW f \in ScanFrame
    PROVE  <<f>> \in Seq(ScanFrame) /\ ToSet(<<f>>) = {f}
  BY DEF ToSet

-----------------------------------------------------------------------------
(* The invariant holds initially, and every step preserves it *)

LEMMA QueueKept ==
    ASSUME QueueInv, Growing,
           \A e \in ToSet(queue') : e \in ToSet(queue) \/ EventInv(e)'
    PROVE  QueueInv'
  BY EventKept DEF QueueInv

LEMMA ScanKept ==
    ASSUME TypeInv, ScanInv, Growing,
           \A f \in ToSet(scan') : f \in ToSet(scan) \/ FrameInv(f)'
    PROVE  ScanInv'
  <1>1. ToSet(scan) \subseteq ScanFrame
    BY DEF TypeInv, ToSet
  <1> QED
    BY <1>1, FrameKept DEF ScanInv

LEMMA QueueTypes ==
    ASSUME TypeInv
    PROVE  ToSet(queue) \subseteq Event /\ ToSet(scan) \subseteq ScanFrame
  BY DEF TypeInv, ToSet

LEMMA WatchInit == Init => WatchInv
  <1> SUFFICES ASSUME Init PROVE WatchInv
    OBVIOUS
  <1> USE DEF Init
  <1>1. TypeInv
    <2>1. /\ watches \in [DOMAIN watches -> Dirs]
          /\ fdtable \in [DOMAIN fdtable -> Dirs]
          /\ reverse_fdtable \in [DOMAIN reverse_fdtable -> Int]
          /\ DOMAIN reverse_fdtable \subseteq Dirs
      BY DirsOnly
    <2>2. dirs \subseteq disk \cap Dirs /\ disk \ dirs \subseteq Files /\ << >> \in dirs
      OBVIOUS
    <2>3. /\ queue \in Seq(Event) /\ Len(queue) <= MaxQueue + 1
          /\ scan \in Seq(ScanFrame)
      BY WatchConstants
    <2> QED
      BY <2>1, <2>2, <2>3, DirsOnly DEF TypeInv
  <1>2. TableInv
    <2>1. /\ DOMAIN watches = {1} /\ watches[1] = << >>
          /\ DOMAIN fdtable = {1} /\ fdtable[1] = << >>
          /\ DOMAIN reverse_fdtable = {<< >>} /\ reverse_fdtable[<< >>] = 1
      OBVIOUS
    <2>2. << >> \in dirs /\ removed = {}
      OBVIOUS
    <2> QED
      BY <2>1, <2>2 DEF TableInv
  <1>3. QueueInv /\ ScanInv /\ ExploredInv
    BY EmptyElements DEF QueueInv, ScanInv, ExploredInv
  <1> QED
    BY <1>1, <1>2, <1>3 DEF WatchInv

LEMMA AppearStep ==
    ASSUME WatchInv, NEW p \in Paths \ {<< >>}, NEW isdir \in BOOLEAN,
           Appear(p, isdir)
    PROVE  WatchInv' /\ Growing
  <1> DEFINE news == Seen("create", p, isdir)
  <1>1. /\ UNCHANGED <<watches, fdtable, reverse_fdtable, listener, registered,
                       explored, mapped, scan, removed, unlinked, misread,
                       madeup, forgotten>>
        /\ disk' = disk \cup {p} /\ p \notin disk /\ IsDir(Parent(p))
        /\ dirs' = (IF isdir THEN dirs \cup {p} ELSE dirs)
        /\ p \in (IF isdir THEN Dirs ELSE Files)
        /\ Report(news)
    BY DEF Appear, Change, tables
  <1>2. TypeInv /\ TableInv
    BY DEF WatchInv
  <1>3. /\ news \in Seq(Event)
        /\ \A e \in ToSet(news) :
              /\ e.kind = "create" /\ e.name = Last(p) /\ (e.isdir <=> isdir)
              /\ e.wd \in DOMAIN watches /\ watches[e.wd] = Parent(p)
    BY <1>2, SeenEvents
  <1> HIDE DEF news
  <1>4. /\ queue' \in Seq(Event) /\ Len(queue') <= MaxQueue + 1
        /\ overflowed' \in BOOLEAN /\ (overflowed => overflowed')
        /\ \A e \in ToSet(queue') :
              \/ e \in ToSet(queue) \cup ToSet(news)
              \/ e.kind = "overflow"
    BY <1>1, <1>2, <1>3, Reported
  <1>5. Growing
    BY <1>1, <1>2, <1>4 DEF Growing, TypeInv
  <1>6. TypeInv'
    <2>1. /\ dirs' \subseteq disk' \cap Dirs /\ disk' \ dirs' \subseteq Files
          /\ << >> \in dirs'
      BY <1>1, <1>2 DEF TypeInv
    <2>2. \A q \in disk' \ {<< >>} : IsDir(Parent(q))'
      BY <1>1, <1>2 DEF TypeInv, IsDir
    <2> QED
      BY <1>1, <1>2, <1>4, <2>1, <2>2 DEF TypeInv
  <1>7. TableInv'
    BY <1>1, <1>2 DEF TableInv
  <1>8. QueueInv'
    <2>1. ASSUME NEW e \in ToSet(news) PROVE EventInv(e)'
      <3>1. /\ e.wd \in DOMAIN fdtable /\ e.wd # -1
            /\ fdtable[e.wd] = Parent(p)
        BY <1>2, <1>3, <2>1 DEF TableInv
      <3>2. Append(fdtable[e.wd], e.name) = p /\ e.name \in Names
        BY <1>3, <2>1, <3>1, PathSplit
      <3>3. p \in IF e.isdir THEN Dirs ELSE (disk' \ dirs') \cup unlinked'
        BY <1>1, <1>2, <1>3, <2>1 DEF TypeInv
      <3> QED
        BY <1>1, <1>3, <2>1, <3>1, <3>2, <3>3 DEF EventInv
    <2>2. ASSUME NEW e, e.kind = "overflow"
          PROVE  EventInv(e)'
      BY <2>2 DEF EventInv
    <2> QED
      BY <1>4, <1>5, <2>1, <2>2, QueueKept DEF WatchInv
  <1>9. ScanInv'
    BY <1>1, <1>2, <1>5, ScanKept DEF WatchInv
  <1>10. ExploredInv'
    BY <1>1 DEF ExploredInv, WatchInv
  <1> QED
    BY <1>5, <1>6, <1>7, <1>8, <1>9, <1>10 DEF WatchInv

LEMMA VanishStep ==
    ASSUME WatchInv, NEW p \in Paths \ {<< >>}, Vanish(p)
    PROVE  WatchInv' /\ Growing
  <1> DEFINE news == Seen("delete", p, IsDir(p)) \o SeenSelf(p)
  <1>1. /\ UNCHANGED <<fdtable, reverse_fdtable, listener, registered,
                       explored, mapped, scan, misread, madeup, forgotten>>
        /\ disk' = disk \ {p} /\ dirs' = dirs \ {p} /\ p \in disk /\ Below(p) = {}
        /\ Report(news)
        /\ watches' = [wd \in DOMAIN watches \ Watching(p) |-> watches[wd]]
        /\ removed' = removed \cup ({p} \cap dirs)
        /\ unlinked' = unlinked \cup ({p} \ dirs)
    BY DEF Vanish, Change, tables, IsDir
  <1>2. TypeInv /\ TableInv
    BY DEF WatchInv
  <1>3. /\ news \in Seq(Event)
        /\ \A e \in ToSet(news) : e.kind # "create"
    <2>1. /\ Seen("delete", p, IsDir(p)) \in Seq(Event)
          /\ \A e \in ToSet(Seen("delete", p, IsDir(p))) : e.kind = "delete"
      BY <1>2, SeenOf
    <2>2. /\ SeenSelf(p) \in Seq(Event)
          /\ \A e \in ToSet(SeenSelf(p)) : e.kind \in {"delete_self", "ignored"}
      BY <1>2, SeenSelfEvents
    <2>3. /\ news \in Seq(Event)
          /\ ToSet(news) = ToSet(Seen("delete", p, IsDir(p))) \cup ToSet(SeenSelf(p))
      BY <2>1, <2>2, ConcatElements
    <2> HIDE DEF news
    <2> QED
      BY <2>1, <2>2, <2>3
  <1> HIDE DEF news
  <1>4. /\ queue' \in Seq(Event) /\ Len(queue') <= MaxQueue + 1
        /\ overflowed' \in BOOLEAN /\ (overflowed => overflowed')
        /\ \A e \in ToSet(queue') :
              \/ e \in ToSet(queue) \cup ToSet(news)
              \/ e.kind = "overflow"
    BY <1>1, <1>2, <1>3, Reported
  <1>5. Growing
    BY <1>1, <1>2, <1>4 DEF Growing, TypeInv
  <1>6. TypeInv'
    <2>1. /\ dirs' \subseteq disk' \cap Dirs /\ disk' \ dirs' \subseteq Files
          /\ << >> \in dirs'
      BY <1>1, <1>2 DEF TypeInv
    <2>2. \A q \in disk' \ {<< >>} : IsDir(Parent(q))'
      BY <1>1, <1>2 DEF TypeInv, IsDir, Below
    <2>3. /\ watches' \in [DOMAIN watches' -> Dirs]
          /\ removed' \subseteq Dirs
          /\ unlinked' \subseteq Files
      BY <1>1, <1>2 DEF TypeInv
    <2> QED
      BY <1>1, <1>2, <1>4, <2>1, <2>2, <2>3 DEF TypeInv
  <1>7. TableInv'
    <2>1. /\ DOMAIN watches' \subseteq DOMAIN watches
          /\ \A wd \in DOMAIN watches' : /\ watches'[wd] = watches[wd]
                                         /\ watches[wd] # p
          /\ \A wd \in DOMAIN watches : watches[wd] # p => wd \in DOMAIN watches'
      BY <1>1 DEF Watching
    <2>2. \A d \in DOMAIN reverse_fdtable :
              \/ reverse_fdtable[d] = -1
              \/ d \in removed'
              \/ /\ reverse_fdtable[d] \in DOMAIN watches'
                 /\ watches'[reverse_fdtable[d]] = d
      BY <1>1, <1>2, <2>1 DEF TableInv, TypeInv
    <2>3. \A wd \in DOMAIN watches' :
              /\ wd \in DOMAIN fdtable /\ wd # -1
              /\ watches'[wd] \in dirs'
              /\ fdtable[wd] = watches'[wd]
      BY <1>1, <1>2, <2>1 DEF TableInv
    <2> QED
      BY <1>1, <1>2, <2>2, <2>3 DEF TableInv
  <1>8. QueueInv'
    <2>1. \A e \in ToSet(queue') : e \in ToSet(queue) \/ e.kind # "create"
      BY <1>3, <1>4
    <2>2. ASSUME NEW e, e.kind # "create" PROVE EventInv(e)'
      BY <2>2 DEF EventInv
    <2> QED
      BY <1>5, <2>1, <2>2, QueueKept DEF WatchInv
  <1>9. ScanInv'
    BY <1>1, <1>2, <1>5, ScanKept DEF WatchInv
  <1>10. ExploredInv'
    BY <1>1 DEF ExploredInv, WatchInv
  <1> QED
    BY <1>5, <1>6, <1>7, <1>8, <1>9, <1>10 DEF WatchInv

LEMMA WatchedStep ==
    ASSUME WatchInv, NEW d \in Dirs, d \in dirs, WatchDirectory(d),
           registered' = registered \cup {d},
           UNCHANGED <<disk, dirs, queue, listener, explored, mapped, removed,
                       unlinked, misread, madeup, forgotten, overflowed>>,
           scan' \in Seq(ScanFrame),
           Growing => \A f \in ToSet(scan') : f \in ToSet(scan) \/ FrameInv(f)'
    PROVE  WatchInv' /\ Growing
  <1>1. TypeInv /\ TableInv
    BY DEF WatchInv
  <1>2. /\ TableInv'
        /\ watches' \in [DOMAIN watches' -> Dirs]
        /\ fdtable' \in [DOMAIN fdtable' -> Dirs]
        /\ reverse_fdtable' \in [DOMAIN reverse_fdtable' -> Int]
        /\ DOMAIN reverse_fdtable' \subseteq Dirs
        /\ DOMAIN fdtable \subseteq DOMAIN fdtable'
        /\ \A wd \in DOMAIN fdtable \ {-1} : fdtable'[wd] = fdtable[wd]
        /\ DOMAIN reverse_fdtable' = DOMAIN reverse_fdtable \cup {d}
        /\ \A c \in DOMAIN reverse_fdtable :
              reverse_fdtable'[c] = reverse_fdtable[c]
    BY <1>1, WatchTables
  <1>3. Growing
    BY <1>2 DEF Growing
  <1>4. TypeInv'
    BY <1>1, <1>2 DEF TypeInv, IsDir
  <1>5. QueueInv' /\ ScanInv'
    BY <1>1, <1>3, QueueKept, ScanKept DEF WatchInv
  <1>6. ExploredInv'
    BY <1>2 DEF WatchInv, ExploredInv
  <1> QED
    BY <1>2, <1>3, <1>4, <1>5, <1>6 DEF WatchInv

\* A step that watches nothing and makes no event.
LEMMA QuietStep ==
    ASSUME WatchInv,
           UNCHANGED <<disk, dirs, watches, fdtable, reverse_fdtable, removed,
                       unlinked, forgotten, overflowed>>,
           registered \subseteq registered', registered' \subseteq Dirs,
           misread \subseteq misread', madeup \subseteq madeup',
           explored' \subseteq registered',
           explored' \ forgotten \subseteq DOMAIN reverse_fdtable \cup misread',
           mapped \subseteq mapped', mapped' \subseteq Paths,
           queue' \in Seq(Event), ToSet(queue') \subseteq ToSet(queue),
           Len(queue') <= Len(queue), listener' \in BOOLEAN,
           scan' \in Seq(ScanFrame),
           \A f \in ToSet(scan') : f \in ToSet(scan) \/ FrameInv(f)'
    PROVE  WatchInv' /\ Growing
  <1>1. TypeInv /\ TableInv
    BY DEF WatchInv
  <1>2. Growing
    BY DEF Growing
  <1>3. Len(queue') <= MaxQueue + 1
    BY <1>1, WatchConstants DEF TypeInv
  <1>4. TypeInv'
    BY <1>1, <1>3 DEF TypeInv, IsDir
  <1>5. TableInv'
    BY <1>1 DEF TableInv
  <1>6. QueueInv' /\ ScanInv'
    BY <1>1, <1>2, QueueKept, ScanKept DEF WatchInv
  <1>7. ExploredInv'
    BY DEF ExploredInv
  <1> QED
    BY <1>2, <1>4, <1>5, <1>6, <1>7 DEF WatchInv

\* What a step sees of the stack.
LEMMA StackTop ==
    ASSUME WatchInv, scan # << >>
    PROVE  \E t \in ScanFrame, r \in Seq(ScanFrame) :
              /\ t = Top /\ r = Rest /\ t \in ToSet(scan)
              /\ ToSet(r) \subseteq ToSet(scan) /\ FrameInv(t)
  <1>1. /\ Top \in ScanFrame /\ Rest \in Seq(ScanFrame)
        /\ ToSet(scan) = ToSet(Rest) \cup {Top}
    BY StackParts DEF WatchInv
  <1>2. FrameInv(Top)
    BY <1>1 DEF WatchInv, ScanInv
  <1> QED
    BY <1>1, <1>2

LEMMA QueueSame ==
    ASSUME WatchInv, UNCHANGED queue
    PROVE  /\ queue' \in Seq(Event) /\ ToSet(queue') \subseteq ToSet(queue)
           /\ Len(queue') <= Len(queue)
  BY DEF WatchInv, TypeInv

LEMMA EnterStep ==
    ASSUME WatchInv, Enter
    PROVE  WatchInv' /\ Growing
  <1>1. PICK t \in ScanFrame, r \in Seq(ScanFrame) :
            /\ t = Top /\ r = Rest /\ t \in ToSet(scan)
            /\ ToSet(r) \subseteq ToSet(scan) /\ FrameInv(t)
    BY StackTop DEF Enter, Arrive
  <1>2. /\ UNCHANGED <<disk, dirs, queue, listener, explored, mapped, removed, unlinked,
                       madeup, forgotten, overflowed>>
        /\ misread' = misread \cup ({t.dir} \cap (disk \ dirs))
        /\ \/ t.dir \in disk /\ scan' = Append(r, [t EXCEPT !.at = "entered"])
           \/ t.dir \notin disk /\ scan' = r
        /\ \/ /\ IsDir(t.dir) /\ WatchDirectory(t.dir)
              /\ registered' = registered \cup {t.dir}
           \/ /\ ~IsDir(t.dir)
              /\ UNCHANGED <<watches, fdtable, reverse_fdtable, registered>>
    BY <1>1 DEF Enter, Arrive, tree
  <1>3. CASE t.dir \in disk
    <2> DEFINE new == [t EXCEPT !.at = "entered"]
    <2>a. /\ new \in ScanFrame
          /\ new.dir = t.dir /\ new.left = t.left
      BY DEF ScanFrame
    <2>1. PICK f \in ScanFrame :
              f = new /\ f.dir = t.dir /\ f.left = t.left
      <3> HIDE DEF new
      <3> QED
        BY <2>a
    <2>2. scan' \in Seq(ScanFrame) /\ ToSet(scan') = ToSet(r) \cup {f}
      BY <1>2, <1>3, <2>1, StackPush
    <2>3. CASE IsDir(t.dir)
      <3>1. /\ t.dir \in Dirs /\ t.dir \in dirs /\ misread' = misread
            /\ WatchDirectory(t.dir) /\ registered' = registered \cup {t.dir}
        BY <1>2, <2>3 DEF IsDir, ScanFrame
      <3>2. t.dir \in DOMAIN reverse_fdtable'
        BY <1>2, <3>1, WatchTables DEF WatchInv
      <3>3. Growing => FrameInv(f)'
        <4>1. SUFFICES ASSUME Growing PROVE FrameInv(f)'
          OBVIOUS
        <4>2. FrameInv(t)'
          BY <1>1, <4>1, FrameKept
        <4> QED
          BY <1>2, <2>1, <3>1, <3>2, <4>2 DEF FrameInv
      <3> QED
        BY <1>1, <1>2, <2>2, <3>1, <3>3, WatchedStep
    <2>4. CASE ~IsDir(t.dir)
      <3>1. UNCHANGED <<watches, fdtable, reverse_fdtable, registered>>
        BY <1>2, <2>4
      <3>2. FrameInv(f)'
        BY <1>1, <1>2, <1>3, <2>1, <2>4, <3>1 DEF FrameInv, IsDir
      <3>3. /\ explored' \subseteq registered' /\ mapped' \subseteq Paths
            /\ explored' \ forgotten \subseteq DOMAIN reverse_fdtable \cup misread'
            /\ listener' \in BOOLEAN /\ registered' \subseteq Dirs
        BY <1>2, <3>1 DEF WatchInv, TypeInv, ExploredInv
      <3> QED
        BY <1>1, <1>2, <2>2, <3>1, <3>2, <3>3, QueueSame, QuietStep
    <2> QED
      BY <2>3, <2>4
  <1>4. CASE t.dir \notin disk
    <2>1. ~IsDir(t.dir) /\ scan' = r /\ misread' = misread
      BY <1>2, <1>4 DEF IsDir, WatchInv, TypeInv
    <2>2. UNCHANGED <<watches, fdtable, reverse_fdtable, registered>>
      BY <1>2, <2>1
    <2>3. /\ explored' \subseteq registered' /\ mapped' \subseteq Paths
          /\ explored' \ forgotten \subseteq DOMAIN reverse_fdtable \cup misread'
          /\ listener' \in BOOLEAN /\ registered' \subseteq Dirs
      BY <1>2, <2>2 DEF WatchInv, TypeInv, ExploredInv
    <2> QED
      BY <1>1, <1>2, <2>1, <2>2, <2>3, QueueSame, QuietStep
  <1> QED
    BY <1>3, <1>4

LEMMA OpenDirectoryStep ==
    ASSUME WatchInv, OpenDirectory
    PROVE  WatchInv' /\ Growing
  <1>1. PICK t \in ScanFrame, r \in Seq(ScanFrame) :
            /\ t = Top /\ r = Rest /\ t \in ToSet(scan)
            /\ ToSet(r) \subseteq ToSet(scan) /\ FrameInv(t)
    BY StackTop DEF OpenDirectory
  <1>2. /\ UNCHANGED <<disk, dirs, queue, watches, fdtable, reverse_fdtable, listener,
                       registered, explored, removed, unlinked, misread, madeup, forgotten,
                       overflowed>>
        /\ t.at = "entered"
        /\ \/ /\ IsDir(t.dir) /\ UNCHANGED mapped
              /\ scan' = Append(r, [t EXCEPT !.at = "reading",
                                             !.left = Below(t.dir)])
           \/ scan' = r /\ mapped' = mapped \cup {t.dir}
    BY <1>1 DEF OpenDirectory, history, inotify, tree
  <1>3. /\ explored' \subseteq registered' /\ registered' \subseteq Dirs
        /\ mapped' \subseteq Paths
        /\ explored' \ forgotten \subseteq DOMAIN reverse_fdtable \cup misread'
        /\ listener' \in BOOLEAN /\ mapped \subseteq mapped'
    BY <1>2, DirsOnly DEF WatchInv, TypeInv, ExploredInv, ScanFrame
  <1>4. ASSUME NEW f \in ScanFrame,
               f = [t EXCEPT !.at = "reading", !.left = Below(t.dir)]
        PROVE  FrameInv(f)'
    <2>1. f.dir = t.dir /\ f.left \subseteq disk
      BY <1>4 DEF Below, ScanFrame
    <2> QED
      BY <1>1, <1>2, <2>1 DEF FrameInv
  <1>5. scan' \in Seq(ScanFrame)
        /\ \A f \in ToSet(scan') : f \in ToSet(scan) \/ FrameInv(f)'
    <2>1. CASE scan' = r
      BY <1>1, <2>1
    <2>2. CASE scan' = Append(r, [t EXCEPT !.at = "reading",
                                           !.left = Below(t.dir)])
      <3>1. Below(t.dir) \subseteq Paths
        BY DEF Below, WatchInv, TypeInv, Paths
      <3>2. PICK f \in ScanFrame :
                f = [t EXCEPT !.at = "reading", !.left = Below(t.dir)]
        BY <3>1 DEF ScanFrame
      <3>3. scan' \in Seq(ScanFrame) /\ ToSet(scan') = ToSet(r) \cup {f}
        BY <2>2, <3>2, StackPush
      <3> QED
        BY <1>1, <1>4, <3>2, <3>3
    <2> QED
      BY <1>2, <2>1, <2>2
  <1> QED
    BY <1>2, <1>3, <1>5, QueueSame, QuietStep

LEMMA TakeEntryStep ==
    ASSUME WatchInv, NEW p \in Paths, TakeEntry(p)
    PROVE  WatchInv' /\ Growing
  <1>1. PICK t \in ScanFrame, r \in Seq(ScanFrame) :
            /\ t = Top /\ r = Rest /\ t \in ToSet(scan)
            /\ ToSet(r) \subseteq ToSet(scan) /\ FrameInv(t)
    BY StackTop DEF TakeEntry
  <1> DEFINE new == [t EXCEPT !.left = @ \ {p}]
  <1>a. /\ new \in ScanFrame
        /\ new.dir = t.dir /\ new.at = t.at /\ new.left = t.left \ {p}
    BY DEF ScanFrame
  <1>2. PICK f \in ScanFrame :
            f = new /\ f.dir = t.dir /\ f.at = t.at /\ f.left = t.left \ {p}
    <2> HIDE DEF new
    <2> QED
      BY <1>a
  <1>3. /\ Append(r, f) \in Seq(ScanFrame)
        /\ ToSet(Append(r, f)) = ToSet(r) \cup {f}
    BY StackPush
  <1>4. PICK outer \in Seq(ScanFrame) :
            outer = Append(r, f) /\ ToSet(outer) = ToSet(r) \cup {f}
    BY <1>3
  <1>5. /\ UNCHANGED <<disk, dirs, queue, listener, explored, removed, unlinked, misread,
                       madeup, forgotten, overflowed>>
        /\ \/ /\ IsDir(p) /\ WatchDirectory(p) /\ UNCHANGED mapped
              /\ registered' = registered \cup {p}
              /\ \/ scan' = outer
                 \/ scan' = Append(outer, Frame(p, FALSE, t.search))
           \/ /\ UNCHANGED <<watches, fdtable, reverse_fdtable, registered>>
              /\ mapped' = mapped \cup {p} /\ scan' = outer
    BY <1>1, <1>2, <1>4 DEF TakeEntry, history, tree
  <1>6. Growing => FrameInv(f)'
    <2>1. SUFFICES ASSUME Growing PROVE FrameInv(f)'
      OBVIOUS
    <2>2. FrameInv(t)'
      BY <1>1, <2>1, FrameKept
    <2> QED
      BY <1>2, <2>2 DEF FrameInv
  <1>7. CASE /\ IsDir(p) /\ WatchDirectory(p) /\ UNCHANGED mapped
             /\ registered' = registered \cup {p}
             /\ \/ scan' = outer
                \/ scan' = Append(outer, Frame(p, FALSE, t.search))
    <2>1. p \in Dirs /\ p \in dirs
      BY <1>7 DEF IsDir, WatchInv, TypeInv
    <2>2. CASE scan' = outer
      BY <1>1, <1>4, <1>5, <1>6, <1>7, <2>1, <2>2, WatchedStep
    <2>3. CASE scan' = Append(outer, Frame(p, FALSE, t.search))
      <3>1. PICK g \in ScanFrame :
                g = Frame(p, FALSE, t.search) /\ g.at = "start" /\ g.left = {}
        BY <2>1, NewFrame DEF ScanFrame
      <3>2. scan' \in Seq(ScanFrame) /\ ToSet(scan') = ToSet(outer) \cup {g}
        BY <2>3, <3>1, StackPush
      <3>3. FrameInv(g)'
        BY <3>1 DEF FrameInv
      <3> QED
        BY <1>1, <1>4, <1>5, <1>6, <1>7, <2>1, <3>2, <3>3, WatchedStep
    <2> QED
      BY <1>7, <2>2, <2>3
  <1>8. CASE /\ UNCHANGED <<watches, fdtable, reverse_fdtable, registered>>
             /\ mapped' = mapped \cup {p} /\ scan' = outer
    <2>1. /\ explored' \subseteq registered' /\ registered' \subseteq Dirs
        /\ mapped' \subseteq Paths
          /\ explored' \ forgotten \subseteq DOMAIN reverse_fdtable \cup misread'
          /\ listener' \in BOOLEAN /\ mapped \subseteq mapped'
      BY <1>5, <1>8 DEF WatchInv, TypeInv, ExploredInv
    <2>2. FrameInv(f)'
      BY <1>1, <1>2, <1>5, <1>8 DEF FrameInv
    <2> QED
      BY <1>1, <1>4, <1>5, <1>8, <2>1, <2>2, QueueSame, QuietStep
  <1> QED
    BY <1>5, <1>7, <1>8

LEMMA CloseDirectoryStep ==
    ASSUME WatchInv, CloseDirectory
    PROVE  WatchInv' /\ Growing
  <1>1. PICK t \in ScanFrame, r \in Seq(ScanFrame) :
            /\ t = Top /\ r = Rest /\ t \in ToSet(scan)
            /\ ToSet(r) \subseteq ToSet(scan) /\ FrameInv(t)
    BY StackTop DEF CloseDirectory
  <1>2. /\ UNCHANGED <<disk, dirs, queue, watches, fdtable, reverse_fdtable, listener,
                       mapped, removed, unlinked, misread, madeup, forgotten,
                       overflowed>>
        /\ explored' = explored \cup {t.dir} /\ scan' = r
        /\ registered' = registered \cup {t.dir} /\ t.at = "reading"
    BY <1>1 DEF CloseDirectory, history, inotify, tree
  <1>3. /\ explored' \subseteq registered' /\ registered' \subseteq Dirs
        /\ mapped' \subseteq Paths
        /\ explored' \ forgotten \subseteq DOMAIN reverse_fdtable \cup misread'
        /\ listener' \in BOOLEAN
    BY <1>1, <1>2 DEF WatchInv, TypeInv, ExploredInv, FrameInv, ScanFrame
  <1> QED
    BY <1>1, <1>2, <1>3, QueueSame, QuietStep

LEMMA LookupStep ==
    ASSUME WatchInv, NEW d \in Dirs, Lookup(d)
    PROVE  WatchInv' /\ Growing
  <1>1. PICK r \in Dirs : scan' = <<Frame(r, FALSE, d)>>
    BY DEF Lookup, WatchInv, TypeInv
  <1>2. UNCHANGED <<disk, dirs, queue, watches, fdtable, reverse_fdtable, listener,
                    registered, explored, mapped, removed, unlinked,
                    misread, madeup, forgotten, overflowed>>
    BY DEF Lookup, history, inotify, tables, tree
  <1>3. PICK g \in ScanFrame :
            g = Frame(r, FALSE, d) /\ g.at = "start" /\ g.left = {}
    BY NewFrame
  <1>4. scan' \in Seq(ScanFrame) /\ ToSet(scan') = {g} /\ FrameInv(g)'
    BY <1>1, <1>3, OneFrame DEF FrameInv
  <1>5. /\ explored' \subseteq registered' /\ registered' \subseteq Dirs
        /\ mapped' \subseteq Paths
        /\ explored' \ forgotten \subseteq DOMAIN reverse_fdtable \cup misread'
        /\ listener' \in BOOLEAN
    BY <1>2 DEF WatchInv, TypeInv, ExploredInv
  <1> QED
    BY <1>2, <1>4, <1>5, QueueSame, QuietStep

LEMMA QueueTail ==
    ASSUME WatchInv, NEW e, TakeEvent(e)
    PROVE  /\ e \in Event /\ EventInv(e) /\ e \in ToSet(queue)
           /\ queue' \in Seq(Event) /\ ToSet(queue') \subseteq ToSet(queue)
           /\ Len(queue') <= Len(queue)
           /\ ToSet(queue) = {e} \cup ToSet(queue')
           /\ UNCHANGED <<disk, dirs, watches, fdtable, reverse_fdtable, listener,
                          registered, explored, removed, unlinked, misread, forgotten,
                          overflowed>>
           /\ scan = << >>
  <1>1. queue # << >> /\ queue \in Seq(Event) /\ e = Head(queue)
        /\ queue' = Tail(queue)
    BY DEF TakeEvent, WatchInv, TypeInv
  <1>2. /\ e \in Event /\ queue' \in Seq(Event)
        /\ ToSet(queue) = {e} \cup ToSet(queue')
    BY <1>1, HeadTail
  <1>3. Len(queue') <= Len(queue)
    BY <1>1
  <1>4. EventInv(e)
    BY <1>2 DEF WatchInv, QueueInv
  <1>5. UNCHANGED <<disk, dirs, watches, fdtable, reverse_fdtable, listener,
                          registered, explored, removed, unlinked, misread, forgotten,
                          overflowed>>
        /\ scan = << >>
    BY DEF TakeEvent, history, tree
  <1> QED
    BY <1>2, <1>3, <1>4, <1>5

\* An event that is taken changes no more than read_mappings and the scan.
LEMMA TakenStep ==
    ASSUME WatchInv, NEW e, TakeEvent(e),
           mapped \subseteq mapped', mapped' \subseteq Paths,
           madeup \subseteq madeup',
           scan' \in Seq(ScanFrame),
           \A f \in ToSet(scan') : FrameInv(f)'
    PROVE  WatchInv' /\ Growing
  <1>1. /\ queue' \in Seq(Event) /\ ToSet(queue') \subseteq ToSet(queue)
        /\ Len(queue') <= Len(queue)
        /\ UNCHANGED <<disk, dirs, watches, fdtable, reverse_fdtable, listener,
                          registered, explored, removed, unlinked, misread, forgotten,
                          overflowed>>
    BY QueueTail
  <1>2. /\ explored' \subseteq registered' /\ registered' \subseteq Dirs
        /\ listener' \in BOOLEAN
        /\ explored' \ forgotten \subseteq DOMAIN reverse_fdtable \cup misread'
    BY <1>1 DEF WatchInv, TypeInv, ExploredInv
  <1> QED
    BY <1>1, <1>2, QuietStep

\* What a creation announces.
LEMMA Announcement ==
    ASSUME WatchInv, NEW e, TakeEvent(e), e.kind = "create"
    PROVE  /\ PathOf(e.wd) \in Dirs /\ e.name \in Names
           /\ e.isdir => Append(PathOf(e.wd), e.name) \in Dirs
           /\ ~e.isdir => Append(PathOf(e.wd), e.name) \in
                             Files \cap ((disk \ dirs) \cup unlinked)
  <1>1. EventInv(e)
    BY QueueTail
  <1>2. e.wd \in DOMAIN fdtable /\ PathOf(e.wd) = fdtable[e.wd]
    BY <1>1 DEF EventInv, PathOf
  <1> QED
    BY <1>1, <1>2 DEF EventInv, WatchInv, TypeInv

LEMMA HearDirectoryStep ==
    ASSUME WatchInv, NEW e, HearDirectory(e)
    PROVE  WatchInv' /\ Growing
  <1>1. PICK d \in Dirs : scan' = <<Frame(d, TRUE, << >>)>>
    <2>1. Append(PathOf(e.wd), e.name) \in Dirs
      BY Announcement DEF HearDirectory
    <2> QED
      BY <2>1 DEF HearDirectory
  <1>2. PICK g \in ScanFrame :
            g = Frame(d, TRUE, << >>) /\ g.at = "start" /\ g.left = {}
    BY NewFrame, DirsOnly
  <1>3. scan' \in Seq(ScanFrame) /\ ToSet(scan') = {g} /\ FrameInv(g)'
    BY <1>1, <1>2, OneFrame DEF FrameInv
  <1>4. mapped' = mapped /\ mapped \subseteq Paths /\ TakeEvent(e)
        /\ madeup' = madeup
    BY DEF HearDirectory, WatchInv, TypeInv
  <1> QED
    BY <1>3, <1>4, TakenStep

LEMMA NoScan ==
    ASSUME WatchInv, NEW e, TakeEvent(e), UNCHANGED scan
    PROVE  scan' \in Seq(ScanFrame) /\ \A f \in ToSet(scan') : FrameInv(f)'
  <1>1. scan' = << >>
    BY DEF TakeEvent
  <1> QED
    BY <1>1, EmptyElements

LEMMA HearFileStep ==
    ASSUME WatchInv, NEW e, HearFile(e)
    PROVE  WatchInv' /\ Growing
  <1>1. Append(PathOf(e.wd), e.name) \in Files
    BY Announcement DEF HearFile
  <1>2. mapped \subseteq mapped' /\ mapped' \subseteq Paths
    BY <1>1 DEF HearFile, WatchInv, TypeInv, Paths
  <1>3. TakeEvent(e) /\ UNCHANGED <<scan, madeup>>
    BY DEF HearFile
  <1> QED
    BY <1>2, <1>3, NoScan, TakenStep

LEMMA HearDeletionStep ==
    ASSUME WatchInv, NEW e, HearDeletion(e)
    PROVE  WatchInv' /\ Growing
  <1>1. TakeEvent(e) /\ UNCHANGED <<scan, mapped, madeup>>
    BY DEF HearDeletion
  <1>2. mapped \subseteq Paths
    BY DEF WatchInv, TypeInv
  <1> QED
    BY <1>1, <1>2, NoScan, TakenStep

LEMMA HearOtherStep ==
    ASSUME WatchInv, NEW e, HearOther(e)
    PROVE  WatchInv' /\ Growing
  <1>1. TakeEvent(e) /\ UNCHANGED scan
    BY DEF HearOther
  <1>2. /\ mapped \subseteq mapped' /\ mapped' \subseteq Paths
        /\ madeup \subseteq madeup'
    BY DEF HearOther, WatchInv, TypeInv, Paths
  <1> QED
    BY <1>1, <1>2, NoScan, TakenStep

LEMMA ForkStep ==
    ASSUME WatchInv, Fork
    PROVE  WatchInv' /\ Growing
  <1>1. UNCHANGED <<disk, dirs, queue, watches, fdtable, reverse_fdtable, scan,
                    registered, explored, mapped, removed, unlinked,
                    misread, madeup, forgotten, overflowed>>
        /\ listener' \in BOOLEAN
    BY DEF Fork, history, inotify, tables, tree
  <1>2. /\ explored' \subseteq registered' /\ registered' \subseteq Dirs
        /\ mapped' \subseteq Paths
        /\ explored' \ forgotten \subseteq DOMAIN reverse_fdtable \cup misread'
        /\ scan' \in Seq(ScanFrame)
    BY <1>1 DEF WatchInv, TypeInv, ExploredInv
  <1> QED
    BY <1>1, <1>2, QueueSame, QuietStep

LEMMA SetsidStep ==
    ASSUME WatchInv, Setsid
    PROVE  WatchInv'
  <1>1. /\ UNCHANGED <<disk, dirs, registered, explored, mapped, removed, unlinked,
                       overflowed>>
        /\ scan' = << >> /\ queue' = << >> /\ listener' = TRUE
        /\ forgotten' = explored
    BY DEF Setsid, tables, tree
  <1>2. /\ DOMAIN watches' = {1} /\ watches'[1] = << >>
        /\ DOMAIN fdtable' = {1} /\ fdtable'[1] = << >>
        /\ DOMAIN reverse_fdtable' = {<< >>} /\ reverse_fdtable'[<< >>] = 1
    BY DEF Setsid
  <1>3. TypeInv'
    <2>1. /\ watches' \in [DOMAIN watches' -> Dirs]
          /\ fdtable' \in [DOMAIN fdtable' -> Dirs]
          /\ reverse_fdtable' \in [DOMAIN reverse_fdtable' -> Int]
          /\ DOMAIN reverse_fdtable' \subseteq Dirs
      BY DirsOnly DEF Setsid
    <2>2. /\ queue' \in Seq(Event) /\ Len(queue') <= MaxQueue + 1
          /\ scan' \in Seq(ScanFrame)
      BY <1>1, WatchConstants
    <2> QED
      BY <1>1, <2>1, <2>2 DEF WatchInv, TypeInv, IsDir
  <1>4. TableInv'
    <2>1. << >> \in dirs' /\ << >> \notin removed'
      BY <1>1 DEF WatchInv, TypeInv, TableInv
    <2> QED
      BY <1>2, <2>1 DEF TableInv
  <1>5. QueueInv' /\ ScanInv' /\ ExploredInv'
    BY <1>1, EmptyElements DEF QueueInv, ScanInv, ExploredInv
  <1> QED
    BY <1>3, <1>4, <1>5 DEF WatchInv

LEMMA WatchNext ==
    ASSUME WatchInv, [Next]_vars
    PROVE  WatchInv' /\ (Growing \/ Setsid)
  <1>1. ASSUME NEW p \in (Dirs \cup Files) \ {<< >>}, NEW isdir \in BOOLEAN,
               Appear(p, isdir) \/ Vanish(p)
        PROVE  WatchInv' /\ Growing
    BY <1>1, AppearStep, VanishStep DEF Paths
  <1>2. CASE Scan
    <2>1. ASSUME NEW p \in Dirs \cup Files, TakeEntry(p)
          PROVE  WatchInv' /\ Growing
      BY <2>1, TakeEntryStep DEF Paths
    <2> QED
      BY <1>2, <2>1, EnterStep, OpenDirectoryStep, CloseDirectoryStep DEF Scan
  <1>3. CASE Listen
    BY <1>3, HearDirectoryStep, HearFileStep, HearDeletionStep, HearOtherStep
       DEF Listen
  <1>4. CASE Setsid
    BY <1>4, SetsidStep
  <1>5. CASE UNCHANGED vars
    <2>1. UNCHANGED <<disk, dirs, queue, watches, fdtable, reverse_fdtable, listener,
                      scan, registered, explored, mapped, removed, unlinked,
                      misread, madeup, forgotten, overflowed>>
      BY <1>5 DEF vars, inotify, tables, history, tree
    <2>2. /\ explored' \subseteq registered' /\ registered' \subseteq Dirs
        /\ mapped' \subseteq Paths
          /\ explored' \ forgotten \subseteq DOMAIN reverse_fdtable \cup misread'
          /\ listener' \in BOOLEAN /\ scan' \in Seq(ScanFrame)
      BY <2>1 DEF WatchInv, TypeInv, ExploredInv
    <2> QED
      BY <2>1, <2>2, QueueSame, QuietStep
  <1> QED
    BY <1>1, <1>2, <1>3, <1>4, <1>5, LookupStep, ForkStep DEF Next

\* The tables, the stack of scans and the queue agree in every state: what
\* reverse_fdtable has was refused, removed or is watched, what a scan has
\* entered is registered and has its entry there (winevfs_watch_directory),
\* and an event's descriptor leads to the directory it tells of.
THEOREM WatchInvariant == Spec => []WatchInv
  <1>1. WatchInv /\ [Next]_vars => WatchInv'
    BY WatchNext
  <1> QED
    BY <1>1, WatchInit, PTL DEF Spec

\* A descriptor that the kernel knows leads fdtable to its directory, and that
\* directory is there; what is explored is registered; the queue keeps its limit.
THEOREM WatchesTypes == Spec => []TypeOK
  <1>1. WatchInv => TypeOK
    BY DEF WatchInv, TypeInv, TableInv, TypeOK, Paths
  <1> QED
    BY <1>1, WatchInvariant, PTL

-----------------------------------------------------------------------------
(* Folders are not mapped as files *)

\* What is mapped, or was opened unwatched, is a file, or has been one, or is a
\* directory that was removed once, or was named by an event of neither kind.
Accounted == (disk \ dirs) \cup unlinked \cup removed \cup madeup

MappedInv == mapped \cup misread \subseteq Accounted

LEMMA AccountedKept ==
    ASSUME Growing
    PROVE  Accounted \subseteq Accounted'
  BY DEF Growing, Accounted

LEMMA MappedNext ==
    ASSUME WatchInv, MappedInv, [Next]_vars
    PROVE  MappedInv'
  <1>1. Growing \/ Setsid
    BY WatchNext
  <1>2. ASSUME Growing, UNCHANGED <<mapped, misread>>
        PROVE  MappedInv'
    BY <1>2, AccountedKept DEF MappedInv
  <1>3. ASSUME Growing, NEW p \in Accounted',
               mapped' \subseteq mapped \cup {p}, misread' = misread
        PROVE  MappedInv'
    BY <1>3, AccountedKept DEF MappedInv
  <1>4. CASE Enter
    <2>1. misread' = misread \cup ({Top.dir} \cap (disk \ dirs)) /\ UNCHANGED <<disk, dirs>>
          /\ mapped' = mapped
      BY <1>4 DEF Enter, Arrive, tree
    <2> QED
      BY <1>4, <2>1, AccountedKept, EnterStep DEF MappedInv, Accounted
  <1>5. CASE OpenDirectory
    <2>1. PICK t \in ScanFrame, r \in Seq(ScanFrame) :
              /\ t = Top /\ r = Rest /\ t \in ToSet(scan)
              /\ ToSet(r) \subseteq ToSet(scan) /\ FrameInv(t)
      BY <1>5, StackTop DEF OpenDirectory
    <2>2. /\ t.at = "entered"
          /\ misread' = misread /\ mapped' \subseteq mapped \cup {t.dir}
          /\ IsDir(t.dir) => mapped' = mapped
      BY <1>5, <2>1 DEF OpenDirectory, history
    <2>3. ~IsDir(t.dir) => t.dir \in Accounted
      BY <2>1, <2>2 DEF FrameInv, IsDir, MappedInv, Accounted
    <2>4. Growing
      BY <1>5, OpenDirectoryStep
    <2> QED
      BY <1>2, <1>3, <2>2, <2>3, <2>4, AccountedKept
  <1>6. ASSUME NEW p \in Dirs \cup Files, TakeEntry(p)
        PROVE  MappedInv'
    <2>1. PICK t \in ScanFrame, r \in Seq(ScanFrame) :
              /\ t = Top /\ r = Rest /\ t \in ToSet(scan)
              /\ ToSet(r) \subseteq ToSet(scan) /\ FrameInv(t)
      BY <1>6, StackTop DEF TakeEntry
    <2>2. /\ p \in t.left
          /\ misread' = misread /\ mapped' \subseteq mapped \cup {p}
          /\ IsDir(p) => mapped' = mapped
      BY <1>6, <2>1 DEF TakeEntry, history
    <2>3. ~IsDir(p) => p \in Accounted
      BY <2>1, <2>2 DEF FrameInv, IsDir, Accounted
    <2>4. Growing
      BY <1>6, TakeEntryStep DEF Paths
    <2> QED
      BY <1>2, <1>3, <2>2, <2>3, <2>4, AccountedKept
  <1>7. ASSUME NEW e, HearFile(e)
        PROVE  MappedInv'
    <2> DEFINE p == Append(PathOf(e.wd), e.name)
    <2>1. mapped' = mapped \cup {p} /\ misread' = misread /\ ~e.isdir
          /\ TakeEvent(e) /\ e.kind = "create"
      BY <1>7 DEF HearFile, TakeEvent
    <2>2. p \in (disk \ dirs) \cup unlinked
      BY <2>1, Announcement
    <2> HIDE DEF p
    <2>3. Growing
      BY <1>7, HearFileStep
    <2> QED
      BY <1>3, <2>1, <2>2, <2>3, AccountedKept DEF Accounted
  <1>8. ASSUME NEW e, HearOther(e)
        PROVE  MappedInv'
    <2>1. misread' = misread /\ mapped' \subseteq mapped \cup madeup'
      BY <1>8 DEF HearOther, TakeEvent
    <2> QED
      BY <1>8, <2>1, HearOtherStep, AccountedKept DEF MappedInv, Accounted
  <1>9. CASE Scan
    <2>1. CASE CloseDirectory
      BY <1>2, <2>1, CloseDirectoryStep DEF CloseDirectory, history
    <2> QED
      BY <1>4, <1>5, <1>6, <1>9, <2>1 DEF Scan
  <1>10. CASE Listen
    <2>1. ASSUME NEW e, HearDirectory(e) \/ HearDeletion(e)
          PROVE  UNCHANGED <<mapped, misread>> /\ Growing
      BY <2>1, HearDirectoryStep, HearDeletionStep
         DEF HearDirectory, HearDeletion, TakeEvent
    <2> QED
      BY <1>2, <1>7, <1>8, <1>10, <2>1 DEF Listen
  <1>11. CASE Setsid
    BY <1>11 DEF Setsid, MappedInv, Accounted, tables, tree
  <1>12. ASSUME NEW p, NEW isdir, Appear(p, isdir) \/ Vanish(p)
         PROVE  UNCHANGED <<mapped, misread>>
    BY <1>12 DEF Appear, Vanish, Change, tables
  <1>13. ASSUME Fork \/ UNCHANGED vars \/ \E d \in Dirs : Lookup(d)
         PROVE  UNCHANGED <<mapped, misread>>
    BY <1>13 DEF Fork, Lookup, vars, tables, history
  <1> QED
    BY <1>1, <1>2, <1>9, <1>10, <1>11, <1>12, <1>13 DEF Next

\* A directory is a file of read_mappings only if it took the place of a directory
\* that was removed (vfs.cpp:531) or of a file (vfs.cpp:574, vfs.cpp:937), or was
\* named by an event of neither kind (inotify.cpp:23, inotify.cpp:44).
THEOREM FolderNotMappedTheorem == Spec => []FolderNotMapped
  <1>1. Init => MappedInv
    BY DEF Init, MappedInv
  <1>2. WatchInv /\ MappedInv /\ [Next]_vars => MappedInv'
    BY MappedNext
  <1>3. MappedInv => FolderNotMapped
    BY DEF MappedInv, Accounted, FolderNotMapped
  <1> QED
    BY <1>1, <1>2, <1>3, WatchInvariant, PTL DEF Spec

-----------------------------------------------------------------------------
(* Nothing is missed *)

\* That event e makes p known.
Announces(e, p) ==
    /\ e.kind = "create" /\ (e.isdir <=> IsDir(p))
    /\ PathOf(e.wd) = Parent(p) /\ e.name = Last(p)

LEMMA AnnouncedIs ==
    ASSUME WatchInv, WatchInv', NEW p
    PROVE  /\ Announced(p) <=> \E e \in ToSet(queue) : Announces(e, p)
           /\ Announced(p)' <=> \E e \in ToSet(queue') : Announces(e, p)'
  <1>1. DOMAIN queue = 1..Len(queue) /\ DOMAIN queue' = 1..Len(queue')
    BY DEF WatchInv, TypeInv
  <1>2. Announced(p) <=> \E e \in ToSet(queue) : Announces(e, p)
    BY <1>1 DEF Announced, Announces, ToSet
  <1>3. Announced(p)' <=> \E e \in ToSet(queue') : Announces(e, p)'
    BY <1>1 DEF Announced, Announces, ToSet
  <1> QED
    BY <1>2, <1>3

LEMMA HeardKept ==
    ASSUME WatchInv, WatchInv', Growing, NEW p \in disk \cap disk', Heard(p),
           \A e \in ToSet(queue) :
              Announces(e, p) => e \in ToSet(queue') \/ Heard(p)',
           \A f \in ToSet(scan) :
              Opening(f, p) => f \in ToSet(scan') \/ Known(p)'
    PROVE  Heard(p)'
  <1>a. IsDir(p)' <=> IsDir(p)
    BY DEF Growing, IsDir
  <1>1. CASE Known(p)
    BY <1>1, <1>a DEF Known, Growing, Heard
  <1>2. CASE Announced(p)
    <2>1. PICK e \in ToSet(queue) : Announces(e, p)
      BY <1>2, AnnouncedIs
    <2>2. CASE e \in ToSet(queue')
      <3>1. EventInv(e)
        BY DEF WatchInv, QueueInv
      <3>2. Announces(e, p)'
        BY <1>a, <2>1, <3>1 DEF Announces, EventInv, PathOf, Growing
      <3> QED
        BY <2>2, <3>2, AnnouncedIs DEF Heard
    <2> QED
      BY <2>1, <2>2
  <1>3. CASE Pending(p)
    BY <1>3, <1>a DEF Pending, Opening, Heard
  <1> QED
    BY <1>1, <1>2, <1>3 DEF Heard

LEMMA LostKept ==
    ASSUME Growing, NEW d, Lost(d)
    PROVE  Lost(d)'
  BY DEF Growing, Lost

\* A step that neither makes paths, nor opens or closes a directory.
LEMMA CoverKept ==
    ASSUME WatchInv, CoverInv, Growing, disk' \subseteq disk,
           explored' = explored,
           \A f \in ToSet(scan') : f.at = "reading" => f \in ToSet(scan),
           \A p \in disk' \ {<< >>} : ~overflowed' /\ Heard(p) => Heard(p)'
    PROVE  CoverInv'
  <1> SUFFICES ASSUME ~overflowed', NEW p \in disk' \ {<< >>},
                      ~Lost(Parent(p))'
               PROVE  /\ Parent(p) \in explored' \ forgotten' => Heard(p)'
                      /\ \A f \in ToSet(scan') :
                            f.at = "reading" /\ f.dir = Parent(p)
                               => p \in f.left \/ Heard(p)'
    BY DEF CoverInv
  <1>1. ~overflowed /\ p \in disk \ {<< >>} /\ ~Lost(Parent(p))
        /\ forgotten' = forgotten
    BY LostKept DEF Growing
  <1>2. /\ Parent(p) \in explored \ forgotten => Heard(p)
        /\ \A f \in ToSet(scan) :
              f.at = "reading" /\ f.dir = Parent(p) => p \in f.left \/ Heard(p)
    BY <1>1 DEF CoverInv
  <1> QED
    BY <1>1, <1>2

LEMMA AppearCover ==
    ASSUME WatchInv, CoverInv, NEW p \in Paths \ {<< >>}, NEW isdir \in BOOLEAN,
           Appear(p, isdir)
    PROVE  CoverInv'
  <1>1. WatchInv' /\ Growing
    BY AppearStep
  <1>2. /\ UNCHANGED <<watches, fdtable, reverse_fdtable, explored, scan>>
        /\ disk' = disk \cup {p} /\ p \notin disk
        /\ dirs' = (IF isdir THEN dirs \cup {p} ELSE dirs)
        /\ Report(Seen("create", p, isdir))
    BY DEF Appear, Change, tables
  <1>3. TypeInv /\ TableInv
    BY DEF WatchInv
  <1>4. /\ Seen("create", p, isdir) \in Seq(Event)
        /\ \A e \in ToSet(Seen("create", p, isdir)) :
              /\ e.kind = "create" /\ e.name = Last(p) /\ (e.isdir <=> isdir)
              /\ e.wd \in DOMAIN watches /\ watches[e.wd] = Parent(p)
        /\ Watching(Parent(p)) # {} => ToSet(Seen("create", p, isdir)) # {}
    BY <1>3, SeenEvents
  <1> SUFFICES ASSUME ~overflowed', NEW q \in disk' \ {<< >>},
                      ~Lost(Parent(q))'
               PROVE  /\ Parent(q) \in explored' \ forgotten' => Heard(q)'
                      /\ \A f \in ToSet(scan') :
                            f.at = "reading" /\ f.dir = Parent(q)
                               => q \in f.left \/ Heard(q)'
    BY DEF CoverInv
  <1>5. /\ ~overflowed /\ ~Lost(Parent(q))
        /\ forgotten' = forgotten
        /\ ToSet(queue') = ToSet(queue) \cup ToSet(Seen("create", p, isdir))
    BY <1>1, <1>2, <1>3, <1>4, LostKept, Reported DEF Growing
  <1>6. CASE q \in disk
    <2>1. Heard(q) => Heard(q)'
      BY <1>1, <1>2, <1>5, <1>6, HeardKept
    <2> QED
      BY <1>2, <1>5, <1>6, <2>1 DEF CoverInv
  <1>7. CASE q = p /\ Parent(p) \in DOMAIN reverse_fdtable
    <2>1. Watching(Parent(p)) # {}
      BY <1>3, <1>5, <1>7 DEF TableInv, Lost, Watching
    <2>2. PICK e \in ToSet(queue') :
              /\ e.kind = "create" /\ e.name = Last(p) /\ (e.isdir <=> isdir)
              /\ e.wd \in DOMAIN watches /\ watches[e.wd] = Parent(p)
      BY <1>4, <1>5, <2>1
    <2>3. Announces(e, p)'
      <3>1. IsDir(p)' <=> isdir
        BY <1>2, <1>3 DEF IsDir, TypeInv
      <3> QED
        BY <1>2, <1>3, <2>2, <3>1 DEF Announces, PathOf, TableInv
    <2>4. Heard(p)'
      BY <1>1, <2>2, <2>3, AnnouncedIs DEF Heard
    <2> QED
      BY <1>7, <2>4
  <1>8. Parent(q) \in explored \ forgotten => Parent(q) \in DOMAIN reverse_fdtable
    BY <1>5 DEF WatchInv, ExploredInv, Lost
  <1>9. \A f \in ToSet(scan) :
           f.at = "reading" => f.dir \in DOMAIN reverse_fdtable \cup misread
    BY DEF WatchInv, ScanInv, FrameInv
  <1> QED
    BY <1>2, <1>5, <1>6, <1>7, <1>8, <1>9 DEF Lost

LEMMA VanishCover ==
    ASSUME WatchInv, CoverInv, NEW p \in Paths \ {<< >>}, Vanish(p)
    PROVE  CoverInv'
  <1>1. WatchInv' /\ Growing
    BY VanishStep
  <1>2. UNCHANGED <<scan, explored>> /\ disk' = disk \ {p}
        /\ Report(Seen("delete", p, IsDir(p)) \o SeenSelf(p))
    BY DEF Vanish, Change, tables
  <1>3. Seen("delete", p, IsDir(p)) \o SeenSelf(p) \in Seq(Event)
    BY SeenOf, SeenSelfEvents, ConcatElements DEF WatchInv
  <1>4. ~overflowed' => ToSet(queue) \subseteq ToSet(queue')
    BY <1>2, <1>3, Reported DEF WatchInv
  <1>5. ASSUME NEW q \in disk' \ {<< >>}, ~overflowed', Heard(q)
        PROVE  Heard(q)'
    BY <1>1, <1>2, <1>4, <1>5, HeardKept
  <1> QED
    BY <1>1, <1>2, <1>5, CoverKept

LEMMA EnterCover ==
    ASSUME WatchInv, CoverInv, Enter
    PROVE  CoverInv'
  <1>1. WatchInv' /\ Growing
    BY EnterStep
  <1>2. PICK t \in ScanFrame, r \in Seq(ScanFrame) :
            /\ t = Top /\ r = Rest /\ ToSet(scan) = ToSet(r) \cup {t}
    BY StackParts DEF WatchInv, Enter, Arrive
  <1>3. /\ UNCHANGED <<disk, dirs, queue, explored>>
        /\ \/ scan' = Append(r, [t EXCEPT !.at = "entered"])
           \/ t.dir \notin disk /\ scan' = r
        /\ IsDir(t.dir) => registered' = registered \cup {t.dir}
        /\ t.at = "start"
    BY <1>2 DEF Enter, Arrive, tree
  <1>4. /\ ToSet(r) \subseteq ToSet(scan')
        /\ \A f \in ToSet(scan') : f.at = "reading" => f \in ToSet(r)
        /\ \/ t.dir \notin disk
           \/ \E f \in ToSet(scan') : f.at = "entered" /\ f.dir = t.dir
    <2>1. CASE scan' = Append(r, [t EXCEPT !.at = "entered"])
      <3> DEFINE new == [t EXCEPT !.at = "entered"]
      <3>1. new \in ScanFrame /\ new.at = "entered" /\ new.dir = t.dir
        BY DEF ScanFrame
      <3>2. scan' = Append(r, new)
        BY <2>1
      <3> HIDE DEF new
      <3>3. ToSet(scan') = ToSet(r) \cup {new}
        BY <3>1, <3>2, StackPush
      <3> QED
        BY <3>1, <3>3
    <2> QED
      BY <1>3, <2>1
  <1>5. ASSUME NEW p \in disk' \ {<< >>}, Heard(p)
        PROVE  Heard(p)'
    <2>1. t.dir = p => Known(p)' \/ Heard(p)'
      BY <1>3, <1>4, <1>5 DEF Known, IsDir, Heard, Pending, Opening
    <2>2. ~(t.dir = p) => Heard(p)'
      BY <1>1, <1>2, <1>3, <1>4, <1>5, HeardKept DEF Opening
    <2> QED
      BY <2>1, <2>2 DEF Heard
  <1> QED
    BY <1>1, <1>2, <1>3, <1>4, <1>5, CoverKept

LEMMA OpenDirectoryCover ==
    ASSUME WatchInv, CoverInv, OpenDirectory
    PROVE  CoverInv'
  <1>1. WatchInv' /\ Growing
    BY OpenDirectoryStep
  <1>2. PICK t \in ScanFrame, r \in Seq(ScanFrame) :
            /\ t = Top /\ r = Rest /\ ToSet(scan) = ToSet(r) \cup {t}
    BY StackParts DEF WatchInv, OpenDirectory
  <1>3. /\ UNCHANGED <<disk, dirs, queue, explored, forgotten, overflowed>>
        /\ t.at = "entered"
        /\ \/ scan' = Append(r, [t EXCEPT !.at = "reading",
                                          !.left = Below(t.dir)])
           \/ scan' = r
        /\ ~IsDir(t.dir) => t.dir \in mapped'
    BY <1>2 DEF OpenDirectory, inotify, history, tree
  <1>4. /\ ToSet(r) \subseteq ToSet(scan')
        /\ \A f \in ToSet(scan') : f \in ToSet(r) \/ f.left = Below(f.dir)
    <2>1. CASE scan' = Append(r, [t EXCEPT !.at = "reading",
                                           !.left = Below(t.dir)])
      <3> DEFINE new == [t EXCEPT !.at = "reading", !.left = Below(t.dir)]
      <3>1. Below(t.dir) \subseteq Paths
        BY DEF Below, WatchInv, TypeInv, Paths
      <3>2. new \in ScanFrame /\ new.left = Below(new.dir)
        BY <3>1 DEF ScanFrame
      <3>3. scan' = Append(r, new)
        BY <2>1
      <3> HIDE DEF new
      <3>4. ToSet(scan') = ToSet(r) \cup {new}
        BY <3>2, <3>3, StackPush
      <3> QED
        BY <3>2, <3>4
    <2> QED
      BY <1>3, <2>1
  <1>5. ASSUME NEW p \in disk, Heard(p)
        PROVE  Heard(p)'
    <2>1. Opening(t, p) => Known(p)'
      BY <1>3 DEF Opening, Known, IsDir
    <2> QED
      BY <1>1, <1>2, <1>3, <1>4, <1>5, <2>1, HeardKept
  <1>6. ASSUME NEW p \in disk \ {<< >>}, ~overflowed, ~Lost(Parent(p)),
               NEW f \in ToSet(scan'), f.at = "reading", f.dir = Parent(p)
        PROVE  p \in f.left \/ Heard(p)'
    <2>1. CASE f \in ToSet(r)
      BY <1>2, <1>5, <1>6, <2>1 DEF CoverInv
    <2>2. CASE f.left = Below(f.dir)
      BY <1>6, <2>2 DEF Below
    <2> QED
      BY <1>4, <1>6, <2>1, <2>2
  <1> QED
    BY <1>1, <1>3, <1>5, <1>6, LostKept DEF CoverInv

LEMMA TakeEntryCover ==
    ASSUME WatchInv, CoverInv, NEW q \in Paths, TakeEntry(q)
    PROVE  CoverInv'
  <1>1. WatchInv' /\ Growing
    BY TakeEntryStep
  <1>2. PICK t \in ScanFrame, r \in Seq(ScanFrame) :
            /\ t = Top /\ r = Rest /\ ToSet(scan) = ToSet(r) \cup {t}
    BY StackParts DEF WatchInv, TakeEntry
  <1> DEFINE new == [t EXCEPT !.left = @ \ {q}]
  <1>3. /\ new \in ScanFrame /\ new.dir = t.dir
        /\ new.left = t.left \ {q}
    BY DEF ScanFrame
  <1>4. /\ UNCHANGED <<disk, dirs, queue, explored, forgotten, overflowed>>
        /\ t.at = "reading" /\ Known(q)'
        /\ \/ scan' = Append(r, new)
           \/ q \in Dirs /\ scan' = Append(Append(r, new), Frame(q, FALSE, t.search))
    BY <1>2 DEF TakeEntry, history, Known, IsDir, tree, WatchInv, TypeInv
  <1> HIDE DEF new
  <1>5. PICK outer \in Seq(ScanFrame) :
            outer = Append(r, new) /\ ToSet(outer) = ToSet(r) \cup {new}
    BY <1>3, StackPush
  <1>6. /\ ToSet(r) \subseteq ToSet(scan')
        /\ \A f \in ToSet(scan') : f \in ToSet(r) \/ f = new \/ f.at = "start"
    <2>1. CASE scan' = outer
      BY <1>5, <2>1
    <2>2. CASE q \in Dirs /\ scan' = Append(outer, Frame(q, FALSE, t.search))
      <3>1. PICK g \in ScanFrame :
                g = Frame(q, FALSE, t.search) /\ g.at = "start" /\ g.left = {}
        BY <2>2, NewFrame DEF ScanFrame
      <3>2. ToSet(scan') = ToSet(outer) \cup {g}
        BY <2>2, <3>1, StackPush
      <3> QED
        BY <1>5, <3>1, <3>2
    <2> QED
      BY <1>4, <1>5, <2>1, <2>2
  <1>7. ASSUME NEW p \in disk, Heard(p)
        PROVE  Heard(p)'
    BY <1>1, <1>2, <1>4, <1>6, <1>7, HeardKept DEF Opening
  <1>8. ASSUME NEW p \in disk \ {<< >>}, ~overflowed, ~Lost(Parent(p)),
               NEW f \in ToSet(scan'), f.at = "reading", f.dir = Parent(p)
        PROVE  p \in f.left \/ Heard(p)'
    <2>1. CASE f \in ToSet(r)
      BY <1>2, <1>7, <1>8, <2>1 DEF CoverInv
    <2>2. CASE f = new
      <3>1. p \in t.left \/ Heard(p)
        BY <1>2, <1>3, <1>4, <1>8, <2>2 DEF CoverInv
      <3>2. p = q => Heard(p)'
        BY <1>4 DEF Heard
      <3> QED
        BY <1>3, <1>7, <2>2, <3>1, <3>2
    <2> QED
      BY <1>6, <1>8, <2>1, <2>2
  <1> QED
    BY <1>1, <1>4, <1>7, <1>8, LostKept DEF CoverInv

LEMMA CloseDirectoryCover ==
    ASSUME WatchInv, CoverInv, CloseDirectory
    PROVE  CoverInv'
  <1>1. WatchInv' /\ Growing
    BY CloseDirectoryStep
  <1>2. PICK t \in ScanFrame, r \in Seq(ScanFrame) :
            /\ t = Top /\ r = Rest /\ ToSet(scan) = ToSet(r) \cup {t}
    BY StackParts DEF WatchInv, CloseDirectory
  <1>3. /\ UNCHANGED <<disk, dirs, queue, forgotten, overflowed>>
        /\ t.at = "reading" /\ t.left = {}
        /\ explored' = explored \cup {t.dir} /\ scan' = r
    BY <1>2 DEF CloseDirectory, inotify, history, tree
  <1>4. ASSUME NEW p \in disk, Heard(p)
        PROVE  Heard(p)'
    BY <1>1, <1>2, <1>3, <1>4, HeardKept DEF Opening
  <1>5. ASSUME NEW p \in disk \ {<< >>}, ~overflowed, ~Lost(Parent(p)),
               Parent(p) \in explored' \ forgotten
        PROVE  Heard(p)'
    BY <1>2, <1>3, <1>4, <1>5 DEF CoverInv
  <1>6. ASSUME NEW p \in disk \ {<< >>}, ~overflowed, ~Lost(Parent(p)),
               NEW f \in ToSet(scan'), f.at = "reading", f.dir = Parent(p)
        PROVE  p \in f.left \/ Heard(p)'
    BY <1>2, <1>3, <1>4, <1>6 DEF CoverInv
  <1> QED
    BY <1>1, <1>3, <1>5, <1>6, LostKept DEF CoverInv

LEMMA ListenCover ==
    ASSUME WatchInv, CoverInv, NEW e,
           HearDirectory(e) \/ HearFile(e) \/ HearDeletion(e) \/ HearOther(e)
    PROVE  CoverInv'
  <1>1. WatchInv' /\ Growing
    BY HearDirectoryStep, HearFileStep, HearDeletionStep, HearOtherStep
  <1>2. TakeEvent(e)
    BY DEF HearDirectory, HearFile, HearDeletion, HearOther
  <1>3. /\ UNCHANGED <<disk, dirs, explored>> /\ scan = << >>
        /\ ToSet(queue) = {e} \cup ToSet(queue') /\ EventInv(e)
    BY <1>2, QueueTail
  <1>4. ASSUME NEW p \in disk \ {<< >>}, Announces(e, p)
        PROVE  Heard(p)'
    <2>1. Append(PathOf(e.wd), e.name) = p
      BY <1>4, PathSplit DEF Announces, WatchInv, TypeInv, Paths
    <2>2. PathOf(e.wd) \in Dirs
      BY <1>2, <1>4, Announcement DEF Announces
    <2>3. CASE HearDirectory(e)
      <3>1. p \in Dirs
        BY <1>2, <1>4, <2>1, <2>3, Announcement DEF HearDirectory, Announces
      <3>2. PICK g \in ScanFrame :
                g = Frame(p, TRUE, << >>) /\ g.at = "start" /\ g.dir = p
        BY <3>1, NewFrame, DirsOnly
      <3>3. scan' = <<g>>
        BY <2>1, <2>3, <3>2 DEF HearDirectory
      <3>4. g \in ToSet(scan')
        BY <3>3, OneFrame
      <3> QED
        BY <3>2, <3>4 DEF Heard, Pending, Opening
    <2>4. CASE HearFile(e)
      BY <1>3, <1>4, <2>1, <2>4 DEF HearFile, Heard, Known, Announces, IsDir
    <2> QED
      BY <1>4, <2>3, <2>4 DEF Announces, HearDeletion, HearOther
  <1>5. ASSUME NEW p \in disk' \ {<< >>}, Heard(p)
        PROVE  Heard(p)'
    BY <1>1, <1>3, <1>4, <1>5, EmptyElements, HeardKept
  <1>6. \A f \in ToSet(scan') : f.at # "reading"
    <2>1. CASE scan' = << >>
      BY <2>1, EmptyElements
    <2>2. CASE HearDirectory(e)
      <3>1. Append(PathOf(e.wd), e.name) \in Dirs
        BY <2>2, Announcement DEF HearDirectory
      <3>2. PICK g \in ScanFrame :
                /\ g = Frame(Append(PathOf(e.wd), e.name), TRUE, << >>)
                /\ g.at = "start" /\ g.left = {}
        BY <3>1, NewFrame, DirsOnly
      <3>3. scan' = <<g>>
        BY <2>2, <3>2 DEF HearDirectory
      <3> QED
        BY <3>2, <3>3, OneFrame
    <2> QED
      BY <1>3, <2>1, <2>2 DEF HearFile, HearDeletion, HearOther
  <1> QED
    BY <1>1, <1>3, <1>5, <1>6, CoverKept

LEMMA LookupCover ==
    ASSUME WatchInv, CoverInv, NEW d \in Dirs, Lookup(d)
    PROVE  CoverInv'
  <1>1. WatchInv' /\ Growing
    BY LookupStep
  <1>2. UNCHANGED <<disk, dirs, queue, explored>> /\ scan = << >>
    BY DEF Lookup, inotify, tables, tree
  <1>3. PICK r \in Dirs : scan' = <<Frame(r, FALSE, d)>>
    BY DEF Lookup, WatchInv, TypeInv
  <1>4. PICK g \in ScanFrame :
            g = Frame(r, FALSE, d) /\ g.at = "start" /\ g.left = {}
    BY NewFrame
  <1>5. \A f \in ToSet(scan') : f.at # "reading"
    BY <1>3, <1>4, OneFrame
  <1>6. ASSUME NEW p \in disk, Heard(p)
        PROVE  Heard(p)'
    BY <1>1, <1>2, <1>6, EmptyElements, HeardKept
  <1> QED
    BY <1>1, <1>2, <1>5, <1>6, CoverKept

LEMMA CoverSame ==
    ASSUME WatchInv, WatchInv', CoverInv, Growing,
           UNCHANGED <<disk, dirs, queue, explored, scan>>
    PROVE  CoverInv'
  <1>1. ASSUME NEW p \in disk, Heard(p)
        PROVE  Heard(p)'
    BY <1>1, HeardKept DEF Opening
  <1> QED
    BY <1>1, CoverKept

LEMMA CoverNext ==
    ASSUME WatchInv, CoverInv, [Next]_vars
    PROVE  CoverInv'
  <1>1. ASSUME NEW p \in (Dirs \cup Files) \ {<< >>}, NEW isdir \in BOOLEAN,
               Appear(p, isdir) \/ Vanish(p)
        PROVE  CoverInv'
    BY <1>1, AppearCover, VanishCover DEF Paths
  <1>2. CASE Scan
    <2>1. ASSUME NEW p \in Dirs \cup Files, TakeEntry(p)
          PROVE  CoverInv'
      BY <2>1, TakeEntryCover DEF Paths
    <2> QED
      BY <1>2, <2>1, EnterCover, OpenDirectoryCover, CloseDirectoryCover DEF Scan
  <1>3. CASE Listen
    BY <1>3, ListenCover DEF Listen
  <1>4. CASE Fork
    <2>1. UNCHANGED <<disk, dirs, queue, explored, scan>>
      BY <1>4 DEF Fork, inotify, tables, tree
    <2> QED
      BY <1>4, <2>1, ForkStep, CoverSame
  <1>5. CASE Setsid
    <2>1. scan' = << >> /\ explored' = explored /\ forgotten' = explored
      BY <1>5 DEF Setsid, tables
    <2> QED
      BY <2>1, EmptyElements DEF CoverInv
  <1>6. CASE UNCHANGED vars
    <2>1. UNCHANGED <<disk, dirs, queue, explored, scan, fdtable, reverse_fdtable,
                      removed, unlinked, misread, madeup, overflowed,
                      registered, mapped, forgotten>>
      BY <1>6 DEF vars, inotify, tables, tree, history
    <2>2. Growing
      BY <2>1 DEF Growing
    <2> QED
      BY <2>1, <2>2, WatchNext, CoverSame
  <1> QED
    BY <1>1, <1>2, <1>3, <1>4, <1>5, <1>6, LookupCover DEF Next

\* Whatever appears in an explored folder is known, or is in an event that makes it
\* known (listener_cb and winevfs_add_read_directory), however scans, events and
\* other processes interleave; except where inotify lost the folder, the queue
\* overflowed, or setsid started over.
THEOREM UnmissedTheorem == Spec => []Unmissed
  <1>1. Init => CoverInv
    BY EmptyElements DEF Init, CoverInv
  <1>2. WatchInv /\ CoverInv /\ [Next]_vars => CoverInv'
    BY CoverNext
  <1>3. CoverInv => Unmissed
    BY EmptyElements DEF CoverInv, Unmissed, Heard, Pending
  <1> QED
    BY <1>1, <1>2, <1>3, WatchInvariant, PTL DEF Spec

=============================================================================
