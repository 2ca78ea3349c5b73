------------------------------- MODULE Listing -------------------------------
(***************************************************************************)
(* Directory streams over a virtual folder (src/src/other_functions.cpp):  *)
(* opendir, readdir and closedir.  readdir first returns what the real     *)
(* directory behind the stream holds, then the folder's children that the  *)
(* real directory did not return.  The children are a vector other threads *)
(* and the inotify listener insert into and erase from between two calls,  *)
(* and the stream only keeps its position in it.                           *)
(*                                                                         *)
(* A handle is a DIR*, used by one thread; opendir_mutex is                *)
(* opendir_mappings_mutex.  One virtual folder; names are lower case.      *)
(***************************************************************************)
EXTENDS Integers, Sequences, FiniteSets, SequencesExt

CONSTANTS
    Handles,     \* DIR* values
    NoHandle,    \* owner of the free opendir_mutex
    Names,
    Changes,     \* what other threads and processes do meanwhile
    MaxChanges   \* bound: changes made while any stream is open

ASSUME ListingConstants ==
    /\ NoHandle \notin Handles
    /\ IsFiniteSet(Names)      \* names have at most NAME_MAX bytes
    /\ Changes \subseteq {"list", "unlist", "create", "remove"}
    /\ MaxChanges \in Nat

VARIABLES
    children,       \* winevfs_folder_mappings[path].children.vector
    real,           \* names in the real directory
    opendir_mutex,
    pc,             \* where each handle's thread is
    left,           \* entries the real stream has still to return
    already, position,    \* opendir_base_info
    returned,       \* names readdir has returned since opendir
    kept,           \* names the folder has shown ever since opendir
    erased,         \* entries erased from children since opendir
    grown,          \* names created in the real directory since opendir
    rewound,        \* whether the program has called rewinddir since
    changes         \* changes made so far

folder == <<children, real>>
info   == <<already, position>>
watched == <<returned, kept, erased, grown, rewound>>
vars   == <<folder, opendir_mutex, pc, left, info, watched, changes>>

\* What the folder shows: the union of both sources.
Shown == real \cup ToSet(children)

Init ==
    /\ children \in {s \in SeqOf(Names, Cardinality(Names)) : IsInjective(s)}
    /\ real \in SUBSET Names
    /\ opendir_mutex = NoHandle
    /\ pc = [h \in Handles |-> "closed"]
    /\ left = [h \in Handles |-> {}]
    /\ already = [h \in Handles |-> {}]
    /\ position = [h \in Handles |-> 0]
    /\ returned = [h \in Handles |-> << >>]
    /\ kept = [h \in Handles |-> {}]
    /\ erased = [h \in Handles |-> 0]
    /\ grown = [h \in Handles |-> {}]
    /\ rewound = [h \in Handles |-> FALSE]
    /\ changes = 0

-----------------------------------------------------------------------------

\* The original opendir on the redirected path.
OpenStream(h) ==
    /\ pc[h] = "closed"
    /\ pc' = [pc EXCEPT ![h] = "opened"]
    /\ left' = [left EXCEPT ![h] = real]
    /\ kept' = [kept EXCEPT ![h] = Shown]
    /\ UNCHANGED <<folder, opendir_mutex, info, returned, erased, grown, rewound,
                   changes>>

\* winevfs_add_opendir: the path is that of a known folder.
AddOpendir(h) ==
    /\ pc[h] = "opened"
    /\ opendir_mutex = NoHandle
    /\ pc' = [pc EXCEPT ![h] = "ready"]
    /\ already' = [already EXCEPT ![h] = {}]
    /\ position' = [position EXCEPT ![h] = 0]
    /\ UNCHANGED <<folder, opendir_mutex, left, watched, changes>>

Deliver(h, n) == returned' = [returned EXCEPT ![h] = Append(@, n)]

\* Variant: the entries of the real stream are not remembered.
ReadRealForgets(h, n) ==
    /\ pc[h] = "ready"
    /\ n \in left[h]
    /\ opendir_mutex = NoHandle
    /\ left' = [left EXCEPT ![h] = @ \ {n}]
    /\ Deliver(h, n)
    /\ UNCHANGED <<folder, opendir_mutex, pc, info, kept, erased, grown, rewound,
                   changes>>

\* readdir: the real stream has an entry.
ReadReal(h, n) ==
    /\ pc[h] = "ready"
    /\ n \in left[h]
    /\ opendir_mutex = NoHandle
    /\ left' = [left EXCEPT ![h] = @ \ {n}]
    /\ already' = [already EXCEPT ![h] = @ \cup {n}]
    /\ Deliver(h, n)
    /\ UNCHANGED <<folder, opendir_mutex, pc, position, kept, erased, grown, rewound,
                   changes>>

\* The real stream need not return an entry removed since opendir.
SkipRemoved(h, n) ==
    /\ pc[h] = "ready"
    /\ n \in left[h] \ real
    /\ left' = [left EXCEPT ![h] = @ \ {n}]
    /\ UNCHANGED <<folder, opendir_mutex, pc, info, watched, changes>>

\* readdir: the real stream returned NULL, so the children are next.
EndOfStream(h) ==
    /\ pc[h] = "ready"
    /\ left[h] = {}
    /\ opendir_mutex = NoHandle
    /\ opendir_mutex' = h
    /\ pc' = [pc EXCEPT ![h] = "children"]
    /\ UNCHANGED <<folder, left, info, watched, changes>>

\* get_filename, once for each turn of readdir's loop; the folder mutex is
\* taken and released for each of them.
NextChild(h) == children[position[h] + 1]

\* Variant: the last child is taken for the end of the vector.
MoreChildrenShort(h) == position[h] < Len(children) - 1

MoreChildren(h) == position[h] < Len(children)

Advance(h) ==
    /\ pc[h] = "children"
    /\ MoreChildren(h)
    /\ position' = [position EXCEPT ![h] = @ + 1]

SkipChild(h) ==
    /\ Advance(h)
    /\ NextChild(h) \in already[h]
    /\ UNCHANGED <<folder, opendir_mutex, pc, left, already, watched, changes>>

ReturnChild(h) ==
    /\ Advance(h)
    /\ NextChild(h) \notin already[h]
    /\ Deliver(h, NextChild(h))
    /\ opendir_mutex' = NoHandle
    /\ pc' = [pc EXCEPT ![h] = "ready"]
    /\ UNCHANGED <<folder, left, already, kept, erased, grown, rewound,
                   changes>>

\* readdir returns NULL: the listing is complete.
ReturnNull(h) ==
    /\ pc[h] = "children"
    /\ ~MoreChildren(h)
    /\ opendir_mutex' = NoHandle
    /\ pc' = [pc EXCEPT ![h] = "done"]
    /\ UNCHANGED <<folder, left, info, watched, changes>>

Closed(h) ==
    /\ pc' = [pc EXCEPT ![h] = "closed"]
    /\ left' = [left EXCEPT ![h] = {}]
    /\ already' = [already EXCEPT ![h] = {}]
    /\ position' = [position EXCEPT ![h] = 0]
    /\ returned' = [returned EXCEPT ![h] = << >>]
    /\ kept' = [kept EXCEPT ![h] = {}]
    /\ erased' = [erased EXCEPT ![h] = 0]
    /\ grown' = [grown EXCEPT ![h] = {}]
    /\ rewound' = [rewound EXCEPT ![h] = FALSE]

\* closedir: the entry goes before the original function frees the DIR.
Closedir(h) ==
    /\ pc[h] \in {"ready", "done"}
    /\ opendir_mutex = NoHandle
    /\ Closed(h)
    /\ changes' = IF \A g \in Handles \ {h} : pc[g] = "closed" THEN 0 ELSE changes
    /\ UNCHANGED <<folder, opendir_mutex>>

\* rewinddir is not intercepted: the real stream starts again and the
\* program expects a whole listing.
Rewinddir(h) ==
    /\ pc[h] = "done"
    /\ pc' = [pc EXCEPT ![h] = "ready"]
    /\ left' = [left EXCEPT ![h] = real]
    /\ returned' = [returned EXCEPT ![h] = << >>]
    /\ kept' = [kept EXCEPT ![h] = Shown]
    /\ erased' = [erased EXCEPT ![h] = 0]
    /\ grown' = [grown EXCEPT ![h] = {}]
    /\ rewound' = [rewound EXCEPT ![h] = TRUE]
    /\ UNCHANGED <<folder, opendir_mutex, info, changes>>

-----------------------------------------------------------------------------
(* Meanwhile *)

Change(c) ==
    /\ c \in Changes
    /\ changes < MaxChanges
    /\ \E h \in Handles : pc[h] # "closed"
    /\ changes' = changes + 1
    /\ UNCHANGED <<opendir_mutex, pc, info, returned, rewound>>

\* A name the folder no longer shows has not been shown all along.
StillKept == kept' = [h \in Handles |-> kept[h] \cap Shown']

\* Variant: the vector takes a name it has already.
InsertChildTwice(n) ==
    /\ Change("list")
    /\ children' = Append(children, n)
    /\ UNCHANGED <<real, left, erased, grown>>
    /\ StillKept

\* unique_vector::insert, from _add_read_entry.
InsertChild(n) ==
    /\ Change("list")
    /\ n \notin ToSet(children)
    /\ children' = Append(children, n)
    /\ UNCHANGED <<real, left, erased, grown>>
    /\ StillKept

\* unique_vector::erase, from winevfs_delete_file.
EraseChild(n) ==
    /\ Change("unlist")
    /\ \E i \in DOMAIN children :
          /\ children[i] = n
          /\ children' = RemoveAt(children, i)
    /\ erased' = [h \in Handles |-> IF pc[h] = "closed" THEN 0 ELSE erased[h] + 1]
    /\ UNCHANGED <<real, left, grown>>
    /\ StillKept

\* A file appears in the real directory; open streams may yet return it.
CreateReal(n) ==
    /\ Change("create")
    /\ n \notin real
    /\ real' = real \cup {n}
    /\ \E S \in SUBSET {h \in Handles : pc[h] \notin {"closed", "done"}} :
          left' = [h \in Handles |-> IF h \in S THEN left[h] \cup {n}
                                                ELSE left[h]]
    /\ grown' = [h \in Handles |-> IF pc[h] = "closed" THEN {} ELSE grown[h] \cup {n}]
    /\ UNCHANGED <<children, erased>>
    /\ StillKept

RemoveReal(n) ==
    /\ Change("remove")
    /\ n \in real
    /\ real' = real \ {n}
    /\ UNCHANGED <<children, left, erased, grown>>
    /\ StillKept

-----------------------------------------------------------------------------

HandleStep(h) ==
    \/ OpenStream(h) \/ AddOpendir(h)
    \/ \E n \in Names : ReadReal(h, n) \/ SkipRemoved(h, n)
    \/ EndOfStream(h) \/ SkipChild(h) \/ ReturnChild(h) \/ ReturnNull(h)
    \/ Closedir(h) \/ Rewinddir(h)

Next ==
    \/ \E h \in Handles : HandleStep(h)
    \/ \E n \in Names : \/ InsertChild(n) \/ EraseChild(n)
                        \/ CreateReal(n) \/ RemoveReal(n)

Spec == Init /\ [][Next]_vars

-----------------------------------------------------------------------------
(* Properties *)

TypeOK ==
    /\ children \in Seq(Names) /\ IsInjective(children)
    /\ real \subseteq Names
    /\ opendir_mutex \in Handles \cup {NoHandle}
    /\ pc \in [Handles -> {"closed", "opened", "ready", "children", "done"}]
    /\ left \in [Handles -> SUBSET Names]
    /\ already \in [Handles -> SUBSET Names]
    /\ position \in [Handles -> Nat]
    /\ returned \in [Handles -> Seq(Names)]
    /\ kept \in [Handles -> SUBSET Names]
    /\ erased \in [Handles -> Nat]
    /\ grown \in [Handles -> SUBSET Names]
    /\ rewound \in [Handles -> BOOLEAN]

\* A complete listing has the names the folder has shown since opendir (README:
\* "will contain every file/folder"), but erasing a child moves those behind it
\* below the position: each erasure hides at most one name that was there all
\* along, and none if none is erased, however names are added.  The first
\* listing of a stream only: rewinddir leaves the position at the end.
LostPerErasure ==
    \A h \in Handles : pc[h] = "done" /\ ~rewound[h] =>
        Cardinality(kept[h] \ ToSet(returned[h])) <= erased[h]

\* No listing returns a name twice that was in the folder all along, however
\* names are listed, unlisted and removed; one that was created in the real
\* directory meanwhile may have been returned as a child before.
KeptOnce ==
    \A h \in Handles : \A i, j \in 1..Len(returned[h]) :
        /\ returned[h][i] = returned[h][j]
        /\ returned[h][i] \in kept[h] \ grown[h]
        => i = j
=============================================================================
