------------------------------- MODULE Overlay --------------------------------
(***************************************************************************)
(* What winevfs promises a program (README, "Usage"): a virtual folder     *)
(* contains every file of the real folders its records name, those of a    *)
(* later record in front of those of an earlier one, and a file that is    *)
(* created goes to the folder of the W record.  A path inside a record's   *)
(* real folder stands for the one in its virtual folder; a path no record  *)
(* provides is the real path itself.                                       *)
(*                                                                         *)
(* A call is one atomic step here: nothing is loaded, cached, explored,    *)
(* registered or announced.                                                *)
(***************************************************************************)
EXTENDS VfsPaths

CONSTANTS
    VfsFiles,  \* VFS files: sequences of records [op, virtual, real]
    Trees,     \* the sets of files that may exist at first
    Homes,     \* real directories that exist though they may be empty
    Calls,     \* the calls the program makes: [op, path, to]
    NoFile,    \* the call opened nothing
    Undefined  \* the code has undefined behaviour

VARIABLES
    records,   \* the VFS file
    disk,      \* the files that exist, by their real path
    dirs,      \* the directories that exist
    bound,     \* where a path that was deleted, or not created, still leads
    answer     \* the last call, and the file it opened

Target(i, v) == Relocate(v, records[i].virtual, records[i].real)

\* The virtual path of a path inside a record's real folder.
Virtual(p) ==
    LET inside == {i \in DOMAIN records : IsPrefix(records[i].real, p)} IN
    IF inside = {} THEN p
    ELSE LET r == records[Max(inside)] IN Relocate(p, r.real, r.virtual)

\* The records that provide a file, a directory, or a place for a new file.
Covering(v) == {i \in DOMAIN records : IsPrefix(records[i].virtual, v)}
Holders(v) == {i \in Covering(v) : Target(i, v) \in disk}
Layers(v)  == {i \in Covering(v) : Target(i, v) \in dirs}
Writers(v) == {i \in Covering(v) : records[i].op = "W"}

\* A call that creates goes to the W record unless some record provides the
\* path, though a file may exist at the path itself.
Redirects(v, creates) ==
    \/ v \in DOMAIN bound
    \/ Holders(v) # {}
    \/ creates /\ Writers(v) # {}

\* The real path of a file.
Place(p, creates) ==
    LET v == Virtual(p) IN
    IF ~Redirects(v, creates) THEN p
    ELSE IF v \in DOMAIN bound THEN bound[v]
    ELSE IF Holders(v) # {} THEN Target(Max(Holders(v)), v)
    ELSE Target(Max(Writers(v)), v)

Lead(p, creates) ==
    [v \in {u \in {Virtual(p)} : Redirects(u, creates)} |-> Place(p, creates)]

\* The directories that are made for a new file below a W record.
MadeFor(p) ==
    LET v == Virtual(p) IN
    IF v \in DOMAIN bound \/ Holders(v) # {} \/ Writers(v) = {} THEN {}
    ELSE {d \in Ancestors(Place(p, TRUE)) : OnPath(d) \cap disk = {}}

\* The directory a folder stands for: its own, or that of the last record; a
\* folder no record provides is the one at the path itself.
DirAt(p) ==
    LET v == Virtual(p) IN
    IF Layers(v) = {} THEN IF p \in dirs THEN p ELSE NoFile
    ELSE IF v \in dirs THEN v
    ELSE Target(Max(Layers(v)), v)

-----------------------------------------------------------------------------

Result(c, f) == [op |-> c.op, path |-> c.path, file |-> f]
NoAnswer == [op |-> "none", path |-> << >>, file |-> NoFile]

\* A redirected path keeps its place when nothing is there.
StayBound(leads) ==
    bound' = [v \in {u \in DOMAIN leads : leads[u] \notin disk' \cup dirs'}
                 |-> leads[v]]

Init ==
    /\ records \in VfsFiles
    /\ disk \in Trees
    /\ dirs = Homes \cup {<< >>} \cup UNION {Ancestors(f) : f \in disk \cup Homes}
    /\ bound = << >>
    /\ answer = NoAnswer

Open(c) ==
    LET creates == c.op = "create"
        f == Place(c.path, creates)
    IN  /\ c.op \in {"read", "append", "create"}
        /\ dirs' = dirs \cup IF creates THEN MadeFor(c.path) ELSE {}
        /\ disk' = IF /\ c.op # "read"
                      /\ f \notin dirs' /\ Parent(f) \in dirs'
                   THEN disk \cup {f} ELSE disk
        /\ StayBound(Override(Lead(c.path, creates), bound))
        /\ answer' = Result(c, IF f \in disk' THEN f ELSE NoFile)
        /\ UNCHANGED records

Unlink(c) ==
    LET f == Place(c.path, FALSE) IN
    /\ c.op = "unlink"
    /\ disk' = disk \ {f}
    /\ StayBound(Override(Lead(c.path, FALSE), bound))
    /\ answer' = Result(c, IF f \in disk THEN f ELSE NoFile)
    /\ UNCHANGED <<records, dirs>>

\* The place of the new path is made, and taken, before the old one is found
\* to be missing.
Rename(c) ==
    LET f == Place(c.path, FALSE)
        g == Place(c.to, TRUE)
        moves == /\ f \in disk /\ g \notin dirs
                 /\ Parent(g) \in dirs \cup MadeFor(c.to)
    IN  /\ c.op = "rename"
        /\ dirs' = dirs \cup MadeFor(c.to)
        /\ disk' = IF moves THEN (disk \ {f}) \cup {g} ELSE disk
        /\ StayBound(Override(Lead(c.to, TRUE), Override(Lead(c.path, FALSE), bound)))
        /\ answer' = Result(c, IF moves THEN g ELSE NoFile)
        /\ UNCHANGED records

Mkdir(c) ==
    LET d == Place(c.path, TRUE)
        makes == /\ DirAt(c.path) = NoFile
                 /\ d \notin disk
                 /\ Parent(d) \in dirs \cup MadeFor(c.path)
    IN  /\ c.op = "mkdir"
        /\ dirs' = dirs \cup IF makes THEN MadeFor(c.path) \cup {d} ELSE {}
        /\ answer' = Result(c, IF makes THEN d ELSE NoFile)
        /\ UNCHANGED <<records, disk, bound>>

\* stat or opendir of a folder.  A folder that has a record below it and no
\* directory of its own is promised nothing.
Stat(c) ==
    /\ c.op \in {"stat", "opendir"}
    /\ \/ answer' = Result(c, DirAt(c.path))
       \/ /\ DirAt(c.path) = NoFile
          /\ \E i \in DOMAIN records :
                IsStrictPrefix(Virtual(c.path), records[i].virtual)
          /\ answer' = Result(c, Undefined)
    /\ UNCHANGED <<records, disk, dirs, bound>>

Next == \E c \in Calls : Open(c) \/ Unlink(c) \/ Rename(c) \/ Mkdir(c) \/ Stat(c)

Spec == Init /\ [][Next]_<<records, disk, dirs, bound, answer>>
=============================================================================
