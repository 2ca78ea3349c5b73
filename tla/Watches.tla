------------------------------- MODULE Watches --------------------------------
(***************************************************************************)
(* How winevfs notices what appears below the real directory of a record   *)
(* (src/src/inotify.cpp, listener_cb and winevfs_add_read_directory in     *)
(* src/src/vfs.cpp): a scan watches each directory before it reads it, the *)
(* listener scans the directories that events announce, and other          *)
(* processes make and remove directories and files all the while, one in   *)
(* the place of the other if they like.  After a fork the process has no   *)
(* listener until setsid starts another one.                               *)
(*                                                                         *)
(* One record; a path is relative to its virtual folder, and to its real   *)
(* directory, and << >> is the folder itself.  A scan, by a lookup or by   *)
(* the listener, holds winevfs_client_processing_mutex, so there is one at *)
(* a time.                                                                 *)
(***************************************************************************)
EXTENDS VfsPaths

CONSTANTS
    Names,       \* names of directories and files
    Dirs,        \* paths a directory may have
    Files,       \* paths a file may have
    NoPath,      \* what fdtable has for a watch it does not know
    MaxQueue,    \* inotify's max_queued_events
    MaxChanges   \* bound: changes other processes make

ASSUME WatchConstants ==
    /\ Dirs \cup Files \subseteq Seq(Names)
    /\ << >> \in Dirs
    /\ \A p \in (Dirs \cup Files) \ {<< >>} : Parent(p) \in Dirs
    /\ NoPath \notin Dirs
    /\ MaxQueue \in Nat \ {0} /\ MaxChanges \in Nat

VARIABLES
    disk,            \* the paths that exist
    dirs,            \* those that are directories now
    watches,         \* the inotify instance: watch descriptor |-> directory
    queue,           \* its events: [kind, wd, name, isdir]
    fdtable, reverse_fdtable,
    listener,        \* whether the listener thread runs
    registered,      \* folders in winevfs_folder_mappings
    explored,        \* those that are marked explored
    mapped,          \* paths in read_mappings
    scan,            \* calls of winevfs_add_read_directory, the inner one last
    removed,         \* history: paths a directory was removed from
    unlinked,        \* history: paths a file was removed from
    misread,         \* history: paths that were files when their scan began
    madeup,          \* history: files that events of neither kind made up
    forgotten,       \* history: what was explored when setsid was called
    overflowed,      \* history: whether an event was lost
    changes          \* changes made so far

tables  == <<registered, explored, mapped>>
inotify == <<watches, queue, fdtable, reverse_fdtable>>
tree    == <<disk, dirs>>
history == <<removed, unlinked, misread, madeup, forgotten, overflowed>>
vars == <<tree, inotify, listener, tables, scan, history, changes>>

Below(d) == {p \in disk : p # << >> /\ Parent(p) = d}
IsDir(p) == p \in dirs

-----------------------------------------------------------------------------
(* The inotify instance *)

\* A descriptor is not used again, while the queue may still name it.
NewWatch == Max({0} \cup DOMAIN watches \cup DOMAIN fdtable) + 1

Watching(d) == {wd \in DOMAIN watches : watches[wd] = d}

\* winevfs_watch_directory, once for each directory in order.  A directory
\* that is known is not watched again.  When the user's watches are used up, by
\* this process or by others, inotify refuses, and the descriptor is -1.
WatchDirectory(d) ==
    IF d \in DOMAIN reverse_fdtable
    THEN UNCHANGED <<watches, fdtable, reverse_fdtable>>
    ELSE \E wd \in {NewWatch, -1} :
            /\ watches' = IF wd = -1 THEN watches ELSE Put(watches, wd, d)
            /\ fdtable' = Put(fdtable, wd, d)
            /\ reverse_fdtable' = Put(reverse_fdtable, d, wd)

\* The events a change is reported as; one that does not fit is lost, and the
\* queue says so once.
Report(news) ==
    LET room == MaxQueue - Len(queue)
        overflow == [kind |-> "overflow", wd |-> -1, name |-> "", isdir |-> FALSE]
    IN  IF Len(news) <= room
        THEN queue' = queue \o news /\ UNCHANGED overflowed
        ELSE /\ queue' = IF room < 0 THEN queue
                         ELSE Append(queue \o SubSeq(news, 1, room), overflow)
             /\ overflowed' = TRUE

\* Of a change to p, a directory or not, in the directory above.
Seen(kind, p, isdir) ==
    IF Watching(Parent(p)) = {} THEN << >>
    ELSE <<[kind |-> kind, wd |-> CHOOSE wd \in Watching(Parent(p)) : TRUE,
            name |-> Last(p), isdir |-> isdir]>>

\* Of the removal of a watched directory.
SeenSelf(d) ==
    IF Watching(d) = {} THEN << >>
    ELSE LET wd == CHOOSE w \in Watching(d) : TRUE IN
         <<[kind |-> "delete_self", wd |-> wd, name |-> "", isdir |-> FALSE],
           [kind |-> "ignored", wd |-> wd, name |-> "", isdir |-> FALSE]>>

-----------------------------------------------------------------------------
(* Other processes *)

Change ==
    /\ changes < MaxChanges
    /\ changes' = changes + 1
    /\ UNCHANGED <<fdtable, reverse_fdtable, listener, tables, scan,
                   misread, madeup, forgotten>>

Appear(p, isdir) ==
    /\ Change
    /\ p \in (IF isdir THEN Dirs ELSE Files) \ disk /\ IsDir(Parent(p))
    /\ disk' = disk \cup {p}
    /\ dirs' = IF isdir THEN dirs \cup {p} ELSE dirs
    /\ Report(Seen("create", p, isdir))
    /\ UNCHANGED <<watches, removed, unlinked>>

Vanish(p) ==
    /\ Change
    /\ p \in disk /\ Below(p) = {}
    /\ disk' = disk \ {p} /\ dirs' = dirs \ {p}
    /\ Report(Seen("delete", p, IsDir(p)) \o SeenSelf(p))
    /\ watches' = [wd \in DOMAIN watches \ Watching(p) |-> watches[wd]]
    /\ IF IsDir(p) THEN removed' = removed \cup {p} /\ UNCHANGED unlinked
                   ELSE unlinked' = unlinked \cup {p} /\ UNCHANGED removed

-----------------------------------------------------------------------------
(* winevfs_add_read_directory *)

Frame(d, recursive, search) ==
    [dir |-> d, recursive |-> recursive, search |-> search,
     at |-> "start", left |-> {}]

Top == scan[Len(scan)]
Rest == Front(scan)

\* The directory is there, or the scan ends; whether it is a directory is read from
\* the result of the same stat (vfs.cpp:462, vfs.cpp:491).  What is a file by now is
\* opened all the same.
Arrive ==
    /\ scan # << >> /\ Top.at = "start"
    /\ scan' = IF Top.dir \in disk
               THEN Append(Rest, [Top EXCEPT !.at = "entered"]) ELSE Rest
    /\ misread' = misread \cup ({Top.dir} \cap (disk \ dirs))
    /\ UNCHANGED <<tree, queue, listener, explored, mapped, removed, unlinked, madeup,
                   forgotten, overflowed, changes>>

\* Variant: the directory is not watched by its own scan.
EnterUnwatched ==
    /\ Arrive
    /\ registered' = registered \cup ({Top.dir} \cap dirs)
    /\ UNCHANGED <<watches, fdtable, reverse_fdtable>>

\* Variant: what is a file by now is watched and registered too.
EnterFile ==
    /\ Arrive
    /\ IF Top.dir \in disk
       THEN WatchDirectory(Top.dir) /\ registered' = registered \cup {Top.dir}
       ELSE UNCHANGED <<watches, fdtable, reverse_fdtable, registered>>

\* A directory is watched and registered.
Enter ==
    /\ Arrive
    /\ IF IsDir(Top.dir)
       THEN WatchDirectory(Top.dir) /\ registered' = registered \cup {Top.dir}
       ELSE UNCHANGED <<watches, fdtable, reverse_fdtable, registered>>

\* opendir; what is no directory by now is taken for a file, were it gone.
OpenDirectory ==
    /\ scan # << >> /\ Top.at = "entered"
    /\ IF IsDir(Top.dir)
       THEN /\ scan' = Append(Rest, [Top EXCEPT !.at = "reading",
                                                !.left = Below(Top.dir)])
            /\ UNCHANGED mapped
       ELSE scan' = Rest /\ mapped' = mapped \cup {Top.dir}
    /\ UNCHANGED <<tree, inotify, listener, registered, explored, history, changes>>

\* Variant: sub-directories are mapped as if they were files.
TakeEntryFile(p) ==
    /\ scan # << >> /\ Top.at = "reading" /\ p \in Top.left
    /\ mapped' = mapped \cup {p}
    /\ scan' = Append(Rest, [Top EXCEPT !.left = @ \ {p}])
    /\ UNCHANGED <<tree, inotify, listener, registered, explored, history, changes>>

\* readdir: a sub-directory is watched and registered, and scanned in turn if
\* the scan is recursive, one level, or leads to the path looked up.  Anything
\* else is mapped, what is gone by now included.
TakeEntry(p) ==
    /\ scan # << >> /\ Top.at = "reading" /\ p \in Top.left
    /\ LET outer == Append(Rest, [Top EXCEPT !.left = @ \ {p}]) IN
       IF IsDir(p)
       THEN /\ WatchDirectory(p)
            /\ registered' = registered \cup {p}
            /\ scan' = IF Top.recursive \/ IsPrefix(p, Top.search)
                       THEN Append(outer, Frame(p, FALSE, Top.search)) ELSE outer
            /\ UNCHANGED mapped
       ELSE /\ mapped' = mapped \cup {p}
            /\ scan' = outer
            /\ UNCHANGED <<watches, fdtable, reverse_fdtable, registered>>
    /\ UNCHANGED <<tree, queue, listener, explored, history, changes>>

\* operator[] registers a directory that was a file when it was entered.
CloseDirectory ==
    /\ scan # << >> /\ Top.at = "reading" /\ Top.left = {}
    /\ registered' = registered \cup {Top.dir}
    /\ explored' = explored \cup {Top.dir}
    /\ scan' = Rest
    /\ UNCHANGED <<tree, inotify, listener, mapped, history, changes>>

Scan == \/ Enter \/ OpenDirectory \/ CloseDirectory
        \/ \E p \in Dirs \cup Files : TakeEntry(p)

-----------------------------------------------------------------------------
(* The process *)

\* find_read_mapping for a path in folder d that is not mapped: the first
\* registered folder on the way up is scanned, unless it has been.
Lookup(d) ==
    /\ scan = << >>
    /\ \E r \in registered \ explored :
          /\ IsPrefix(r, d)
          /\ \A s \in registered : IsPrefix(s, d) => Len(s) <= Len(r)
          /\ scan' = <<Frame(r, FALSE, d)>>
    /\ UNCHANGED <<tree, inotify, listener, tables, history, changes>>

PathOf(wd) == IF wd \in DOMAIN fdtable THEN fdtable[wd] ELSE NoPath

\* Variant: the event stays in the buffer.
TakeEventAgain(e) ==
    /\ scan = << >> /\ listener /\ queue # << >> /\ e = Head(queue)
    /\ UNCHANGED <<tree, inotify, listener, registered, explored, removed, unlinked,
                   misread, forgotten, overflowed, changes>>

\* process_inotify_event and listener_cb
TakeEvent(e) ==
    /\ scan = << >> /\ listener /\ queue # << >> /\ e = Head(queue)
    /\ queue' = Tail(queue)
    /\ UNCHANGED <<tree, watches, fdtable, reverse_fdtable, listener, registered,
                   explored, removed, unlinked, misread, forgotten, overflowed, changes>>

HearDirectory(e) ==
    /\ e.kind = "create" /\ e.isdir /\ PathOf(e.wd) \in registered
    /\ TakeEvent(e)
    /\ scan' = <<Frame(Append(PathOf(e.wd), e.name), TRUE, << >>)>>
    /\ UNCHANGED <<mapped, madeup>>

HearFile(e) ==
    /\ e.kind = "create" /\ ~e.isdir /\ PathOf(e.wd) \in registered
    /\ TakeEvent(e)
    /\ mapped' = mapped \cup {Append(PathOf(e.wd), e.name)}
    /\ UNCHANGED <<scan, madeup>>

\* A deletion changes a listing only; see Exploration.
HearDeletion(e) ==
    /\ e.kind \in {"delete", "delete_self"}
    /\ TakeEvent(e)
    /\ UNCHANGED <<mapped, madeup, scan>>

\* event.event is not set for the other two kinds, and they carry no name: the
\* event may be taken for a deletion, or for the creation of a file in the
\* directory of its descriptor, if that has one, under whatever name follows in the
\* buffer, or under none.
HearOther(e) ==
    /\ e.kind \in {"ignored", "overflow"}
    /\ TakeEvent(e)
    /\ \/ UNCHANGED <<mapped, madeup>>
       \/ \E p \in Dirs \cup Files :
             /\ PathOf(e.wd) \in registered \cap {p, Parent(p)}
             /\ mapped' = mapped \cup {p} /\ madeup' = madeup \cup {p}
    /\ UNCHANGED scan

Listen == \E e \in {queue[i] : i \in 1..Len(queue)} :
             \/ HearDirectory(e) \/ HearFile(e)
             \/ HearDeletion(e) \/ HearOther(e)

\* The child of a fork has the tables and no listener.
Fork ==
    /\ scan = << >> /\ listener
    /\ listener' = FALSE
    /\ UNCHANGED <<tree, inotify, tables, scan, history, changes>>

\* winevfs_init(true, true): a new instance and a new listener, and the VFS file
\* is read again.
Setsid ==
    /\ scan = << >> /\ ~listener
    /\ listener' = TRUE
    /\ watches' = [wd \in {1} |-> << >>]
    /\ fdtable' = [wd \in {1} |-> << >>]
    /\ reverse_fdtable' = [d \in {<< >>} |-> 1]
    /\ queue' = << >>
    /\ forgotten' = explored
    /\ UNCHANGED <<tree, tables, scan, removed, unlinked, misread, madeup, overflowed,
                   changes>>

-----------------------------------------------------------------------------

\* The VFS file has been read.
Init ==
    /\ disk \in {{<< >>} \cup S : S \in SUBSET (Dirs \cup Files)}
    /\ dirs \in {D \in SUBSET (disk \cap Dirs) : disk \ D \subseteq Files}
    /\ << >> \in dirs
    /\ \A p \in disk \ {<< >>} : IsDir(Parent(p))
    /\ watches = [wd \in {1} |-> << >>]
    /\ fdtable = [wd \in {1} |-> << >>]
    /\ reverse_fdtable = [d \in {<< >>} |-> 1]
    /\ queue = << >>
    /\ listener = TRUE
    /\ registered = {<< >>} /\ explored = {} /\ mapped = {}
    /\ scan = << >>
    /\ removed = {} /\ unlinked = {} /\ misread = {} /\ madeup = {}
    /\ forgotten = {} /\ overflowed = FALSE /\ changes = 0

Next ==
    \/ \E p \in (Dirs \cup Files) \ {<< >>} :
          Vanish(p) \/ \E isdir \in BOOLEAN : Appear(p, isdir)
    \/ Scan
    \/ \E d \in Dirs : Lookup(d)
    \/ Listen
    \/ Fork \/ Setsid

Spec == Init /\ [][Next]_vars

\* A scan goes on, and the listener reads its queue: lookups leave the mutex to it
\* again and again.
FairSpec == Spec /\ WF_vars(Scan) /\ SF_vars(Listen)

-----------------------------------------------------------------------------
(* Properties *)

TypeOK ==
    /\ dirs \subseteq disk \cap Dirs /\ disk \ dirs \subseteq Files
    /\ << >> \in dirs /\ \A p \in disk \ {<< >>} : IsDir(Parent(p))
    /\ \A wd \in DOMAIN watches : watches[wd] \in dirs /\ fdtable[wd] = watches[wd]
    /\ DOMAIN reverse_fdtable \subseteq Dirs
    /\ Len(queue) <= MaxQueue + 1
    /\ explored \subseteq registered /\ registered \subseteq Dirs
    /\ mapped \subseteq Dirs \cup Files

\* A directory inotify has lost sight of: it has been removed once, or there was
\* no watch left for it, or it was a file when it was to be watched.
Lost(d) ==
    \/ d \in removed \cup misread
    \/ d \in DOMAIN reverse_fdtable /\ reverse_fdtable[d] = -1

\* As what it is now.
Known(p) == p \in IF IsDir(p) THEN registered ELSE mapped

Announced(p) ==
    \E i \in 1..Len(queue) :
        /\ queue[i].kind = "create" /\ (queue[i].isdir <=> IsDir(p))
        /\ PathOf(queue[i].wd) = Parent(p) /\ queue[i].name = Last(p)

\* No file and no directory that appears in an explored folder goes unnoticed,
\* however scans, events and other processes interleave: it is known as what it is,
\* or an event that makes it known is in the queue (README: "will contain every
\* file/folder (recursively)").  Left out are directories that were removed
\* before, or were files when they were to be watched, those inotify had no watch
\* for, those explored before setsid, and everything once the queue has overflowed.
Unmissed ==
    scan = << >> /\ listener /\ ~overflowed =>
        \A p \in disk \ {<< >>} :
            Parent(p) \in explored /\ ~Lost(Parent(p)) /\ Parent(p) \notin forgotten
                => Known(p) \/ Announced(p)

\* A directory that is mapped as if it were a file, which hides what other records
\* have for it, is one that took the place of something: of a directory that was
\* removed while a scan had it in hand (vfs.cpp:531), or of a file, whose mapping
\* stays when it is deleted (vfs.cpp:574) and is made even later than that if its
\* event comes late (vfs.cpp:937).  Otherwise an event of neither kind named it
\* (inotify.cpp:23, inotify.cpp:44).
FolderNotMapped ==
    \A d \in dirs \cap mapped : d \in removed \cup unlinked \cup madeup

\* What appears in an explored folder is known in the end, if it stays, unless
\* inotify lost it or the process is forked.
Noticed ==
    \A p \in (Dirs \cup Files) \ {<< >>} :
        (p \in disk /\ Parent(p) \in explored)
            ~> (\/ Known(p) \/ p \notin disk \/ overflowed \/ ~listener
                \/ Lost(Parent(p)) \/ Parent(p) \in forgotten)
=============================================================================
