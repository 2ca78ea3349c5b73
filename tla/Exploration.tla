----------------------------- MODULE Exploration ------------------------------
(***************************************************************************)
(* How winevfs finds a file below a virtual folder (src/src/vfs.cpp): the  *)
(* VFS file is loaded into tables, the tables are filled in as lookups     *)
(* explore folders, calls create, delete and rename, inotify announces     *)
(* that to the listener, and a lookup that still finds nothing falls back  *)
(* to the write directory or to the path itself.  Whole trees of folders,  *)
(* one thread, which makes a call when the listener has nothing to do;     *)
(* VfsLookup has the threads and the delayed events.                       *)
(***************************************************************************)
EXTENDS VfsPaths

CONSTANTS
    Names,     \* of files and directories
    VfsFiles,  \* VFS files: sequences of records [op, virtual, real]
    Trees,     \* the sets of files that may exist at first
    Homes,     \* real directories that exist though they may be empty
    Calls,     \* the calls the program makes: [op, path, to]
    Loading,   \* how the VFS file may be read: lazily, or "?full="
    Suffix,    \* <<name, its beginning>> |-> the rest of the name
    NoFile,    \* the call opened nothing
    Undefined  \* the code has undefined behaviour

\* A record is R or W, no W record covers the folder of another, and the real
\* paths of two records are apart: none is the same as another, or above it.
ASSUME RecordsType ==
    /\ \A rs \in VfsFiles : \A i \in DOMAIN rs :
          /\ rs[i].op \in {"R", "W"}
          /\ \A j \in DOMAIN rs \ {i} :
                /\ rs[i].op = "W" /\ rs[j].op = "W"
                   => ~IsPrefix(rs[i].virtual, rs[j].virtual)
                /\ ~IsPrefix(rs[i].real, rs[j].real)
    /\ Loading \subseteq {"lazy", "full"}

ASSUME NamesType == "" \notin Names

ASSUME InputTypes ==
    /\ \A rs \in VfsFiles :
          rs \in Seq([op : {"R", "W"}, virtual : Seq(Names) \ {<< >>},
                                      real : Seq(Names)])
    /\ Homes \subseteq Seq(Names)
    /\ \A t \in Trees :
          /\ t \subseteq Seq(Names) \ ({<< >>} \cup Homes)
          /\ \A f \in t \cup Homes : Ancestors(f) \cap t = {}
    /\ \A c \in Calls : c.path \in Seq(Names) /\ c.to \in Seq(Names)
    /\ \A cut \in DOMAIN Suffix : Suffix[cut] \in Names
    /\ Undefined \notin Seq(Names \cup {""})

VARIABLES
    records,         \* the VFS file
    disk,            \* the files that exist, by their real path
    dirs,            \* the directories that exist
    answer,          \* the last call, and the file it opened
    mode,            \* how this process reads the VFS file
    loaded,          \* records read so far
    vfs,             \* read_mappings, winevfs_folder_mappings, its reverse,
                     \* and the directories with an inotify watch
    write_mappings,
    events,          \* inotify events the listener has still to read
    spared           \* history: the files a failed rename did not remove

vars == <<records, disk, dirs, answer, mode, loaded, vfs, write_mappings,
          events, spared>>

Missing(p) == vfs.mapped[p] \notin disk \cup dirs

\* The tables are hidden, except for mappings to what does not exist.
Promise == INSTANCE Overlay
    WITH bound <- [p \in {q \in DOMAIN vfs.mapped : Missing(q)} |-> vfs.mapped[p]]

IsDir(d) == d \in dirs
FilesIn(d) == {f \in disk : f # << >> /\ Parent(f) = d}
DirsIn(d) == {q \in dirs : q # << >> /\ Parent(q) = d}

-----------------------------------------------------------------------------
(* add_folder, _add_read_entry *)

NewFolder == [paths |-> << >>, children |-> {}, explored |-> FALSE]
FolderAt(folders, v) == IF v \in DOMAIN folders THEN folders[v] ELSE NewFolder

\* Variant: a directory is put in front of those that are there.
AdjoinFront(paths, dests) == SetToSeq(dests \ ToSet(paths)) \o paths

\* Variant: a directory is added whether it is there or not.
AdjoinAgain(paths, dests) == paths \o SetToSeq(dests)

\* unique_vector::insert of each element.
Adjoin(paths, dests) == paths \o SetToSeq(dests \ ToSet(paths))

\* The real directory add_folder registers for ancestor v of folder: the
\* same number of levels up, while the names on the way agree.
AlignedDest(folder, dest, v) ==
    LET levels == Len(folder) - Len(v) IN
    IF /\ levels <= Len(dest)
       /\ \A j \in 1..levels : FileName(Up(folder, j)) = FileName(Up(dest, j))
    THEN {Up(dest, levels)} ELSE {}

\* Variant: the directory leads back to the folder above.
RegisterReverseParent(reverse, folders, pairs) ==
    [d \in DOMAIN reverse \cup {pr[2] : pr \in pairs} |->
        IF \E pr \in pairs : pr[2] = d
        THEN Parent((CHOOSE pr \in pairs : pr[2] = d)[1]) ELSE reverse[d]]

\* add_folder: the reverse mapping of each <<folder, dest>> in pairs, and of
\* what each folder on the way up would be called in the last directory of
\* the folder above, whether that exists or not.
RegisterReverse(reverse, folders, pairs) ==
    LET named == {pr \in pairs : pr[1] # pr[2]}
        known == [d \in DOMAIN reverse \cup {pr[2] : pr \in named} |->
                     IF \E pr \in named : pr[2] = d
                     THEN (CHOOSE pr \in named : pr[2] = d)[1] ELSE reverse[d]]
        Above(v) == FolderAt(folders, Parent(v)).paths
        climbed == {v \in UNION {OnPath(pr[1]) : pr \in named} :
                       v # << >> /\ Above(v) # << >> /\ Last(Above(v)) \in DOMAIN known}
        Alt(v) == Append(Last(Above(v)), Last(v))
    IN  Override([d \in {Alt(v) : v \in climbed} |-> CHOOSE v \in climbed : Alt(v) = d],
                 known)

\* add_folder: the folder and its ancestors, each listed by the one above.
AddFolder(st, folder, dests) ==
    LET Aligned(v) == UNION {AlignedDest(folder, d, v) : d \in dests}
        line == OnPath(folder)
        folders ==
            [v \in DOMAIN st.folders \cup line |->
                LET old == FolderAt(st.folders, v) IN
                IF v \notin line THEN old
                ELSE [old EXCEPT
                         !.paths = Adjoin(@, Aligned(v)),
                         !.children = @ \cup IF v = folder THEN {}
                                             ELSE {folder[Len(v) + 1]}]]
    IN  [st EXCEPT
            !.folders = folders,
            !.reverse = RegisterReverse(@, folders,
                           UNION {{v} \X Aligned(v) : v \in line})]

\* Variant: the folder does not list the new file.
AddReadEntryUnlisted(st, source, destination) ==
    LET parents == AddFolder(st, Parent(source), {}) IN
    [parents EXCEPT !.mapped = Put(@, source, destination)]

\* _add_read_entry of a file.
AddReadEntry(st, source, destination) ==
    LET parents == AddFolder(st, Parent(source), {}) IN
    [parents EXCEPT !.mapped = Put(@, source, destination),
                    !.folders[Parent(source)].children = @ \cup {Last(source)}]

\* _add_read_entry of a folder, which watches its directory.
AddReadFolder(st, source, destination) ==
    [AddFolder(st, source, {destination}) EXCEPT !.watched = @ \cup {destination}]

-----------------------------------------------------------------------------
(* winevfs_add_read_directory *)

\* The folders one call scans: source, the sub-folders on the way to the path
\* that is looked up, and if recursive those directly below source.
Scanned(source, destination, search, recursive) ==
    {source}
    \cup {v \in OnPath(search) :
             /\ IsStrictPrefix(source, v)
             /\ IsDir(Relocate(v, source, destination))}
    \cup {Relocate(d, destination, source) :
             d \in {q \in DirsIn(destination) : recursive}}

\* What is found in the folders that are scanned.
AddEntries(st, source, destination, scanned) ==
    LET Real(v) == Relocate(v, source, destination)
        Virtual(S) == {Relocate(d, destination, source) : d \in S}
        foundFiles == UNION {Virtual(FilesIn(Real(v))) : v \in scanned}
        foundDirs == UNION {Virtual(DirsIn(Real(v))) : v \in scanned}
        folders ==
            [v \in DOMAIN st.folders \cup foundDirs |->
                LET old == FolderAt(st.folders, v) IN
                [paths    |-> IF v \in foundDirs THEN Adjoin(old.paths, {Real(v)})
                                                 ELSE old.paths,
                 children |-> old.children \cup
                    {Last(p) : p \in {q \in foundFiles \cup foundDirs :
                                         Parent(q) = v}},
                 explored |-> old.explored \/ v \in scanned]]
    IN  [mapped  |-> Override([p \in foundFiles |-> Real(p)], st.mapped),
         folders |-> folders,
         reverse |-> RegisterReverse(st.reverse, folders,
                        {<<v, Real(v)>> : v \in foundDirs}),
         watched |-> st.watched \cup {Real(v) : v \in foundDirs}]

\* What opendir fails on is a file, and is mapped as one.
AddReadDirectory(st, source, destination, search, recursive) ==
    IF IsDir(destination)
    THEN AddEntries(AddReadFolder(st, source, destination), source, destination,
                    Scanned(source, destination, search, recursive))
    ELSE IF destination \in disk THEN AddReadEntry(st, source, destination)
    ELSE st

\* winevfs_delete_file: the listing entry goes, the mapping stays.
DeleteFile(st, real) ==
    IF /\ Parent(real) \in DOMAIN st.reverse
       /\ st.reverse[Parent(real)] \in DOMAIN st.folders
    THEN [st EXCEPT !.folders[st.reverse[Parent(real)]].children =
                                @ \ {Last(real)}]
    ELSE st

-----------------------------------------------------------------------------

DirsOf(files) ==
    Homes \cup {<< >>} \cup UNION {Ancestors(f) : f \in files \cup Homes}

Init ==
    /\ records \in VfsFiles
    /\ disk \in Trees
    /\ dirs = DirsOf(disk)
    /\ answer = Promise!NoAnswer
    /\ mode \in Loading
    /\ loaded = 0
    /\ vfs = [mapped |-> << >>, folders |-> << >>, reverse |-> << >>, watched |-> {}]
    /\ write_mappings = << >>
    /\ events = << >>
    /\ spared = {}

\* winevfs_read_vfsfile, one record.
LoadRecord ==
    /\ loaded < Len(records)
    /\ loaded' = loaded + 1
    /\ LET r == records[loaded + 1] IN
          /\ vfs' = IF ~IsDir(r.real) THEN AddReadEntry(vfs, r.virtual, r.real)
                    ELSE IF mode = "full"
                    THEN AddReadDirectory(vfs, r.virtual, r.real, << >>, TRUE)
                    ELSE AddReadFolder(vfs, r.virtual, r.real)
          /\ write_mappings' = IF r.op = "W"
                               THEN Put(write_mappings, r.virtual, r.real)
                               ELSE write_mappings
    /\ UNCHANGED <<records, disk, dirs, answer, mode, events, spared>>

-----------------------------------------------------------------------------
(* winevfs_get_path *)

\* What is left of p when the folder v is taken from its front as a string:
\* the last name of v may be the beginning of a longer name.
Rests(v, p) ==
    IF IsPrefix(v, p) THEN {SubSeq(p, Len(v) + 1, Len(p))}
    ELSE {<<Suffix[cut]>> \o SubSeq(p, Len(v) + 1, Len(p)) :
             cut \in {c \in DOMAIN Suffix :
                         /\ v # << >> /\ Len(v) <= Len(p)
                         /\ c = <<p[Len(v)], Last(v)>>
                         /\ IsPrefix(Parent(v), p)}}

\* Variant: the file is put directly in the directory of the W record.
WriteMappingFlat(p) ==
    LET places == {Append(write_mappings[v], Last(p)) :
                      v \in {w \in DOMAIN write_mappings : Rests(w, p) # {}}}
    IN  IF places = {} THEN << >> ELSE <<CHOOSE q \in places : TRUE>>

\* find_write_mapping: the place of p below the directory of a W record, the
\* first that matches in an order of no meaning; empty if there is none.
WriteMapping(p) ==
    LET places == UNION {{write_mappings[v] \o rest : rest \in Rests(v, p)} :
                            v \in DOMAIN write_mappings}
    IN  IF places = {} THEN << >> ELSE <<CHOOSE q \in places : TRUE>>

FolderVec(st, v) == st.folders[v].paths \o WriteMapping(v)

\* The empty path, which is not that of the root.
NoFolder == <<"">>

\* A path inside a known real directory is looked up as the virtual one.
Translated(st, p) ==
    LET known == {d \in DOMAIN st.reverse : d # << >> /\ IsPrefix(d, p)}
        real  == LongestOf(known)
        folder == st.reverse[real]
    IN  IF known = {} THEN p
        ELSE Relocate(p, real, IF folder = NoFolder /\ real # p THEN << >> ELSE folder)

\* The folder find_read_mapping stops at on its way up from p.
Deciding(st, p) ==
    {v \in DOMAIN st.folders :
        /\ v # << >> /\ IsPrefix(v, p)
        /\ st.folders[v].explored \/ FolderVec(st, v) # << >>}

\* Variant: a folder is explored from its first directory only.
ExploreFirst(st, v, p) ==
    AddReadDirectory(st, v, FolderVec(st, v)[1], p, FALSE)

\* foldervec, directory by directory.
Explore(st, v, p) ==
    LET foldervec == FolderVec(st, v)
        read[i \in 0..Len(foldervec)] ==
            IF i = 0 THEN st
            ELSE AddReadDirectory(read[i - 1], v, foldervec[i], p, FALSE)
    IN  read[Len(foldervec)]

\* The tables once find_read_mapping has returned.
Found(st, p) ==
    IF \/ p \in DOMAIN st.mapped
       \/ Deciding(st, p) = {}
       \/ st.folders[LongestOf(Deciding(st, p))].explored
    THEN st ELSE Explore(st, LongestOf(Deciding(st, p)), p)

\* A folder that is no real directory itself is the last of its directories:
\* back() of a vector that may be empty.
FolderPath(folder, v) ==
    IF IsDir(v) THEN v
    ELSE IF folder.paths # << >> THEN Last(folder.paths) ELSE Undefined

\* winevfs_get_path: the tables it leaves, the real path, and the directories
\* it has made.
Gives(tables, real, made, intent) ==
    [vfs |-> IF intent = "Delete" THEN DeleteFile(tables, real) ELSE tables,
     real |-> real, made |-> made]

\* fs_mkdir_p makes no directory at, or below, a file.
MadeFor(newpath) == {d \in Ancestors(newpath) : OnPath(d) \cap disk = {}}

\* Once find_read_mapping has left the tables found: p was asked for, and looked
\* up as v.
Redirect(found, v, p, intent) ==
    IF v \in DOMAIN found.mapped THEN Gives(found, found.mapped[v], {}, intent)
    ELSE IF v \in DOMAIN found.folders
    THEN Gives(found, FolderPath(found.folders[v], v), {}, intent)
    ELSE IF intent = "Create" /\ WriteMapping(v) # << >>
    THEN LET newpath == WriteMapping(v)[1] IN
         Gives(AddReadEntry(found, v, newpath), newpath, MadeFor(newpath), intent)
    ELSE Gives(found, p, {}, intent)

GetPath(st, p, intent) ==
    LET v == Translated(st, p) IN Redirect(Found(st, v), v, p, intent)

-----------------------------------------------------------------------------
(* The calls, and the listener *)

\* What inotify reports of a change to file, if its directory is watched.
Reports(watched, event, file, isdir) ==
    IF Parent(file) \in watched
    THEN <<[event |-> event, file |-> file, isdir |-> isdir]>> ELSE << >>

\* Of the directories that are made only the first can be below a watched one.
ReportsMade(watched, made) ==
    LET noticed == {d \in made \ dirs : Parent(d) \in watched} IN
    IF noticed = {} THEN << >>
    ELSE Reports(watched, "R", CHOOSE d \in noticed : TRUE, TRUE)

Answers(c, f) == answer' = [op |-> c.op, path |-> c.path, file |-> f]

Ready == loaded = Len(records) /\ events = << >>

\* Where a file can be made, or is: open and rename fail on a directory.
Writable(f, made) ==
    f \notin dirs \cup {Undefined} /\ Parent(f) \in dirs \cup made

\* fopen asks to create for "w" only; open and creat for O_CREAT.  A new file
\* that fopen appends to is opened as if for reading.
Open(c) ==
  /\ Ready /\ c.op \in {"read", "append", "create"}
  /\ \E got \in {GetPath(vfs, c.path, IF c.op = "create" THEN "Create" ELSE "Read")} :
       LET creates == c.op # "read" /\ Writable(got.real, got.made) IN
       /\ vfs' = got.vfs
       /\ dirs' = dirs \cup got.made
       /\ disk' = IF creates THEN disk \cup {got.real} ELSE disk
       /\ events' = ReportsMade(got.vfs.watched, got.made) \o
                    IF creates /\ got.real \notin disk
                    THEN Reports(got.vfs.watched, "R", got.real, FALSE)
                    ELSE << >>
       /\ Answers(c, IF got.real \in disk' THEN got.real ELSE NoFile)
       /\ UNCHANGED <<records, mode, loaded, write_mappings, spared>>

Unlink(c) ==
  /\ Ready /\ c.op = "unlink"
  /\ \E got \in {GetPath(vfs, c.path, "Delete")} :
       /\ vfs' = got.vfs
       /\ disk' = disk \ {got.real}
       /\ events' = IF got.real \in disk
                    THEN Reports(got.vfs.watched, "D", got.real, FALSE) ELSE << >>
       /\ Answers(c, IF got.real \in disk THEN got.real ELSE NoFile)
       /\ UNCHANGED <<records, dirs, mode, loaded, write_mappings, spared>>

\* The old path is looked up to be deleted, then the new one to be created,
\* and then rename may find that there is nothing to rename.
Rename(c) ==
  /\ Ready /\ c.op = "rename"
  /\ \E old \in {GetPath(vfs, c.path, "Delete")} :
     \E new \in {GetPath(old.vfs, c.to, "Create")} :
       LET renames == old.real \in disk /\ Writable(new.real, new.made) IN
       /\ vfs' = new.vfs
       /\ dirs' = dirs \cup new.made
       /\ disk' = IF renames THEN (disk \ {old.real}) \cup {new.real} ELSE disk
       /\ events' = ReportsMade(new.vfs.watched, new.made) \o
                    IF renames
                    THEN Reports(new.vfs.watched, "D", old.real, FALSE)
                         \o Reports(new.vfs.watched, "R", new.real, FALSE)
                    ELSE << >>
       /\ spared' = IF renames THEN spared ELSE spared \cup {old.real}
       /\ Answers(c, IF renames THEN new.real ELSE NoFile)
       /\ UNCHANGED <<records, mode, loaded, write_mappings>>

Mkdir(c) ==
  /\ Ready /\ c.op = "mkdir"
  /\ \E got \in {GetPath(vfs, c.path, "Create")} :
       LET makes == got.real \notin disk /\ Writable(got.real, got.made)
           made == got.made \cup IF makes THEN {got.real} ELSE {}
       IN  /\ vfs' = got.vfs
           /\ dirs' = dirs \cup made
           /\ events' = ReportsMade(got.vfs.watched, made)
           /\ Answers(c, IF makes THEN got.real ELSE NoFile)
           /\ UNCHANGED <<records, disk, mode, loaded, write_mappings, spared>>

\* stat or access of a folder
Stat(c) ==
  /\ Ready /\ c.op = "stat"
  /\ \E got \in {GetPath(vfs, c.path, "Read")} :
       /\ vfs' = got.vfs
       /\ Answers(c, IF got.real \in dirs \cup {Undefined} THEN got.real ELSE NoFile)
       /\ UNCHANGED <<records, disk, dirs, mode, loaded, write_mappings, events,
                      spared>>

\* winevfs_opendir_fill_info: looking for the reverse mapping of a directory that
\* is not a known folder makes an empty one.
OpendirFillInfo(st, p) ==
    IF p \in DOMAIN st.folders \cup DOMAIN st.reverse THEN st
    ELSE [st EXCEPT !.reverse = Put(@, p, NoFolder)]

\* The stream remembers the path the program asked for.
Opendir(c) ==
  /\ Ready /\ c.op = "opendir"
  /\ \E got \in {GetPath(vfs, c.path, "Read")} :
       /\ vfs' = IF got.real \in dirs THEN OpendirFillInfo(got.vfs, c.path) ELSE got.vfs
       /\ Answers(c, IF got.real \in dirs \cup {Undefined} THEN got.real ELSE NoFile)
       /\ UNCHANGED <<records, disk, dirs, mode, loaded, write_mappings, events,
                      spared>>

\* Variant: the event of a directory is treated as that of a file.
ListenFiles ==
    /\ events # << >>
    /\ events' = Tail(events)
    /\ LET e == Head(events) IN
       vfs' = IF e.event # "R" THEN DeleteFile(vfs, e.file)
              ELSE IF Parent(e.file) \notin DOMAIN vfs.reverse THEN vfs
              ELSE AddReadEntry(vfs, Append(vfs.reverse[Parent(e.file)], Last(e.file)),
                                e.file)
    /\ UNCHANGED <<records, disk, dirs, answer, mode, loaded, write_mappings, spared>>

\* listener_cb
Listen ==
    /\ events # << >>
    /\ events' = Tail(events)
    /\ LET e == Head(events) IN
       vfs' = IF e.event # "R" THEN DeleteFile(vfs, e.file)
              ELSE IF Parent(e.file) \notin DOMAIN vfs.reverse THEN vfs
              ELSE LET newpath == Append(vfs.reverse[Parent(e.file)], Last(e.file)) IN
                   IF e.isdir
                   THEN AddReadDirectory(vfs, newpath, e.file, << >>, TRUE)
                   ELSE AddReadEntry(vfs, newpath, e.file)
    /\ UNCHANGED <<records, disk, dirs, answer, mode, loaded, write_mappings, spared>>

Next ==
    \/ LoadRecord
    \/ Listen
    \/ \E c \in Calls : \/ Open(c) \/ Unlink(c) \/ Rename(c)
                       \/ Mkdir(c) \/ Stat(c) \/ Opendir(c)

Spec == Init /\ [][Next]_vars

-----------------------------------------------------------------------------
(* Properties *)

Quiet == loaded = Len(records) /\ events = << >>

\* Every file and directory is in one, no folder has a real directory twice, and
\* only directories are watched.
TypeOK ==
    /\ loaded \in 0..Len(records)
    /\ disk \cap dirs = {} /\ \A f \in disk \cup dirs : Ancestors(f) \subseteq dirs
    /\ vfs.watched \subseteq dirs
    /\ \A v \in DOMAIN vfs.folders :
          /\ vfs.folders[v].explored \in BOOLEAN
          /\ ToSet(vfs.folders[v].paths) \subseteq dirs
          /\ IsInjective(vfs.folders[v].paths)

\* Whatever has been loaded or explored, and in whatever order the program
\* opens, deletes, renames, makes and looks at its paths, virtual or real, each
\* call does what the VFS file promises (README, "Usage"): lazy exploration is
\* not observable.
Implements == Promise!Spec

\* A folder whose parent has been explored knows every real directory that
\* provides it, in the order of the records, so that a later exploration maps
\* its files with the right priority.
LayersOf(v) == Promise!Layers(v)

LastAt(s, e) == Max({i \in DOMAIN s : s[i] = e})

LayersKnown ==
    Quiet => \A v \in DOMAIN vfs.folders :
        \/ v = << >> \/ LayersOf(v) = {}
        \/ /\ \A i \in DOMAIN records : records[i].virtual # v
           /\ ~FolderAt(vfs.folders, Parent(v)).explored
        \/ /\ \A i \in LayersOf(v) : Promise!Target(i, v) \in ToSet(FolderVec(vfs, v))
           /\ \A i, j \in LayersOf(v) : i < j =>
                 LastAt(FolderVec(vfs, v), Promise!Target(i, v))
                    <= LastAt(FolderVec(vfs, v), Promise!Target(j, v))

\* What the directory that record i puts at v holds.
Held(v, i) == {Last(e) : e \in FilesIn(Promise!Target(i, v))
                               \cup DirsIn(Promise!Target(i, v))}

\* An explored folder lists the files and folders of its real directories,
\* those created or renamed since included, and nothing else (README: "will
\* contain every file/folder (recursively)").  Left open are the names that
\* were deleted, though a lower directory may have them, those whose creation
\* failed, those that a failed rename has erased from the listing, and those in a
\* directory that is not watched (LayersWatched says which these are).
ListingExact ==
    Quiet =>
      \A v \in DOMAIN vfs.folders : vfs.folders[v].explored =>
        LET unwatched == {i \in LayersOf(v) : Promise!Target(i, v) \notin vfs.watched}
            open == {Last(p) : p \in {q \in DOMAIN vfs.mapped : Parent(q) = v /\
                                        (Missing(q) \/ vfs.mapped[q] \in spared)}}
                    \cup UNION {Held(v, i) : i \in unwatched}
        IN  vfs.folders[v].children \ open
                = (UNION {Held(v, i) : i \in LayersOf(v)}) \ open

\* The folder of a record and its directory lie in folders of different names:
\* add_folder climbs to no other pair from them (vfs.cpp:349).
Plain ==
    \A rs \in VfsFiles : \A i \in DOMAIN rs :
        \/ rs[i].real = << >>
        \/ FileName(Parent(rs[i].virtual)) # FileName(Parent(rs[i].real))

\* Whatever is in a tree and in a VFS file, the layers of a virtual path are all
\* files or all directories, and so is the path itself.  Virtual folders do not lie
\* in each other, and the W record of one comes last.  What a record names exists, and
\* is not the root; if it is a file, then it is the only one for its path and not in
\* a virtual folder.
LayersAgree(rs, files) ==
    \A i \in DOMAIN rs :
        LET r == rs[i]
            twins == {j \in DOMAIN rs : rs[j].virtual = r.virtual}
            spots == {r.virtual} \cup {rs[j].real : j \in twins}
        IN  /\ r.real \in (files \cup DirsOf(files)) \ {<< >>}
            /\ r.real \in files => /\ twins = {i}
                                   /\ \A j \in DOMAIN rs : ~IsPrefix(rs[j].virtual, r.real)
            /\ r.op = "W" => \A j \in twins : j <= i
            /\ \A j \in DOMAIN rs : ~IsStrictPrefix(r.virtual, rs[j].virtual)
            /\ \A f \in files :
                  /\ ~IsStrictPrefix(f, r.virtual)
                  /\ \A x, y \in spots :
                        IsPrefix(x, f) => Relocate(f, x, y) \notin DirsOf(files)

Layered == \A rs \in VfsFiles, files \in Trees : LayersAgree(rs, files)

\* The program reads: it opens files, and looks at folders and into them.
Reading == \A c \in Calls : c.op \in {"read", "stat", "opendir"}

\* It looks into a directory that exists, but that no record provides, or into a
\* missing one that a record is behind.
LooksElsewhere ==
    \E c \in Calls, rs \in VfsFiles, files \in Trees :
        /\ c.op = "opendir"
        /\ IF \E i \in DOMAIN rs : IsPrefix(rs[i].real, c.path)
           THEN c.path \notin DirsOf(files)
           ELSE /\ c.path \in DirsOf(files)
                /\ \A i \in DOMAIN rs : IsPrefix(rs[i].virtual, c.path) =>
                      Relocate(c.path, rs[i].virtual, rs[i].real) \notin DirsOf(files)

\* A real directory leads back to a virtual folder that a record puts it in, so
\* that events and real paths reach the right folder, also through the entries
\* add_folder makes for directories that do not exist yet (vfs.cpp:417).  What
\* opendir makes of another directory is empty, and never of one that is watched.
ReverseExact ==
    \A d \in DOMAIN vfs.reverse :
        \/ vfs.reverse[d] = NoFolder /\ d \notin vfs.watched
        \/ \E i \in DOMAIN records :
              /\ IsPrefix(records[i].real, d)
              /\ vfs.reverse[d] = Relocate(d, records[i].real, records[i].virtual)

\* Every real directory of an explored folder is watched, and leads back to it.
\* Of those that are made since, this is true of the first three levels below a
\* record: the scan that announces a new directory goes no deeper, and if one call
\* makes four levels, a folder that is explored already misses the fourth.
LayersWatched ==
    Quiet => \A v \in DOMAIN vfs.folders : vfs.folders[v].explored =>
        \A i \in LayersOf(v) : Reading \/ Len(v) <= Len(records[i].virtual) + 3
            => /\ Promise!Target(i, v) \in vfs.watched
               /\ Promise!Target(i, v) \in DOMAIN vfs.reverse

\* An explored folder lists everything that its real directories hold, however deep
\* a call has made them (README: "will contain every file/folder (recursively)").
ContainsAll ==
    Quiet => \A v \in DOMAIN vfs.folders : vfs.folders[v].explored =>
        \A i \in LayersOf(v) : Held(v, i) \subseteq vfs.folders[v].children

\* A call opens or removes the file at its own path, or the one that a record
\* puts at the virtual path its own stands for: the files of a folder never come
\* from another level, or from the directory of another folder, whatever was
\* explored, made and announced before (README: "will contain every file/folder
\* (recursively) from" the real folders).
InPlace ==
    [][/\ Ready /\ answer'.op \in {"read", "append", "create", "unlink"}
       /\ answer'.file \notin {NoFile, answer'.path}
       => LET folder == Translated(vfs, answer'.path) IN
          \E i \in DOMAIN records :
             /\ IsPrefix(records[i].virtual, folder)
             /\ answer'.file = Relocate(folder, records[i].virtual, records[i].real)]_vars

\* A file that is created below a W folder is created in a directory of a record,
\* whatever the program has looked at before (README: "When writing to
\* `/path/to/virtual/folder1`, if the file/folder does not already exist, it will
\* create a new entry in `/path/to/real/folder2`").
WritesRedirected ==
    /\ answer.op = "create" /\ answer.file # NoFile
    /\ \E i \in DOMAIN records : /\ records[i].op = "W"
                                /\ IsPrefix(records[i].virtual, answer.path)
    => \E i \in DOMAIN records : IsPrefix(records[i].real, answer.file)
=============================================================================
