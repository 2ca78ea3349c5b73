-------------------------------- MODULE Caches ---------------------------------
(***************************************************************************)
(* The caches a lookup goes through (src/src/vfs.cpp), while the file      *)
(* system changes: readlink_cache resolves the links of a path, path_cache *)
(* remembers how the directories on the way are spelt (winpath), and       *)
(* stat_cache tells whether a known folder has a directory of its own.  No *)
(* entry of the first two ever expires.                                    *)
(*                                                                         *)
(* Here paths keep their upper and lower case.  The folders winevfs knows  *)
(* are fixed, and no file is mapped.  Links may lead anywhere, to other    *)
(* links too: cached_readlink does not read where such a link leads on.    *)
(***************************************************************************)
EXTENDS VfsPaths

CONSTANTS
    Lower,     \* name |-> the name in lower case
    Paths,     \* paths at which something may exist
    Trees,     \* what may exist at first: path |-> [kind, to]
    Links,     \* the links there may be: <<path, target>>
    MaxLinks,  \* the most links the kernel follows for a path (MAXSYMLINKS)
    Backing,   \* winevfs_folder_mappings: folder |-> folder_paths.last()
    Calls,     \* the calls the program makes: [op, path]
    NoAnswer,  \* no call has been made since the file system changed
    MaxChanges \* bound: changes made by other processes

Names == DOMAIN Lower

Nodes == [kind : {"dir", "file"}, to : {<< >>}]
Link(to) == [kind |-> "link", to |-> to]

\* What can exist together: nothing is below a file or a link.
IsTree(tree) ==
    /\ DOMAIN tree \subseteq Paths
    /\ \A p \in DOMAIN tree :
          /\ tree[p] \in Nodes \/ (\E l \in Links : l[1] = p /\ tree[p] = Link(l[2]))
          /\ Parent(p) # << >> => /\ Parent(p) \in DOMAIN tree
                                 /\ tree[Parent(p)].kind = "dir"

ASSUME CacheConstants ==
    /\ Paths \subseteq Seq(Names) \ {<< >>}
    /\ \A tree \in Trees : IsTree(tree)
    /\ \A l \in Links : l[1] \in Paths /\ l[2] \in Seq(Names)
    /\ MaxLinks \in Nat
    /\ \A f \in DOMAIN Backing : Backing[f] \in Seq(Names)
    /\ \A c \in Calls : c.op \in {"stat", "mkdir", "remove"} /\ c.path \in Seq(Names)
    /\ MaxChanges \in Nat

VARIABLES
    disk,           \* path |-> [kind, to], the root left out
    path_cache,     \* path in lower case |-> path
    stat_cache,     \* path |-> whether it is a directory
    readlink_cache, \* path |-> path
    answer,         \* the last call, and the path it was redirected to
    relinked,       \* history: paths where a link came or went
    gone,           \* history: paths where something was removed
    changes         \* changes made so far

caches == <<path_cache, stat_cache, readlink_cache>>
vars == <<disk, caches, answer, relinked, gone, changes>>

LowerOf(p) == [i \in DOMAIN p |-> Lower[p[i]]]

IsLink(p) == p \in DOMAIN disk /\ disk[p].kind = "link"

-----------------------------------------------------------------------------
(* The file system *)

\* p with its link followed, if there is one on the way: nothing is below a link.
Follow(p) ==
    IF \A q \in OnPath(p) : ~IsLink(q) THEN p
    ELSE LET q == CHOOSE r \in OnPath(p) : IsLink(r) IN Relocate(p, q, disk[q].to)

\* The paths that p leads to, link by link.
Way(p) == LET way[i \in 0..MaxLinks] == IF i = 0 THEN p ELSE Follow(way[i - 1])
          IN  way
Canon(p) == Way(p)[MaxLinks]

\* A path that leads on after so many links does not exist (ELOOP).
Exists(p) ==
    LET real == Canon(p) IN
    real = << >> \/ (real \in DOMAIN disk /\ disk[real].kind # "link")
IsDirectory(p) ==
    LET real == Canon(p) IN
    real = << >> \/ (real \in DOMAIN disk /\ disk[real].kind = "dir")

\* What opendir and readdir find.
Entries(d) ==
    {Last(q) : q \in {r \in DOMAIN disk : IsDirectory(d) /\ Parent(r) = Canon(d)}}

\* The directory entry that p names, a link not being followed.
Entry(p) == Append(Canon(Parent(p)), Last(p))

ReadLink(p) == IF IsLink(Entry(p)) THEN disk[Entry(p)].to ELSE p

-----------------------------------------------------------------------------
(* The caches *)

Without(cache, p) == [q \in DOMAIN cache \ {p} |-> cache[q]]

\* Variant: a failure is remembered too.
StatedAlways(stats, p) == Put(stats, p, IsDirectory(p))

\* winevfs_stat without use_cache: a success is remembered, and a failure does
\* not forget an earlier success.
Stated(stats, p) == IF Exists(p) THEN Put(stats, p, IsDirectory(p)) ELSE stats

\* Variant: the links above the path are not followed.
CachedReadlinkLast(source) ==
    [path |-> ReadLink(source), cache |-> Put(readlink_cache, source, ReadLink(source))]

\* cached_readlink of p, once its parent is resolved.
FollowName(parent, p) ==
    LET here == Append(parent.path, Last(p))
        real == ReadLink(here)
    IN  [path |-> real, cache |-> Put(Put(parent.cache, p, real), here, real)]

\* cached_readlink: from the longest prefix that is cached, name by name.
CachedReadlink(source) ==
    LET known == OnPath(source) \cap DOMAIN readlink_cache
        from  == IF known = {} THEN << >> ELSE LongestOf(known)
        start == IF known = {}
                 THEN [path |-> << >>, cache |-> Put(readlink_cache, << >>, << >>)]
                 ELSE [path |-> readlink_cache[from], cache |-> readlink_cache]
        down[i \in Len(from)..Len(source)] ==
            IF i = Len(from) THEN start
            ELSE FollowName(down[i - 1], SubSeq(source, 1, i))
    IN  down[Len(source)]

\* Variant: the name as it was asked for.
SpellingAsked(d, n, first) == n

\* The entry of d that is n but for its case, and n itself if there is none;
\* of several the one that readdir returns first.
Spelling(d, n, first) ==
    LET found == {m \in Entries(d) : Lower[m] = Lower[n]} IN
    IF found = {} THEN n ELSE CHOOSE m \in found : first \in found => m = first

\* Variant: a directory is remembered under the name of what is below it.
SpellNameBelow(parent, p, first) ==
    [path  |-> Append(parent.path, Spelling(parent.path, Last(p), first)),
     paths |-> IF LowerOf(p) \in DOMAIN parent.paths THEN parent.paths
               ELSE Put(parent.paths, LowerOf(p), parent.path)]

\* winpath of p, once its parent is spelt: that is cached, with what it was found
\* to be spelt like, even if it does not exist.
SpellName(parent, p, first) ==
    [path  |-> Append(parent.path, Spelling(parent.path, Last(p), first)),
     paths |-> IF LowerOf(parent.path) \in DOMAIN parent.paths THEN parent.paths
               ELSE Put(parent.paths, LowerOf(parent.path), parent.path)]

\* winpath: the longest prefix that exists as it is spelt, or that is cached,
\* and from there down name by name.
WinPath(source, first) ==
    LET from == LongestOf({q \in OnPath(source) :
                              Exists(q) \/ LowerOf(q) \in DOMAIN path_cache})
        start == [path  |-> IF Exists(from) THEN from ELSE path_cache[LowerOf(from)],
                  paths |-> path_cache]
        down[i \in Len(from)..Len(source)] ==
            IF i = Len(from) THEN start
            ELSE SpellName(down[i - 1], SubSeq(source, 1, i), first)
        won == down[Len(source)]
    IN  [path |-> won.path, paths |-> won.paths, stats |-> Stated(stat_cache, from)]

-----------------------------------------------------------------------------
(* winevfs_get_path *)

\* Variant: a folder is always the path itself.
FolderPathItself(win, back) == [real |-> win.path, stats |-> win.stats]

\* A known folder is the path itself if that is a directory, as far as
\* stat_cache knows, and otherwise the last of its directories.
FolderPath(win, back) ==
    LET stats == IF win.path \in DOMAIN win.stats THEN win.stats
                 ELSE Stated(win.stats, win.path)
    IN  [real  |-> IF win.path \in DOMAIN stats /\ stats[win.path]
                   THEN win.path ELSE back,
         stats |-> stats]

GetPath(p, first) ==
    LET abs    == CachedReadlink(p)
        folder == LowerOf(abs.path)
        known  == folder \in DOMAIN Backing
        win    == WinPath(IF known THEN abs.path ELSE p, first)
        at     == IF known THEN FolderPath(win, Backing[folder])
                  ELSE [real |-> win.path, stats |-> win.stats]
    IN  [real |-> at.real, paths |-> win.paths, stats |-> at.stats,
         links |-> abs.cache, folder |-> known]

Answers(c, got) ==
    answer' = [op |-> c.op, path |-> c.path, real |-> got.real, folder |-> got.folder]

\* __xstat64
Stat(c, first) ==
  /\ c.op = "stat"
  /\ \E got \in {GetPath(c.path, first)} :
       /\ path_cache' = got.paths
       /\ stat_cache' = Stated(got.stats, got.real)
       /\ readlink_cache' = got.links
       /\ Answers(c, got)
       /\ UNCHANGED <<disk, relinked, gone, changes>>

\* mkdir, with Intent_Create where no W record applies.
Mkdir(c, first) ==
  /\ c.op = "mkdir"
  /\ \E got \in {GetPath(c.path, first)} :
       /\ path_cache' = got.paths
       /\ stat_cache' = got.stats
       /\ readlink_cache' = got.links
       /\ Answers(c, got)
       /\ disk' = IF Entry(got.real) \in Paths \ DOMAIN disk /\ IsDirectory(Parent(got.real))
                  THEN Put(disk, Entry(got.real), [kind |-> "dir", to |-> << >>])
                  ELSE disk
       /\ UNCHANGED <<relinked, gone, changes>>

\* Something that has nothing below it, and no link.
Removable(p) ==
    p \in DOMAIN disk /\ ~IsLink(p) /\ \A q \in DOMAIN disk : Parent(q) # p

\* rmdir and unlink: winevfs_delete_file forgets the path, not what is above or
\* below it, and not in path_cache.
Delete(c, first) ==
  /\ c.op = "remove"
  /\ \E got \in {GetPath(c.path, first)} :
       /\ path_cache' = got.paths
       /\ stat_cache' = Without(got.stats, got.real)
       /\ readlink_cache' = Without(got.links, got.real)
       /\ Answers(c, got)
       /\ IF Removable(Entry(got.real))
          THEN disk' = Without(disk, Entry(got.real)) /\ gone' = gone \cup {Entry(got.real)}
          ELSE UNCHANGED <<disk, gone>>
       /\ UNCHANGED <<relinked, changes>>

-----------------------------------------------------------------------------
(* Other processes *)

Change ==
    /\ changes < MaxChanges
    /\ changes' = changes + 1
    /\ answer' = NoAnswer
    /\ UNCHANGED caches

Make(p, node) ==
    /\ Change
    /\ p \in Paths \ DOMAIN disk
    /\ Parent(p) = << >> \/ (Parent(p) \in DOMAIN disk /\ disk[Parent(p)].kind = "dir")
    /\ disk' = Put(disk, p, node)
    /\ relinked' = relinked \cup IF node.kind = "link" THEN {p} ELSE {}
    /\ UNCHANGED gone

Unmake(p) ==
    /\ Change
    /\ Removable(p) \/ IsLink(p)
    /\ disk' = Without(disk, p)
    /\ relinked' = relinked \cup IF IsLink(p) THEN {p} ELSE {}
    /\ gone' = gone \cup {p}

-----------------------------------------------------------------------------

Init ==
    /\ disk \in Trees
    /\ path_cache = << >> /\ stat_cache = << >> /\ readlink_cache = << >>
    /\ answer = NoAnswer
    /\ relinked = {} /\ gone = {} /\ changes = 0

Next ==
    \/ \E c \in Calls, first \in {n \in Names : \E m \in Names \ {n} :
                                                       Lower[m] = Lower[n]} :
          Stat(c, first) \/ Mkdir(c, first) \/ Delete(c, first)
    \/ \E p \in Paths, node \in Nodes : Make(p, node)
    \/ \E l \in Links : Make(l[1], Link(l[2]))
    \/ \E p \in Paths : Unmake(p)

Spec == Init /\ [][Next]_vars

-----------------------------------------------------------------------------
(* Properties *)

TypeOK ==
    /\ DOMAIN disk \subseteq Paths
    /\ \A p \in DOMAIN disk : Parent(p) \in DOMAIN disk \cup {<< >>}
    /\ \A p \in DOMAIN stat_cache : stat_cache[p] \in BOOLEAN /\ (Exists(p) \/ gone # {})
    /\ changes \in 0..MaxChanges

\* A link there is, or that came or went.
Met(l) == l[1] \in relinked \/ (IsLink(l[1]) /\ disk[l[1]].to = l[2])

\* A link leads to or through another: where it leads is not read on.
Chained == \E k, l \in Links : Met(k) /\ Met(l) /\ IsPrefix(l[1], k[2])

\* Something of paths is on the way that p leads.
Crosses(paths, p) == \E q \in paths, i \in 0..MaxLinks : IsPrefix(q, Way(p)[i])

LinkFree(p) == \A q \in OnPath(p) : ~IsLink(q)

\* What readlink_cache cannot be right about.
Misled(p) == Chained \/ Crosses(relinked, p) \/ ~LinkFree(Canon(p))

\* A path resolved by readlink_cache stays right whatever files and directories
\* come and go, and wherever it was first met: only links that come or go on the
\* way it leads, and links that lead to others, make the entry wrong.
LinksFollowed ==
    \A p \in DOMAIN readlink_cache : readlink_cache[p] = Canon(p) \/ Misled(p)

\* No two things have names that differ in their case only, as on Windows.
Unambiguous == \A p, q \in DOMAIN disk : LowerOf(p) = LowerOf(q) => p = q

\* path_cache has a directory above p, or p, that does not exist any more or
\* did not exist yet.
Stale(p) == \E q \in OnPath(p) : /\ LowerOf(q) \in DOMAIN path_cache
                                   /\ ~Exists(path_cache[LowerOf(q)])

Spellings(p) ==
    {q \in [1..Len(p) -> Names] : LowerOf(q) = LowerOf(p)}

Answered == answer' # answer /\ answer' # NoAnswer

\* A lookup finds what exists, however it is spelt (README, "Everything is
\* treated case-insensitive"), unless the cache has an entry that is stale.
FindsAnyCase ==
    [][Answered /\ ~answer'.folder /\ Unambiguous /\ ~Stale(answer'.path)
        => (Exists(answer'.real) <=> \E q \in Spellings(answer'.path) : Exists(q))]_vars

\* The same of every lookup.
CaseInsensitive ==
    [][Answered /\ ~answer'.folder /\ Unambiguous
        => (Exists(answer'.real) <=> \E q \in Spellings(answer'.path) : Exists(q))]_vars

\* A known folder is redirected to a directory that exists, or to the last of
\* its real directories, unless something on the way was removed behind the
\* back of stat_cache.
FolderThere ==
    [][Answered /\ answer'.folder
        => \/ IsDirectory(answer'.real)
           \/ answer'.real \in {Backing[f] : f \in DOMAIN Backing}
           \/ Crosses(gone, answer'.real)]_vars

\* However stale path_cache is, and whichever calls filled the caches, a lookup
\* leads to a path of the name that was asked for, or, by a link too, to the
\* known folder that it leads to and nowhere else, unless readlink_cache cannot
\* be right about it.
RightName ==
    [][Answered
        => LET folder == LowerOf(Canon(answer'.path)) IN
           \/ IF folder \in DOMAIN Backing
              THEN LowerOf(answer'.real) = folder \/ answer'.real = Backing[folder]
              ELSE LowerOf(answer'.real) = LowerOf(answer'.path)
           \/ Misled(answer'.path)]_vars
=============================================================================
