# Verification of winevfs

winevfs is a library loaded with `LD_PRELOAD` into a program (wine, a game, a
mod tool).  It replaces libc functions such as `open`, `stat`, `unlink` and
`readdir` so that paths below *virtual folders* are redirected to files of
several *real directories*, in load order.  This directory models it in TLA+,
checks the models with TLC and proves theorems about them with TLAPS.

## Inventory

| Component | State | Operations | Modelled in |
|---|---|---|---|
| Lookup core, `src/src/vfs.cpp` | `read_mappings`, `write_mappings`, `winevfs_folder_mappings` (`folder_paths`, `children`, `explored`), `winevfs_reverse_folder_mappings`; a mutex for each table and `winevfs_client_processing_mutex` | `winevfs_get_path` for reading, creating, deleting; `find_read_mapping`, `find_write_mapping`, exploration by `winevfs_add_read_directory`, `winevfs_delete_file` | `VfsLookup`, `Exploration` |
| VFS file, `vfs.cpp:601-960` | the records `R`, `W`, `D`; options `?full=`, `?quick` | `winevfs_read_vfsfile`, `winevfs_write_vfsfile`, `winevfs_init` | `Exploration` (R and W records, `?full=`) |
| Folder tree, `vfs.cpp:335-455` | as the lookup core | `add_folder`, `_add_read_entry` | `Exploration` |
| inotify listener, `src/src/inotify.cpp` and `listener_cb` | watch tables `fdtable`, `reverse_fdtable`, the kernel's queue | `winevfs_watch_directory`, `read_inotify_events`, `listener_cb`, and `setsid` after a fork | `Watches`; `VfsLookup` and `Exploration` (what events do to the tables) |
| Directory streams, `src/src/other_functions.cpp:49-290` | `opendir_mappings`: for each `DIR*` the folder, `position`, `already` | `winevfs_add_opendir`, `readdir`, `readdir64`, `closedir` | `Listing`; `Exploration` (`opendir` of unknown directories) |
| Interception layer, `gen_functions.js`, `functions.cpp` | none | a wrapper per libc function: find the intent, `winevfs_get_path`, call the original | actions of `VfsLookup`, `Exploration` and `Caches` |
| Caches in `vfs.cpp` | `stat_cache`, `readlink_cache`, `path_cache` | fill, read, partial invalidation | `Caches` |
| File descriptor table, `dup`, `close`, `chdir`, statfs wrappers | `winevfs_fd_table` | written, but every read is disabled (`vfs.cpp:155`, `other_functions.cpp:295`) | no |
| IPC server and client, `server.cpp` | sockets | unreachable: no caller of `winevfs_init_server`, the client is commented out | no |
| Launcher `main.cpp`, logging `log.cpp` | none | set the environment and `execvpe`; output | no |

How they interact.  A wrapper calls `winevfs_get_path` on the program's thread;
this may explore a folder, which registers files in the tables and directories
with inotify, and opens real directories.  The listener is a thread of the same
process: it turns an inotify event into an insertion into, or an erasure from,
the same tables.  `readdir` reads the `children` that exploration, creation,
deletion and the listener change.  Other processes (another hooked wine
process, or a program that is not hooked) reach this one only through the real
file system.

What is hard.  Several threads explore the same folder; between the check that
a folder is unexplored and the exploration no mutex is held; two mutexes are
taken in both orders; files come and go while a directory is being scanned; an
event arrives after the exploration that had already seen its file; a directory
stream keeps an index into a vector that changes; which folder is explored, and
from which directories, depends on the lookups before.  PROJECT.json lists each
as a hazard, with its line and the properties that cover it.

What makes each component correct:

* lookup core: an explored folder misses no file; a higher directory wins over
  a lower one; a new file goes to the write directory; calls return;
* folder tree: lazy exploration cannot be observed, the program sees the layered
  view of the README whatever it calls first, by virtual or by real path; listings,
  watches and reverse mappings agree with that view;
* listener: what appears in an explored folder is noticed, however scans, events
  and changes interleave, and nothing is taken for what it is not;
* caches: a lookup finds what exists, in any case, and a stale entry does not lead
  to something else;
* directory streams: a listing has every name that was there all along, once.

## Modules

`VfsLookup` is the concurrent core: threads, the listener and other processes,
with one virtual folder level.  The variables are the tables and mutexes of
`vfs.cpp` under their own names, the real file system (`files`), the inotify
queue (`events`), and for each thread its position in the code (`pc`) and locals.

| Action | Code |
|---|---|
| `Call`, `Gate` | wrapper; the empty critical section at `vfs.cpp:1110` |
| `FindMapping`, `CheckFolder`, `SnapshotFolder`, `LockProcessing` | `find_read_mapping` up to the loop; `wmap` is the point where it holds the folder mutex and waits for the write mutex |
| `OpenDirectory`, `AddReadEntry`, `AddChild`, `SkipRemoved`, `CloseDirectory` | `winevfs_add_read_directory`, entry by entry, for each directory of `foldervec`; `explored` is set after each directory |
| `FindAgain`, `FolderLookup` | the second lookup and the rest of `winevfs_get_path_inner` |
| `LockWrite`, `AddWrittenChild` | creation below a W folder, under the write mutex |
| `DeleteFile` | `winevfs_delete_file`: the listing entry goes, the mapping stays |
| `SyscallCreates`, `SyscallDeletes`, `SyscallLeaves` | the original function on the redirected path |
| `TakeEvent`, `MapEvent`, `ListEvent`, `EraseEvent` | `listener_cb` |

A step is the code between two points where another thread can interfere: a
table access under its own leaf mutex is one step, and a mutex that is held
across another lock is a variable.

`Overlay` is the abstract specification: the layered view of the README's
"Usage" section, in which a call is one atomic step and nothing is loaded,
cached, explored, registered or announced.  Its calls open (to read, append or
create), unlink, rename, make directories and look at folders, by virtual path
or by a path inside a record's real directory.  Its one piece of state beside the
file system is `bound`: a path whose file was deleted, or not created, still leads where
it led (`vfs.cpp:574` and `1261`), which a program can observe.

`Exploration` is what the code does instead, for whole trees and one thread.

| Action | Code |
|---|---|
| `LoadRecord` | one record of `winevfs_read_vfsfile`, lazily or with `?full=` |
| `Open`, `Unlink`, `Rename`, `Mkdir`, `Stat`, `Opendir` | the wrapper: `GetPath` with its intent, once or twice, then the original function and the events it causes in watched directories |
| `Listen` | `listener_cb` for the next event, of a file or of a directory |

`AddFolder`, `RegisterReverse`, `AddReadEntry`, `AddReadDirectory`, `DeleteFile` and `GetPath`
are the sequential effects of the functions of those names, each from tables to
tables; a call that explores, deletes and fails is one step.  `Promise` is
`Overlay` with `records`, `disk`, `dirs` and `answer` as they are, and with `bound` defined
from the tables: the mappings to what does not exist.  All other tables are
what the refinement hides.  `VfsPaths` has the operators on paths and on
growing tables that all of these use.

`Watches` is how things that appear are noticed.  A scan is a stack of calls of
`winevfs_add_read_directory`: `Enter` (the early return and the watch), `OpenDirectory`, `TakeEntry` and
`CloseDirectory`, with other processes' `Appear` and `Vanish` between any two.  A path may be a
directory at one time and a file at another (`dirs` has those that are directories now), so that a scan
or an event may meet the one where it expects the other.  An entry's `fs_isdir` and the watch that
follows it are one step.  The
inotify instance has its watches, which go with their directories, and a queue of
bounded length that loses events and says so once; `inotify_add_watch` may refuse
at any time.  `HearDirectory` starts a scan of its own, `HearFile` maps,
`HearDeletion` changes listings only, and `HearOther` is an event with
`event.event` not set, which may be taken for either, of any name: it has none, and
`inotify.cpp:44` reads on behind it.  The variables `removed`, `unlinked`, `misread`, `madeup`,
`forgotten` and `overflowed` are history: no action reads them.  `Fork` takes the listener away and
`Setsid` starts a new one with empty watch tables.

`Caches` is one lookup after another through `readlink_cache`, `path_cache` and
`stat_cache`, while other processes make and remove directories, files and links.  Links may lead
anywhere, to other links too: `Follow` and `Way` are what the kernel makes of a path, link by link, up to
`MaxLinks` of them, and `Canon` is where that ends.
`CachedReadlink` and `WinPath` follow the recursion of `cached_readlink` and
`winpath` from the longest cached prefix down, with `FollowName` and `SpellName` as the step for one
name; `Stat`, `Mkdir` and `Delete` are calls, and `Delete` forgets what `winevfs_delete_file` forgets.  Paths keep their case there.

`Listing` is a directory stream against a changing folder: the real directory
first, then the children that it did not return.

`MCVfsLookup`, `MCExploration`, `MCListing`, `MCWatches` and `MCCaches` give the instances for TLC;
the modules whose names end in `Proofs` have the theorems.  Definitions marked "Variant" are alternative
forms of the definition after them, each with one plausible mistake: each
property is known to fail when the definition is replaced by its variant.

## Runs

All passing runs check deadlock too.

| Run | Instance | Shows |
|---|---|---|
| `VfsCalls` | 2 threads, 1 folder of 2 directories scanned as 3 (the write directory comes last again), 2 names, reads and creations that may fail, fairness | types, load order, listing and creation are right whoever explores, and every call returns |
| `VfsWriters` | the same with 1 name, deletions, another process that creates and deletes in both directories, 2 queued events | `Complete`, `NoStandoff`, `NoPhantom` |
| `VfsExact` | 1 thread, folders of 3 and 1 directories, 2 names | each call is redirected to the highest holder while the listener runs |
| `ExploreLayers` | 3 VFS files, 8 trees in up to five levels, lazily and in full, 12 calls of every kind on virtual and real paths, one of which makes four directories at once | `Implements` (the refinement), `LayersKnown`, `ListingExact`, `ReverseExact`, `LayersWatched`, and for each call `InPlace` |
| `ListingStreams` | 2 streams, 2 names, 3 changes of every kind, symmetry | a first listing loses no more names than were erased; no name twice |
| `Watches` | a mod with a folder in a folder and a file in each, where the inner folder may be a file instead, queue of 2, 3 changes, fork and setsid at any time | `Unmissed`, `FolderNotMapped`, and with fairness `Noticed` |
| `CachePaths` | a directory spelt in two ways, a link to it, something below it, which may be a link to the other spelling, 6 calls, 2 changes by others | `LinksFollowed`, `RightName`, `FindsAnyCase`, `FolderThere` |

And the runs that end in a counterexample, each a finding of PROJECT.json:

| Run | Counterexample |
|---|---|
| `VfsRace` | two readers: one passes the gate before the other locks it, and answers from half-filled tables, because `explored` is set after the first directory |
| `VfsDeadlock` | an exploration of one folder and a creation in another hold the folder and the write mutex crosswise |
| `ExploreOpendir` | `opendir` of a directory only the game has inserts an empty reverse mapping (`other_functions.cpp:84`); a file created below it does not go to the write directory |
| `ExploreDeep` | one creation makes four directories in the write directory, for a folder that a mod has and that is explored; the fourth is not watched, and a file made in it is not listed (`vfs.cpp:517`; the comment at `vfs.cpp:1080` knows of it) |
| `CacheStale` | a directory that did not exist when it was asked for stays spelt as it was asked for, when another process makes it in another case |

Some properties hold only in the runs named, and these limits are the code's own:

* `LoadOrder` needs that files appear only through the write directory.  When
  another process creates a file in a low directory, its event replaces the
  mapping to a higher one; the comment at `vfs.cpp:1177` says so.
* `CreateInWriteDir` needs that nothing is deleted: the mapping of a deleted
  file stays (`vfs.cpp:574`), and the file is created again where it was.  The
  repository's README says that deleting "only somewhat works".
* `LookupExact` needs a single thread, as `VfsRace` shows.
* `NoPhantom` needs creations that succeed: the mapping and the listing entry
  are made before the original function runs.
* `KeptOnce` needs that the other processes do not create in the real directory
  a name the stream has already returned as a child: glibc's `readdir` may
  return new entries after its end.
* `LostPerErasure` is about the first listing of a stream: `rewinddir` is not
  intercepted and the second one has only the real directory's entries.
* `Implements` needs that `opendir` is called on folders the VFS knows, as
  `ExploreOpendir` shows, that no name begins with a W folder's name, and that nothing is
  made later in a directory that is not watched, as in `ExploreDeep`, where the new file is not
  found by its virtual path.
* `LayersWatched` speaks of every directory while the program only reads, and otherwise of the first three levels
  below a record: the listener's scan of a new directory reads one level down (`vfs.cpp:517`).  If a call makes
  four levels, as one in `ExploreLayers` does, the fourth is neither watched nor registered, though its virtual folder
  may be explored already.  `ExploreDeep` shows what is lost.
* `ListingExact` leaves open the names of files that were deleted (a lower directory
  may have the name, `vfs.cpp:592`), whose creation failed, that a failed rename
  has erased (`vfs.cpp:1281`), or that are in a directory that is not watched, which by
  `LayersWatched` is one at the fourth level or deeper.
* `Overlay` says where the code's choices are surprising but deliberate or
  undocumented: a new file opened for append stays at its path
  (`gen_functions.js:630`); a file is created in the write directory though one
  exists at the virtual path itself; a folder with a record below it and no
  directory of its own is promised nothing (`last()` of an empty vector, `vfs.cpp:1225`).
* `Unmissed` and `Noticed` leave out directories that were removed once, those whose
  watch was refused, and those that were files when their scan began: `reverse_fdtable` keeps the first two
  (`inotify.cpp:45`, `161`), so that they are never watched again, and the third are opened, and explored if they
  are directories by then, without a watch (`vfs.cpp:491`).  They leave out
  what was explored before `setsid`, since `explored` survives it and the new
  instance watches only the records' directories, and everything after the
  queue has overflowed.
* `FolderNotMapped` names the cases in which the code has a directory mapped as a file.  It was removed,
  and has come back, when a scan had it in hand (`vfs.cpp:531`); it has taken the place of a file, whose
  mapping stays when it is deleted (`vfs.cpp:574`) and is made even later, if the event of the file is
  applied after the directory appeared (`vfs.cpp:937`); or an event of neither kind was taken for the
  creation of a file (`inotify.cpp:23`).  The last are `IN_IGNORED`, and an overflow, which has the number of the watches that were
  refused, -1.  Any other way, such as an entry taken for a file while it was a directory all along, is excluded.
* `FindsAnyCase` leaves out paths with a stale entry, which `CacheStale` is about.
  `LinksFollowed` and `RightName` leave out what `readlink_cache` cannot know: paths that lead through a link that
  came or went since, or through more links than the kernel follows, and everything if some link leads to or
  through another: `cached_readlink` does not resolve the target of a link again (`vfs.cpp:270`), so that a link to a
  link to a known folder is not redirected to the folder.
* A W record is matched as a string, without a boundary between names (`vfs.cpp:1236`): with a record for `/game/data`,
  `/game/database/plugin` is created as `base/plugin` in the write directory.  `Suffix` models this
  (`<<"database", "data">> :> "base"`), and an instance with it violates `InPlace`; the checked runs have no such names.
* A record for a single file below a folder record is replaced when the folder
  is explored (`vfs.cpp:436`), a record nested in another's folder hides the
  other's files there (`vfs.cpp:1029`), and `?full=` reads one level of
  sub-folders and leaves the rest to be explored (`vfs.cpp:517`).  The first two
  break the layered view; no checked VFS file has such records.
* A record whose real directory's parent has the name of its virtual folder's
  parent pairs these parents as well (`vfs.cpp:349`); no checked VFS file has one.

### Bounds

Two threads are enough for each race in `VfsLookup`: an exploration excludes all
others, so a third thread can only be another one waiting for it.  Two names tell
the file being looked up from another one found on the way.  Two directories
scanned as three, or four with two mods, separate "first", "between" and "last"
in load order.  `MaxEvents` bounds the inotify queue (at 2): a file system
change waits while the queue is full, so an event may be behind another one
and behind a change of the other kind.  `MaxChanges` in
`Listing` bounds the changes while any stream is open, and starts again when all
are closed: three are enough to erase, add and erase again under one listing.

In `ExploreLayers` two levels are what a single lookup registers by
itself, and one more makes "explored on the way to another path" and "explored on its own"
differ; the fourth below the record is the first that the listener's scan does not reach.  Two mods and the overwrite directory separate the layers, and one VFS file each
has no W record and a single file.  The disk grows only by the called paths, so the run
is finite without a bound.  `LayersWatched` with a fourth level instead of the third is violated in this run.

In `Watches` three changes make a directory, make something in it and remove it, or make,
remove and make again, as the same or as the other kind; with a queue of two, one burst overflows it.  Two levels
of directories below the record are the depth to which the listener's recursive scan goes
(the next one stops).  In `CachePaths` two changes by others, with the program's own
`mkdir` and removal between them, take away and bring back one thing a cache has
seen.  `MaxLinks` is 2, as many links as a path leads through in any of these trees; the kernel's 40 would only
make the evaluation longer.  The runs with symmetry permute threads, handles or names, and check no
liveness.

### Fairness

`FairSpec` asks weak fairness of each thread's `Progress` (any step inside a
call) and of the listener.  The operating system schedules a runnable thread,
the mutexes are plain `std::mutex`, and no code between two steps loops.
Nothing is asked of `Call` (the program may stop calling), or of other
processes.  A thread that is blocked by a mutex has no enabled step, so weak
fairness promises nothing while the mutex is taken; calls return in `VfsCalls`
because a folder is explored finitely often and the number of events is finite:
a file once created there is not deleted.

`FairSpec` of `Watches` asks weak fairness of a scan in progress, which runs on a
thread that holds the processing mutex and waits for nothing, and strong
fairness of the listener: lookups take that mutex again and again, and each
releases it.  A mutex that starved the listener for ever is excluded by this, and only this.
Nothing is asked of lookups, other processes, fork or `setsid`.

## Proofs

The theorems hold for any sets of threads, streams, folders, names and directories, any
VFS file, load order and bound on the queues, where the runs have two or three of each.

| Theorem | States | Under |
|---|---|---|
| `VfsLookupProofs`: `TypeCorrect`, `NoStandoffTheorem`, `CompleteTheorem` | `TypeOK`, `NoStandoff`, `Complete` | |
| `VfsLookupProofs`: `CreateInWriteDirTheorem`, `ListedTheorem`, `LoadOrderTheorem` | `CreateInWriteDir`, `Listed`, `LoadOrder` | `NothingDeleted` |
| `VfsExactProofs`: `NoPhantomTheorem` | `NoPhantom` | `CallsSucceed` |
| `VfsExactProofs`: `LookupExactTheorem` | `LookupExact` | `OneThread`, `NothingDeleted`, `CallsSucceed` |
| `ListingProofs`: `ListingTypes`, `KeptOnceTheorem`, `LostPerErasureTheorem` | `TypeOK`, `KeptOnce`, `LostPerErasure` | |
| `WatchesProofs`: `WatchesTypes`, `FolderNotMappedTheorem`, `UnmissedTheorem` | `TypeOK`, `FolderNotMapped`, `Unmissed` | |
| `CachesProofs`: `CachesTypes`, `LinksFollowedTheorem`, `FolderThereTheorem`, `RightNameTheorem` | `TypeOK`, `LinksFollowed`, `FolderThere`, `RightName` (the last two are action properties) | |
| `ExplorationProofs`: `ExplorationTypes` | `TypeOK` | |
| `ExplorationProofs`: `ReverseExactTheorem`, `InPlaceTheorem` | `ReverseExact`, `InPlace` (an action property) | `Plain`, no `Suffix` |
| `LayersProofs`: `LayersKnownTheorem`, `ListingExactTheorem`, `LayersWatchedTheorem` | `LayersKnown`, `ListingExact`, `LayersWatched` | `Plain`, no `Suffix`, `Layered`, `Reading` |
| `LayersProofs`: `ImplementsTheorem` | `Implements` (the refinement) | the same, and no `LooksElsewhere` |

`SequenceLemmas` has what the proofs use of numbers and sequences: a set of naturals has a least
element, and a bounded one a greatest; what `RemoveAt`, `Append` and concatenation do to
positions and to the set of elements; when a path is a prefix of another, and where it lies after
relocation; what `Put` and `Override` make of a table; that a function defined by
recursion along an interval exists and has its values from one step; and that what holds at an interval's first
number, and at the next wherever it holds, holds of all of it.

Some theorems have hypotheses, which are the limits that "Runs" states for their properties and
the constants of their runs: `NothingDeleted` says that the program does not delete and no
other process changes the directories (`VfsCalls`), `CallsSucceed` that the calls
of the program fail only where they must (`VfsWriters`), `OneThread` that there is one thread
(`VfsExact`; with two, `VfsRace` violates `LookupExact`).  `Plain` says that no record's folder and
directory have parents of the same name (`vfs.cpp:349`, the last limit in the list above): then
`add_folder` pairs nothing but what a record pairs.  TLC checks it of the VFS files of all
`Explore` runs, as an assumption of `MCExploration`.  That `Suffix` is empty says that no name
begins with a W folder's name, as in every `Explore` run.  `Layered` says what is usual of
VFS files: the layers of a virtual path are all files or all directories, records are not
nested in each other's folders, a record's real path exists, a single file has one record and
the W record of a folder comes last.  TLC checks it of the VFS files and trees of all `Explore` runs too, as an
assumption of `MCExploration`.  `Reading` is about the program: it opens files to read
them, and looks at folders and into them; `LooksElsewhere` that it looks into a
directory that exists but that no record provides, or into a missing one behind a record, which in
`ExploreOpendir` violates the refinement.  TLC checks that the calls of `ExploreLayers` do not.
Everything else is an assumption of the modules.  In `VfsLookup`: the owners of mutexes and the mark for "no directory" are
distinct from other values (`OwnersDiffer`); every folder has at least one directory, and each
directory is named for exactly one folder (`FolderPathsType`); a write directory is one of
its folder's directories (`WriteDirType`, since a W record is registered as a read folder too);
the inputs are what the wrappers pass (`InputTypes`).  In `Listing` the names are finitely many,
as a directory's are (`LostPerErasure` counts them); in `Watches` the parent of every
path may be a directory, and the queue has a bound, while any path may be of either kind (`WatchConstants`);
in `Caches` what exists at first is a tree (`CacheConstants`), and links may lead anywhere; in `Exploration` the files are
apart from the directories and none is above another, and a path is made of the names
(`InputTypes`), no name is empty (`NamesType`), since the entry that `opendir` inserts consists of the
empty one (`NoFolder`), and the records are as "Abstractions" says (`RecordsType`).

The arguments.  Every invariant below was first checked by TLC, on the bounds of its run, but for the parts that
only say which infinite set a table is in (`Watches` with four changes, `Listing` also with one stream, three names and four changes, `Exploration` also with `opendir` of
directories that the VFS does not know).

* `StructInv` is inductive: types, which points of the code hold which mutex
  (`LockInv`), where a scan may be (`ScanInv`), and what the listener knows of
  the event it handles (`ListenerInv`).  `TypeOK` alone is not inductive: the
  listener takes the head of the queue, and a scan indexes `foldervec`.
* `NoStandoff` needs that a thread that is past exploration has seen its folder
  explored, and that `explored` is never reset: a thread in "wmap" has seen it
  unexplored under the folder mutex, so no thread in "wchild" is on that folder.
  The theorem is about one folder only; across two folders it is false, which is
  `VfsDeadlock`.
* `Complete` needs `CoverInv`: each file of a directory that has been scanned is
  mapped or announced by a queued event, and each file of the directory
  being scanned is mapped, announced, or among the entries the scan has still to
  return.  A file that appears is announced from the moment its directory is
  watched, which is before it is opened.  The event that is being applied leaves
  the queue after its mapping is made.  A mapping never disappears, which is what
  `vfs.cpp:574` is commented out for.
* `CreateInWriteDir` needs `CreationInv`: while nothing is deleted, a mapping, a scan and an
  event name a directory that holds the file, or the write directory.  So a lookup
  that finds something when no directory holds the file has found the write directory.
* `Listed` and `LoadOrder` share `OrderInv`: for a folder whose exploration has begun, each file of
  its i-th directory is noted (listed, announced, or between `_add_read_entry`'s two
  tables) and settled (mapped no lower than i, or announced), or some thread has still to read it.
  A scan raises mappings directory by directory; whatever else maps a file maps it to
  the write directory, which is the last one scanned.  A second thread that explores the
  folder again lowers mappings, and then has the higher directories still to read: that
  is why the invariant speaks of what is unread instead of `explored`.  That a set of positions
  has a greatest element, which `Winner` and `Position` choose, comes from the
  well-foundedness of the naturals.
* `NoPhantom` needs `PhantomInv`: a name that is listed, in an event, or read by a scan is
  that of a file that is there, or its removal is in the queue, behind that event.  The
  removal of what a scan has read cannot be applied before the scan ends, because both
  hold the processing mutex; `TakeEventAtOnce` is the variant that lacks it.
* `LookupExact` needs `ExactInv`: in an explored folder every name is mapped to its highest
  holder, in the folder being explored to the highest of those the scan has read,
  elsewhere to nothing.  A creation's mapping is made before its file, so between the two the
  folder may map the name to the write directory while no directory holds it; the file is then
  the highest, because the write directory is scanned last, and so its event
  changes no mapping.  Past the lookup that missed, no directory holds the file.
* `KeptOnce` needs that a returned name which the folder still has is in `already` or among the children below
  the position (`ReturnedInv`), and that erasing a child only moves others down: what is
  below the position stays below it.
* `LostPerErasure` bounds `Missed`, the kept names that the listing will not return any more. Only
  `EraseChild` adds to it, and at most one name: the one that moves from behind
  the position to it.
* `Unmissed` needs `CoverInv` of `Watches`: in the middle of scans, what is in a directory that is explored,
  or being read, is known, announced, about to be entered or still in the frame's entries.  It rests on
  `WatchInv`: what `reverse_fdtable` has is watched, refused, or has been removed, and an event's
  descriptor leads to the directory it tells of.
* `FolderNotMapped` needs `MappedInv`: what is mapped, or was a file when its scan began, is accounted for (`Accounted`): it is a
  file now, or was one, or is a directory that was removed, or was made up.  The set of these only grows, because a file that
  goes is then one that was, so only what a step maps matters: what a scan opens or takes and finds no directory,
  and what an event names, of which `WatchInv` knows that it is or was a file.
* `CachesInv` says what each cache holds.  `path_cache` has directories under their own name in lower
  case.  `readlink_cache` has each path with where it leads (`Resolves`), unless no entry can be right about it (`Misled`).
  This is more than `LinksFollowed`, since the recursion starts from a cached prefix and resolves the rest below
  the cached target, which needs that there is no link on that target either (`Free`), or only one that came later.
  Unless links are chained, where a path leads is then where its parent leads, with the last name, and one more
  link followed if that is one (`WayAppend`, `CanonBelow`).  An entry of `stat_cache` was true when it was made, and only a removal makes it
  wrong.  That `cached_readlink` and `winpath` keep this for paths of any length goes by their step for one
  name: along an interval, the least position at which a recursive function has a wrong value cannot exist
  (`IterationValues`), and that the function exists is shown in the same way (`IterationExists`).
* `RightName` puts the two together (`GetPathIs`): a lookup goes to what `winpath` makes of the path, which by
  `path_cache`'s part has the same name, or, if `cached_readlink` leads to a known folder, to that folder or its real
  directory (`LeadsTo`); and where `cached_readlink` leads is `Canon` unless the path is `Misled`.
* `ReverseExact` alone is not inductive: a reverse mapping comes from the directories of a
  folder, which come from exploration, from creations through a write mapping, and from events.
  `Inv(R)` of `ExplorationProofs` says that each entry of `read_mappings`, of `folder_paths`,
  of the reverse mappings and of the write mappings is a pair of a virtual and a real path
  in R.  It is kept by every action if R goes on below (a pair extended by the same rest is
  a pair), which exploration and relocation need, and if `add_folder` stays in it when it climbs
  (`Regular`).  `ExplorationTypes` takes for R all pairs of paths, the other theorems the pairs that a
  record makes, which are regular if the VFS file is `Plain`.
* The empty reverse mapping of `other_functions.cpp:84` is no pair, so that `Inv(R)` has to say why
  no event goes through one: a watched directory is known, and `opendir` makes no entry for what
  is known (`Noticed`).  With it `ReverseExact` holds also for the calls of `ExploreOpendir`.
  `LayersProofs` needs more for the refinement: unless the program `LooksElsewhere`, what `opendir` looks into
  is in the tables after the lookup (`OpendirKnown`), and no such entry is ever made (`Allowed`).
* `InPlace` follows from the same pairs and from what each lookup returns (`GetPathReturns`): a
  mapping, a directory of a folder above with the rest of the path, the place a write mapping gives,
  or the path itself.  Each level of `Explore` keeps the pairs, and the levels are an interval.
* The theorems of `LayersProofs` need that nothing is missing from the tables.  `Steady` says that at
  all times they are a function (`Filled`) of the VFS file, the tree, and `read`: for each virtual folder,
  the records whose directory for it has been scanned.  `FilledFolders` gives each folder's real
  directories, its listing and its flag, `FilledFiles` each mapping with the last layer that was
  read, and `Noted` the watches and the reverse mappings.  In the middle of a lookup `read` is any set (a folder may be scanned
  from some of its directories); between calls it is `Settled`: each folder has been scanned from all its
  directories or from none.  That is what makes exploration unobservable, and it is not kept by the scan of one
  directory: `ExploreFills` and `FoundFills` show that a lookup, which may begin at any folder above and scans down
  the path, has scanned all layers of every folder it touched when it ends.  The number of records
  loaded so far takes the place of the whole VFS file while it is being read.
* From `Settled` the three invariants are read off, and so is the refinement.  A path is translated
  to the virtual path `Overlay` gives it, a lookup that finds a mapping finds the last
  layer that holds the file, one that finds none has explored the folder, so no layer has it, and a
  folder is redirected to its own directory or the last one that has it (`DirAt`).  As a
  program that reads makes no mapping to what is not there, nothing is bound (`NoneBound`).

Only model-checked:

* liveness (`CallsReturn`, `Noticed`): the prover has no rule for fairness;
* the refinement of `Overlay`, `LayersKnown`, `ListingExact` and `LayersWatched` for programs that
  write.  Creating, deleting and renaming, and the events they cause, change the tree under the tables, so that these are
  no function of it any more: a mapping may lead to what was deleted, a folder may
  be listed by an event before it is explored.  Of programs that write, `LayersWatched` says less
  (see "Runs");
* `FindsAnyCase` of `Caches`: which of several spellings exists, and which is cached, are two searches of the
  whole file system.

## Abstractions

* Names are values, already lower-cased except in `Caches`; a directory has one
  file per name.
* The names of `Exploration` are a constant set, so that paths have a type.  There `open` and
  `rename` fail on a directory (`Writable`), and `fs_mkdir_p` makes nothing at or below
  a file (`MadeFor`).
* In `VfsLookup` a folder has files only, and its directories never go away: what the scan does with one that
  is gone (`vfs.cpp:462`, `531`) is in `Watches` and `Exploration`.  Paths outside all folders, real paths
  and directories are in `Exploration`.  Every directory is watched from the
  start, as reading the VFS file does for the directories of its records
  (`vfs.cpp:438`), so events may be applied to a folder that is not explored yet.
* In `Exploration` there is one thread, which calls when the listener has no
  event to apply (`Ready`); the races are in `VfsLookup` and `Watches`.  A W record
  comes after the R records of its folder, W folders do not cover each other, and the real
  paths of two records are apart: none is the same as, or above, another's.  When a W record comes first its directory
  still has the highest priority, for it is appended to `foldervec`
  (`vfs.cpp:1034`).  No directory is removed or renamed.
* In `Watches` there is one record, and a path relative to its virtual folder is
  also relative to its directory.  A directory disappears by being removed, when it
  is empty; renaming a directory is left out.  `IN_DELETE_SELF` comes with the
  removal, as for a directory nobody holds open.  `setsid` reads the VFS file
  lazily: with `?full=` it would scan two levels again.  A fork happens between scans.
* In `Caches` folders have a fixed directory of their records, and nothing is mapped.  Removals by the program
  do not remove links, and a loop of links is a path that does not exist.

## Not modelled

* `server.cpp`, and the client in `vfs.cpp`: nothing calls them.
* `winevfs_fd_table` with `dup`, `close`: every read of it is disabled.
* `winevfs_write_vfsfile` has no caller, so a `?quick` file is never written; the line
  reader, `D` records (which delete a listing entry that is not there yet, unless a record
  of the file has put it there) and the executables' names of `?full=` are parsing.
* `linkat` and `symlinkat` have the two lookups of `rename` with a read for the first one;
  `renameatu` reads both.
* The launcher, logging, the statfs wrappers: no state.
* A fork while a thread of the parent holds a mutex: the child's mutex is never released.

## Plan

Done: every module of the table above, with the theorems of "Proofs".  What is left is to prove more:

1. `LayersProofs`: the same theorems for programs that write, with the tables a function of
   what was read, made, deleted and announced.
2. `Caches`: `FindsAnyCase`.
