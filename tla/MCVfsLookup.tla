----------------------------- MODULE MCVfsLookup -----------------------------
(***************************************************************************)
(* Instances of VfsLookup for TLC.  A mod manager's VFS file names, for    *)
(* each virtual folder, mod directories in load order (R records) and then *)
(* its overwrite directory (W record); low, high and over are those of     *)
(* folder Data, docs is the single directory of a second folder.           *)
(***************************************************************************)
EXTENDS VfsLookup, TLC

CONSTANTS t1, t2, inotify, nobody, nodir, Data, Docs, low, high, over, docs,
          plugin, texture

\* One folder: a mod directory and the overwrite directory.
OneFolderDirs    == {low, over}
OneFolderPaths   == (Data :> <<low, over>>)
OneFolderWrite   == (Data :> over)
OneFolderReverse == [d \in {low, over} |-> Data]

\* One folder: two mod directories, and no overwrite directory.
ModsDirs    == {low, high}
ModsPaths   == (Data :> <<low, high>>)
ModsWrite   == (Data :> nodir)
ModsReverse == [d \in {low, high} |-> Data]

\* Two folders, each with a write directory of its own.
TwoFolderDirs    == {low, over, docs}
TwoFolderPaths   == (Data :> <<low, over>>) @@ (Docs :> <<docs>>)
TwoFolderWrite   == (Data :> over) @@ (Docs :> docs)
TwoFolderReverse == (low :> Data) @@ (over :> Data) @@ (docs :> Docs)

\* The same with two mod directories in the first folder.
TwoLayeredDirs    == {low, high, over, docs}
TwoLayeredPaths   == (Data :> <<low, high, over>>) @@ (Docs :> <<docs>>)
TwoLayeredReverse == [d \in {low, high, over} |-> Data] @@ (docs :> Docs)

\* Threads that may call the same functions on the same names.
ThreadSymmetry == Permutations(Threads)
=============================================================================
