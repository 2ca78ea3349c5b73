------------------------------ MODULE MCWatches -------------------------------
(***************************************************************************)
(* Instances of Watches for TLC: a mod with a folder in a folder, and a    *)
(* file in each; the inner folder may be a file instead.                   *)
(***************************************************************************)
EXTENDS Watches

MCNames == {"meshes", "armour", "mesh"}
Meshes == <<"meshes">>
Armour == <<"meshes", "armour">>
MCDirs == {<< >>, Meshes, Armour}
MCFiles == {<<"meshes", "mesh">>, Armour, <<"meshes", "armour", "mesh">>}
=============================================================================
