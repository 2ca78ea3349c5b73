---------------------------- MODULE MCExploration -----------------------------
(***************************************************************************)
(* Instances of Exploration for TLC: the folder Data of a game, backed by  *)
(* the directories of two mods and by the overwrite directory.             *)
(***************************************************************************)
EXTENDS Exploration, TLC

MCNames == {"game", "data", "docs", "mods", "a", "b", "over", "plugin", "meshes", "mesh",
            "armour", "sounds", "sound", "ini"}

Game == <<"game">>
Data == <<"game", "data">>
Docs == <<"docs">>
ModA == <<"mods", "a">>
ModB == <<"mods", "b">>
Over == <<"mods", "over">>

R(virtual, real) == [op |-> "R", virtual |-> virtual, real |-> real]
W(virtual, real) == [op |-> "W", virtual |-> virtual, real |-> real]

Call(op, path) == [op |-> op, path |-> path, to |-> << >>]
Renaming(path, to) == [op |-> "rename", path |-> path, to |-> to]

\* A file directly in Data, and in sub-folders one and two levels down.
Plugin  == <<"plugin">>
Mesh    == <<"meshes", "mesh">>
Armour  == <<"meshes", "armour", "mesh">>
Deep    == <<"meshes", "armour", "a", "b", "mesh">>
DeepPlugin == <<"meshes", "armour", "a", "b", "plugin">>
Sounds  == <<"sounds">>
Sound   == <<"sounds", "sound">>
Ini     == <<"ini">>

\* Two mods and the overwrite directory; the mods alone, the other way round;
\* a mod, a single file, and a write directory for another folder.
LayeredFiles == {<<R(Data, ModA), R(Data, ModB), W(Data, Over)>>,
                 <<R(Data, ModB), R(Data, ModA)>>,
                 <<R(Data, ModA), R(Docs \o Plugin, ModB \o Ini), W(Docs \o Sounds, Over)>>}
LayeredHomes == {Game, ModA, ModB, Over}
\* The plugin is in both mods or in none.
LayeredTrees == {{ModB \o Ini} \cup plugins \cup t :
                    plugins \in {{}, {ModA \o Plugin, ModB \o Plugin}},
                    t \in SUBSET {ModA \o Mesh, ModB \o Deep}}
LayeredCalls == {Call("read", Data \o Mesh),
                 Call("read", ModA \o Deep),
                 Call("create", Data \o DeepPlugin),
                 Call("create", ModB \o Mesh),
                 Call("append", Docs \o Plugin),
                 Call("create", Docs \o Sound),
                 Call("unlink", Data \o Plugin),
                 Call("create", Data \o Plugin),
                 Renaming(Data \o Mesh, Data \o Armour),
                 Call("mkdir", Data \o Sounds),
                 Call("stat", Docs),
                 Call("opendir", Data \o <<"meshes">>)}

\* The game has a directory of its own in the virtual folder.
OwnHomes == LayeredHomes \cup {Data \o Sounds}
OwnCalls == {Call("opendir", Data \o Sounds), Call("create", Data \o Sound)}

\* No name begins with another one.
Whole == << >>
OverwriteFile == {<<R(Data, ModA), R(Data, ModB), W(Data, Over)>>}

\* A mod has a directory four levels below its own, where the overwrite directory
\* gets one too: the parent of Deep.
DeepTrees == {{ModB \o Deep}}
DeepCalls == {Call("read", Data \o Deep),
              Call("create", Data \o DeepPlugin),
              Call("append", Append(Over \o Parent(Deep), "ini"))}

\* The hypotheses of the theorems that are about the constants alone.
ASSUME PlainFiles == Plain
ASSUME LayeredTables == Layered
ASSUME LayeredLooks == Calls = LayeredCalls => ~LooksElsewhere
=============================================================================
