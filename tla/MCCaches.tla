------------------------------- MODULE MCCaches -------------------------------
(***************************************************************************)
(* An instance of Caches for TLC: a directory that is spelt in two ways, a *)
(* link to it, and something below it, which may be a link on to another   *)
(* directory.                                                              *)
(***************************************************************************)
EXTENDS Caches, TLC

Dir == [kind |-> "dir", to |-> << >>]
Call(op, path) == [op |-> op, path |-> path]

MCLower == [n \in {"M", "m"} |-> "m"] @@ [n \in {"L"} |-> "l"] @@ [n \in {"real"} |-> "real"]
MCPaths == {<<"M">>, <<"m">>, <<"L">>, <<"M", "m">>, <<"m", "M">>}
MCLinks == {<< <<"L">>, <<"M">> >>, << <<"M", "m">>, <<"m">> >>}
MCTrees == {<< >>,
            (<<"M">> :> Dir)
              @@ (<<"M", "m">> :> [kind |-> "file", to |-> << >>])
              @@ (<<"L">> :> Link(<<"M">>)),
            (<<"M">> :> Dir)
              @@ (<<"m">> :> Dir)
              @@ (<<"M", "m">> :> Link(<<"m">>))
              @@ (<<"L">> :> Link(<<"M">>))}
\* The folder m has a real directory of another name.
MCBacking == <<"m">> :> <<"real">>

MCCalls == {Call("stat", <<"L">>),
            Call("stat", <<"L", "m">>),
            Call("stat", <<"m", "m">>),
            Call("mkdir", <<"M">>),
            Call("mkdir", <<"M", "m">>),
            Call("remove", <<"M", "m">>)}
=============================================================================
