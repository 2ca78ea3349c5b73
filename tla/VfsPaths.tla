------------------------------- MODULE VfsPaths -------------------------------
(***************************************************************************)
(* Paths as sequences of names, the empty sequence being "/".  Paths are   *)
(* absolute and, but for Caches, lower case and free of links: what        *)
(* winevfs_abspath and lower make of them.                                 *)
(***************************************************************************)
EXTENDS Integers, Sequences, FiniteSets, SequencesExt, FiniteSetsExt

\* The path j levels up.
Up(p, j) == SubSeq(p, 1, Len(p) - j)
Parent(p) == Up(p, 1)

\* std::filesystem::path::filename; that of "/" is empty.
FileName(p) == IF p = << >> THEN "" ELSE Last(p)

Ancestors(p) == {Up(p, j) : j \in 1..Len(p)}
OnPath(p) == Ancestors(p) \cup {p}

\* Where p, which is below from, lies when from is replaced by to.
Relocate(p, from, to) == to \o SubSeq(p, Len(from) + 1, Len(p))

LongestOf(S) == CHOOSE p \in S : \A q \in S : Len(q) <= Len(p)

-----------------------------------------------------------------------------
(* Tables: functions whose domains grow *)

Put(table, k, value) ==
    [q \in DOMAIN table \cup {k} |-> IF q = k THEN value ELSE table[q]]

\* table with everything that news has.
Override(news, table) ==
    [k \in DOMAIN news \cup DOMAIN table |->
        IF k \in DOMAIN news THEN news[k] ELSE table[k]]
=============================================================================
