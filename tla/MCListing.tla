----------------------------- MODULE MCListing ------------------------------
(***************************************************************************)
(* Instances of Listing for TLC: streams over a folder of up to two names, *)
(* which other threads change while they are open.                         *)
(***************************************************************************)
EXTENDS Listing

CONSTANTS d1, d2, a, b

Symmetry == Permutations(Handles) \cup Permutations(Names)
=============================================================================
