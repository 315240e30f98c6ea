------------------------------ MODULE MCLibrary ------------------------------
(* Values for model checking Library: two books, two files, two versions   *)
(* of the metadata that a query tells apart.                               *)
EXTENDS Library, TLC

CONSTANTS m1, m2, q1, q2

MCMatches == q1 :> {m1} @@ q2 :> {m1, m2}
MCHasUrl == {m2}
MCSize == m1 :> 1 @@ m2 :> 2

Symmetry == Permutations(Id) \cup Permutations(Path)
=============================================================================
