-------------------------------- MODULE Sublists --------------------------------
(***************************************************************************)
(* The loops that copy some elements of a list into a new one.             *)
(***************************************************************************)
EXTENDS Integers, Sequences

(* The elements that are in a set, in their order. *)
OnlyIn(list, S) ==
    LET found[n \in 0 .. Len(list)] ==
            IF n = 0 THEN <<>>
            ELSE IF list[n] \in S THEN Append(found[n - 1], list[n]) ELSE found[n - 1]
    IN  found[Len(list)]
===============================================================================
