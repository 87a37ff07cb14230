------------------------------- MODULE Lists -------------------------------
(***************************************************************************)
(* Taking some of a list's elements in the order they have: what erasing   *)
(* under a condition, and copying under one, leave.  Written with the      *)
(* places that stay, where SelectSeq folds over the list, so that it can   *)
(* be reasoned about.                                                      *)
(***************************************************************************)
EXTENDS Integers, Sequences, FiniteSets, Functions

(* The members of I from the least to the greatest. *)
Ascending(I) ==
    CHOOSE k \in [1 .. Cardinality(I) -> I] :
        Range(k) = I /\ \A i, j \in DOMAIN k : i < j => k[i] < k[j]

Picked(s, I) == LET k == Ascending(I) IN [i \in DOMAIN k |-> s[k[i]]]

(* What the numbers of a list add up to. *)
AddedUp(s) ==
    LET sum[i \in 0 .. Len(s)] == IF i = 0 THEN 0 ELSE sum[i - 1] + s[i]
    IN  sum[Len(s)]
=============================================================================
