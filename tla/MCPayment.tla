----------------------------- MODULE MCPayment -----------------------------
(* Instances of Payment for TLC: two stays, one opened with a member's card. *)
EXTENDS Payment, TLC

CONSTANTS s1, s2, c1

MCFee == [t \in Types |-> IF t = "car" THEN 2 ELSE 1]

MCEntryCard == [s \in Stays |-> IF s = s1 THEN c1 ELSE None]

Workers == Permutations(Requests)

=============================================================================
