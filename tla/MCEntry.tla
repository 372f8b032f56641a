------------------------------ MODULE MCEntry ------------------------------
(* Instances of Entry for TLC: what the members table says of the one card. *)
EXTENDS Entry

MCExpiring == [c \in Cards |-> "expiring"]

MCValid == [c \in Cards |-> "valid"]

=============================================================================
