------------------------------ MODULE MCBooth ------------------------------
(* Instances of Booth for TLC: a gate with a member card reader that closes by *)
(* itself, and one without either.                                             *)
EXTENDS Booth

MCRows ==
    {[open |-> TRUE, close |-> TRUE, reader |-> TRUE],
     [open |-> TRUE, close |-> FALSE, reader |-> FALSE]}

MCCharged == {[open |-> TRUE, close |-> TRUE, reader |-> FALSE]}

=============================================================================
