------------------------------- MODULE Ledger -------------------------------
(***************************************************************************)
(* What the exit lane promises of the books, without requests, locks or    *)
(* caches: every stay is open until it is settled, once, by one method.    *)
(***************************************************************************)
CONSTANTS Stays, Methods

VARIABLE book   \* for each stay: "open", or the method that settled it

LInit == book = [s \in Stays |-> "open"]

Settle(s, m) ==
    /\ book[s] = "open"
    /\ book' = [book EXCEPT ![s] = m]

LNext == \E s \in Stays, m \in Methods : Settle(s, m)

LSpec == LInit /\ [][LNext]_book

=============================================================================
