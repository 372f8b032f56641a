--------------------------- MODULE ControllerLink ---------------------------
(***************************************************************************)
(* The TCP/serial link between a gate daemon and its barrier controller,   *)
(* with the circuit breaker that guards every write.                       *)
(*                                                                         *)
(* A link is a record:  up     the socket is open (is_connected()),        *)
(*                      fails  _cb_fail_count, saturated at the threshold: *)
(*                             the code only compares it with >=,          *)
(*                      open   now < _cb_open_until (breaker open).        *)
(* A write never suspends (the lock is only ever held across a blocking    *)
(* send), so a run of consecutive writes is one atomic step.               *)
(***************************************************************************)
EXTENDS Integers

CONSTANTS
    CbThreshold,    \* _cb_threshold: consecutive write errors that open the breaker
    Faults          \* the kinds of fault that may happen: "send", "redis", "crash"

ASSUME LinkAssumption ==
    /\ CbThreshold \in Nat \ {0}
    /\ Faults \subseteq {"send", "redis", "crash"}

Link == [up : BOOLEAN, fails : 0..CbThreshold, open : BOOLEAN]

\* _connect_controller reaches the controller, by TCP or serial, or there is none.
FreshLink(connected) == [up |-> connected, fails |-> 0, open |-> FALSE]

\* _send_controller_command reaches controller.send only in this case.
Sendable(l) == l.up /\ ~l.open

\* The write landed: the consecutive-failure count is cleared.
Landed(l) == [l EXCEPT !.fails = 0]

\* The write raised: count it, tear the socket down, maybe open the breaker.
Broken(l) ==
    LET n == IF l.fails < CbThreshold THEN l.fails + 1 ELSE CbThreshold
    IN  [up |-> FALSE, fails |-> n, open |-> n >= CbThreshold]

\* The link after one write that did not land.
LostSend(l) ==
    IF Sendable(l) THEN {Broken(l) : f \in Faults \cap {"send"}} ELSE {l}

\* The link after n best-effort writes in a row (their results are ignored).
\* Once one of them fails the socket is closed and the rest are skipped.
SendOutcomes(l, n) ==
    IF n = 0 \/ ~Sendable(l)
    THEN {l}
    ELSE {Landed(l)} \cup LostSend(l)
            \cup (IF n > 1 THEN LostSend(Landed(l)) ELSE {})

=============================================================================
