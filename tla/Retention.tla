------------------------------ MODULE Retention ------------------------------
(***************************************************************************)
(* The clean-up jobs of the background worker                              *)
(* (workers/background/cleanup_worker.py) on the stays they work on:       *)
(* models/parking_transaction.py, with the foreign key of the e-money rows *)
(* that name a stay (initial_schema), which has no ON DELETE.              *)
(***************************************************************************)
EXTENDS Integers

CONSTANTS
    Visits,      \* the vehicles that come
    KeepDays,    \* SESSION_RETENTION_DAYS
    MaxDays      \* bound: days

ASSUME RetentionAssumption == KeepDays \in Nat /\ MaxDays \in Nat

VARIABLES
    day,
    stay,        \* each vehicle's row of parking_transactions, or NoRow
    armed,       \* stays whose e-money payment waits, in Redis and not on the row
    charged,     \* stays that an e-money row names
    \* history
    life         \* "none", "in", "out", and the day it left

retentionVars == <<day, stay, armed, charged, life>>

NoRow == [status |-> "none", method |-> "none", left |-> 0]

RetentionTypeOK ==
    /\ day \in 0..MaxDays
    /\ stay \in [Visits -> [status : {"none", "ACTIVE", "COMPLETED"},
                            method : {"none", "PENDING", "CASH", "EMONEY"}, left : 0..MaxDays]]
    /\ armed \subseteq Visits /\ charged \subseteq Visits
    /\ life \in [Visits -> [is : {"none", "in", "out"}, day : 0..MaxDays]]

RetentionInit ==
    /\ day = 0 /\ stay = [v \in Visits |-> NoRow] /\ armed = {} /\ charged = {}
    /\ life = [v \in Visits |-> [is |-> "none", day |-> 0]]

\* The entry is recorded: no method, no exit.
Enters(v) ==
    /\ life[v].is = "none"
    /\ stay' = [stay EXCEPT ![v].status = "ACTIVE"] /\ life' = [life EXCEPT ![v].is = "in"]
    /\ UNCHANGED <<day, armed, charged>>

\* process_emoney_deduct puts the pending payment into Redis and leaves the row as it is.
Arms(v) ==
    /\ stay[v].status = "ACTIVE" /\ armed' = armed \cup {v}
    /\ UNCHANGED <<day, stay, charged, life>>

\* complete_exit_transaction, with the e-money row in the same commit if there is one.
Leaves(v, method) ==
    /\ stay[v].status = "ACTIVE" /\ (method = "EMONEY" => v \in armed)
    /\ stay' = [stay EXCEPT ![v] = [status |-> "COMPLETED", method |-> method, left |-> day]]
    /\ charged' = IF method = "EMONEY" THEN charged \cup {v} ELSE charged
    /\ armed' = IF method = "EMONEY" THEN armed \ {v} ELSE armed
    /\ life' = [life EXCEPT ![v] = [is |-> "out", day |-> day]]
    /\ UNCHANGED day

\* process_emoney_result of a deduction that did not go through: its row names the
\* stay too, and after LOST_CONTACT the payment keeps waiting.
DeductFails(v) ==
    /\ stay[v].status = "ACTIVE" /\ v \in armed
    /\ charged' = charged \cup {v} /\ armed' \in {armed, armed \ {v}}
    /\ UNCHANGED <<day, stay, life>>

\* MUTANT of Expired: the time since the exit is not looked at.
ExpiredAtOnce == {v \in Visits : stay[v].status = "COMPLETED"}

\* What the DELETE of cleanup_old_sessions selects.
Expired == {v \in Visits : stay[v].status = "COMPLETED" /\ stay[v].left < day - KeepDays}

\* It is one statement: a row it may not delete, because an e-money row names it,
\* raises, and nothing is deleted.
CleanupOldSessions ==
    /\ stay' = IF Expired \cap charged = {}
               THEN [v \in Visits |-> IF v \in Expired THEN NoRow ELSE stay[v]]
               ELSE stay
    /\ UNCHANGED <<day, armed, charged, life>>

\* timeout_pending_payments looks for a method that no code writes on a row, the
\* pending payment being in Redis; how long ago the row changed is not kept here.
TimeoutPendingPayments ==
    /\ stay' = [v \in Visits |-> IF stay[v].status = "ACTIVE" /\ stay[v].method = "PENDING"
                                 THEN [stay[v] EXCEPT !.method = "none"] ELSE stay[v]]
    /\ UNCHANGED <<day, armed, charged, life>>

DayPasses ==
    /\ day < MaxDays /\ day' = day + 1
    /\ UNCHANGED <<stay, armed, charged, life>>

RetentionNext ==
    \/ \E v \in Visits : Enters(v) \/ Arms(v) \/ DeductFails(v)
    \/ \E v \in Visits, m \in {"CASH", "EMONEY"} : Leaves(v, m)
    \/ CleanupOldSessions \/ TimeoutPendingPayments \/ DayPasses

RetentionSpec == RetentionInit /\ [][RetentionNext]_retentionVars

-----------------------------------------------------------------------------
(* Properties *)

\* A stay is on record while its vehicle is inside, for as long as the retention
\* says after it has left, and as long as an e-money row names it: no clean-up
\* takes what a payment, a report or a settlement still needs (cleanup_worker.py
\* cleanup_old_sessions: "ACTIVE transactions are never deleted").
Retained ==
    \A v \in Visits :
        /\ life[v].is = "in" => stay[v].status = "ACTIVE"
        /\ life[v].is = "out" /\ (day - life[v].day <= KeepDays \/ v \in charged)
             => stay[v].status = "COMPLETED"

=============================================================================
