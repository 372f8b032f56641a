------------------------------ MODULE MCWorkers ------------------------------
(* The workers' jobs for TLC.  Settling, printing, taking snapshots and         *)
(* cleaning up share no state, so each behaviour is one of the four: focus says *)
(* which.                                                                       *)
EXTENDS Settlement, Jobs, Retention
CONSTANTS t1, t2, t3, t4
VARIABLE focus
vars == <<settleVars, jobsVars, retentionVars, focus>>

MCReader == [t \in Charges |-> IF t = t3 THEN "d2" ELSE "d1"]

\* The rows as the API books them.
MCByApi == [t \in Charges |-> NoReader]

Init ==
    /\ SettleInit /\ JobsInit /\ RetentionInit
    /\ focus \in {"settle", "print", "snapshot", "cleanup"}

Settling == focus = "settle" /\ UNCHANGED <<jobsVars, retentionVars, focus>>

Next ==
    \/ Settling /\ SettleNext
    \/ focus = "print" /\ PrintNext /\ UNCHANGED <<settleVars, retentionVars, focus>>
    \/ focus = "snapshot" /\ SnapshotNext /\ UNCHANGED <<settleVars, retentionVars, focus>>
    \/ focus = "cleanup" /\ RetentionNext /\ UNCHANGED <<settleVars, jobsVars, focus>>

Spec == Init /\ [][Next]_vars

\* SettleFairness, in the behaviours that settle.
FairSpec ==
    /\ Spec
    /\ \A r \in CronRuns : WF_vars(Settling /\ RunStep(r))
    /\ WF_vars(Settling /\ LeaseExpires)

\* The states of the workers have their types.
WorkersTypeOK == SettleTypeOK /\ JobsTypeOK /\ RetentionTypeOK
=============================================================================
