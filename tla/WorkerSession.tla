---------------------------- MODULE WorkerSession ----------------------------
(***************************************************************************)
(* Who works at which gate: check-in, the two-step handover and the forced *)
(* leave of services/worker_session.py (behind routes/worker_sessions.py)  *)
(* and the plan of routes/shift_assignments.py.  The shift a session is    *)
(* booked on is looked up as in module Rules; no step here depends on it,  *)
(* nor on the worker an assignment names.                                  *)
(*                                                                         *)
(* A request reads what it needs, checks it, and commits later: nothing is *)
(* locked and no row has a version, so a request commits what it decided   *)
(* on whatever the rows say by then.  req[q] is the request in flight.     *)
(***************************************************************************)
EXTENDS Integers, Sequences, FiniteSets

CONSTANTS
    Gates, Workers,
    WithPin,      \* the workers that are active users with a PIN
    Requests,     \* requests handled at a time
    Shifts,       \* the shifts an assignment may be for
    MaxSessions   \* bound: sessions ever opened

ASSUME WorkerSessionAssumption ==
    /\ WithPin \subseteq Workers /\ MaxSessions \in Nat

VARIABLES
    session,   \* worker_sessions, oldest first
    alerted,   \* sessions with a WORKER_UNCOVERED alert
    plan,      \* shift_assignments: a gate and a shift
    req,       \* requests between their reads and their commit
    overlap    \* history: gates at which two requests were in flight at once

sessionVars == <<session, alerted, plan, req, overlap>>

Statuses == {"ACTIVE", "PENDING_HANDOVER", "COMPLETED"}
Ids      == 1..MaxSessions
Free     == [op |-> "free"]
NoId     == 0

SessionTypeOK ==
    /\ session \in Seq([gate : Gates, worker : WithPin, status : Statuses,
                        assignment : SUBSET (Gates \X Shifts), prev : Ids \cup {NoId},
                        end : {"none", "SCHEDULED", "FORCE_LEAVE"}])
    /\ Len(session) <= MaxSessions
    /\ alerted \subseteq DOMAIN session
    /\ plan \subseteq Gates \X Shifts
    /\ overlap \subseteq Gates
    /\ DOMAIN req = Requests

SessionInit ==
    /\ session = <<>> /\ alerted = {} /\ plan = {} /\ overlap = {}
    /\ req = [q \in Requests |-> Free]

-----------------------------------------------------------------------------
(* What the requests read *)

\* MUTANT of Verified: any user of the system will do.
VerifiedAny(w) == w \in Workers

\* _get_worker_and_verify_pin.
Verified(w) == w \in WithPin

\* _get_active_session.
OpenAt(g) == {i \in DOMAIN session : session[i].gate = g /\ session[i].status # "COMPLETED"}

\* A request that passed its checks waits to commit.
Await(q, r) == req[q] = Free /\ req' = [req EXCEPT ![q] = r]

\* It commits; a request of the same gate that is in flight too has read the rows
\* before this commit.
Commits(q, g) ==
    /\ req' = [req EXCEPT ![q] = Free]
    /\ overlap' = overlap \cup {h \in {g} : \E p \in Requests \ {q} :
                                               req[p] # Free /\ req[p].gate = h}

-----------------------------------------------------------------------------
(* check_in *)

\* MUTANT of ReadCheckIn: only an ACTIVE session is in the way.
ReadCheckInActive(q, g, w) ==
    /\ Verified(w) /\ \A i \in OpenAt(g) : session[i].status # "ACTIVE"
    /\ Await(q, [op |-> "check_in", gate |-> g, worker |-> w, id |-> NoId, assignment |-> {}])
    /\ UNCHANGED <<session, alerted, plan, overlap>>

\* The assignment named in the request, if any, must be one of this gate.
ReadCheckIn(q, g, w) ==
    /\ Verified(w) /\ OpenAt(g) = {}
    /\ \E a \in {{}} \cup {{x} : x \in plan \cap ({g} \X Shifts)} :
         Await(q, [op |-> "check_in", gate |-> g, worker |-> w, id |-> NoId, assignment |-> a])
    /\ UNCHANGED <<session, alerted, plan, overlap>>

\* The row of a session that starts, with the session it takes over from.
NewSession(r) ==
    [gate |-> r.gate, worker |-> r.worker, status |-> "ACTIVE",
     assignment |-> r.assignment, prev |-> r.id, end |-> "none"]

\* The insert fails if the assignment was deleted in the meantime.
CommitCheckIn(q) ==
    LET r == req[q]
    IN  /\ r.op = "check_in" /\ Len(session) < MaxSessions
        /\ session' = IF r.assignment \subseteq plan
                      THEN Append(session, NewSession(r)) ELSE session
        /\ Commits(q, r.gate) /\ UNCHANGED <<alerted, plan>>

-----------------------------------------------------------------------------
(* confirm_outgoing, confirm_incoming, force_leave *)

ReadSession(q, i, op, w, from) ==
    /\ session[i].status \in from /\ Verified(w)
    /\ Await(q, [op |-> op, gate |-> session[i].gate, worker |-> w, id |-> i,
                 assignment |-> {}])
    /\ UNCHANGED <<session, alerted, plan, overlap>>

ReadOutgoing(q, i) == ReadSession(q, i, "outgoing", session[i].worker, {"ACTIVE"})

CommitOutgoing(q) ==
    LET r == req[q]
    IN  /\ r.op = "outgoing"
        /\ session' = [session EXCEPT ![r.id].status = "PENDING_HANDOVER",
                                      ![r.id].end = "SCHEDULED"]
        /\ Commits(q, r.gate) /\ UNCHANGED <<alerted, plan>>

ReadIncoming(q, i, w) == ReadSession(q, i, "incoming", w, {"PENDING_HANDOVER"})

\* The outgoing session ends and the incoming one starts in one transaction.
CommitIncoming(q) ==
    LET r == req[q]
    IN  /\ r.op = "incoming" /\ Len(session) < MaxSessions
        /\ session' = Append([session EXCEPT ![r.id].status = "COMPLETED"], NewSession(r))
        /\ Commits(q, r.gate) /\ UNCHANGED <<alerted, plan>>

ReadForceLeave(q, i) ==
    ReadSession(q, i, "leave", session[i].worker, {"ACTIVE", "PENDING_HANDOVER"})

\* MUTANT of CommitForceLeave: an outgoing worker who has already confirmed is
\* not reported.
CommitForceLeaveQuiet(q) ==
    LET r == req[q]
    IN  /\ r.op = "leave"
        /\ session' = [session EXCEPT ![r.id].status = "COMPLETED", ![r.id].end = "FORCE_LEAVE"]
        /\ alerted' = IF session[r.id].status = "ACTIVE" THEN alerted \cup {r.id} ELSE alerted
        /\ Commits(q, r.gate) /\ UNCHANGED plan

CommitForceLeave(q) ==
    LET r == req[q]
    IN  /\ r.op = "leave"
        /\ session' = [session EXCEPT ![r.id].status = "COMPLETED", ![r.id].end = "FORCE_LEAVE"]
        /\ alerted' = alerted \cup {r.id}
        /\ Commits(q, r.gate) /\ UNCHANGED plan

-----------------------------------------------------------------------------
(* shift_assignments: the unique constraint makes each of these one step *)

CreateAssignment(a) ==
    /\ a \notin plan /\ plan' = plan \cup {a}
    /\ UNCHANGED <<session, alerted, req, overlap>>

\* The database refuses to delete an assignment a session refers to.
DeleteAssignment(a) ==
    /\ a \in plan /\ \A i \in DOMAIN session : a \notin session[i].assignment
    /\ plan' = plan \ {a}
    /\ UNCHANGED <<session, alerted, req, overlap>>

-----------------------------------------------------------------------------

SessionNext ==
    \/ \E q \in Requests :
         \/ \E g \in Gates, w \in Workers : ReadCheckIn(q, g, w)
         \/ \E i \in DOMAIN session :
              \/ ReadOutgoing(q, i) \/ ReadForceLeave(q, i)
              \/ \E w \in Workers : ReadIncoming(q, i, w)
         \/ CommitCheckIn(q) \/ CommitOutgoing(q) \/ CommitIncoming(q) \/ CommitForceLeave(q)
    \/ \E a \in Gates \X Shifts : CreateAssignment(a) \/ DeleteAssignment(a)

SessionSpec == SessionInit /\ [][SessionNext]_sessionVars

-----------------------------------------------------------------------------
(* Properties *)

\* No gate is left without anybody knowing: a session that has ended was taken
\* over by a session at the same gate, or was left by force and reported, also
\* when a takeover and a forced leave of it run into each other
\* (worker_session.py confirm_incoming, force_leave).
CoveredOrAlerted ==
    \A i \in DOMAIN session :
        session[i].status = "COMPLETED" =>
            \/ i \in alerted
            \/ \E j \in DOMAIN session : session[j].prev = i /\ session[j].gate = session[i].gate

\* While the requests of a gate do not overlap, its sessions form a chain: at
\* most one is open, and no session is taken over twice
\* (worker_session.py _get_active_session, confirm_incoming).
OneChainPerGate ==
    \A g \in Gates \ overlap :
        /\ Cardinality(OpenAt(g)) <= 1
        /\ \A i, j \in DOMAIN session :
             /\ i # j /\ session[i].gate = g /\ session[j].gate = g
             /\ session[i].prev # NoId
             => session[i].prev # session[j].prev

=============================================================================
