-------------------------------- MODULE Setup --------------------------------
(***************************************************************************)
(* The set-up wizard: routes/setup.py and services/setup.py.  A request    *)
(* reads, checks and later commits; ask[q] is the request in flight:       *)
(*   session  token accepted and deleted, wizard session not yet created   *)
(*   admin    no admin found, admin not yet committed                      *)
(*   state    session read, the step's data not yet committed              *)
(*   gates    codes read, the missing gates not yet committed              *)
(*   script, mark, drop   finalize: running enable-gate-daemons.sh, then   *)
(*            setting setup_complete, then deleting the wizard session     *)
(*   sent, wait   test_gate: open command sent, subscribed to the events   *)
(***************************************************************************)
EXTENDS Integers, FiniteSets

CONSTANTS
    Steps,       \* the steps of the wizard that save their data
    Codes,       \* the codes of the gates of the topology
    SetupSlots,  \* requests handled at a time
    MaxMints,    \* bound: tokens the installer writes
    MaxCommands  \* bound: open commands waiting

ASSUME SetupAssumption ==
    IsFiniteSet(SetupSlots) /\ MaxMints \in Nat /\ MaxCommands \in Nat

VARIABLES
    token,       \* the set-up token file exists
    mints,       \* tokens written so far
    wizard,      \* the newest wizard session: its saved steps, or NoWizard
    admins,      \* how many admins there are
    codes,       \* codes of the gates
    complete,    \* the setup_complete setting
    ask,         \* requests in flight
    command,     \* open commands the daemon has not handled
    \* history
    opened,      \* sessions opened, and so the number of the newest
    enabled,     \* enable-gate-daemons.sh has succeeded
    kept,        \* steps whose save has been acknowledged
    clash,       \* two requests of one kind were in flight at once
    verdict      \* the last test_gate: "none", "ok", "wrong" or "timeout"

setupVars == <<token, mints, wizard, admins, codes, complete, ask, command,
               opened, enabled, kept, clash, verdict>>

NoWizard == [saved |-> {}, there |-> FALSE]
NoAsk    == [op |-> "none", saw |-> {}, step |-> {}, session |-> 0]

SetupTypeOK ==
    /\ token \in BOOLEAN /\ mints \in 0..MaxMints /\ opened \in 0..MaxMints
    /\ wizard \in [saved : SUBSET Steps, there : BOOLEAN]
    /\ admins \in 0..Cardinality(SetupSlots) /\ codes \subseteq Codes
    /\ complete \in BOOLEAN /\ enabled \in BOOLEAN /\ clash \in BOOLEAN
    /\ ask \in [SetupSlots -> [op : {"none", "session", "admin", "state", "gates", "script",
                                     "mark", "drop", "sent", "wait"},
                               saw : SUBSET (Steps \cup Codes), step : SUBSET (Steps \cup Codes),
                               session : 0..opened]]
    /\ command \in 0..MaxCommands
    /\ kept \subseteq Steps /\ verdict \in {"none", "ok", "wrong", "timeout"}

SetupInit ==
    /\ token = FALSE /\ mints = 0 /\ wizard = NoWizard /\ admins = 0 /\ codes = {}
    /\ complete = FALSE /\ ask = [q \in SetupSlots |-> NoAsk] /\ command = 0
    /\ opened = 0 /\ enabled = FALSE /\ kept = {} /\ clash = FALSE /\ verdict = "none"

Goes(q, op, saw, step, session) ==
    ask' = [ask EXCEPT ![q] = [op |-> op, saw |-> saw, step |-> step, session |-> session]]

On(q, op) == ask' = [ask EXCEPT ![q].op = op]

Ends(q) == ask' = [ask EXCEPT ![q] = NoAsk]

\* A request starts; another one of its kind may be between its read and commit.
Begins(q, op, saw, step, session) ==
    /\ ask[q] = NoAsk /\ Goes(q, op, saw, step, session)
    /\ clash' = (clash \/ \E p \in SetupSlots : ask[p].op = op)

-----------------------------------------------------------------------------
(* The token and the wizard session *)

\* The installer writes a token.
MintToken ==
    /\ ~token /\ mints < MaxMints /\ token' = TRUE /\ mints' = mints + 1
    /\ UNCHANGED <<wizard, admins, codes, complete, ask, command, opened, enabled, kept, clash, verdict>>

\* read_setup_token finds the file too old and removes it.
TokenExpires ==
    /\ token /\ token' = FALSE
    /\ UNCHANGED <<mints, wizard, admins, codes, complete, ask, command, opened, enabled, kept, clash, verdict>>

\* MUTANT of Redeem: the file is deleted after the session is created.
RedeemKeeps(q) ==
    /\ token /\ ask[q] = NoAsk /\ Goes(q, "session", {}, {}, 0)
    /\ UNCHANGED <<token, mints, wizard, admins, codes, complete, command, opened, enabled, kept, clash, verdict>>

\* redeem_token reads, compares and deletes the file in one go.
Redeem(q) ==
    /\ token /\ token' = FALSE /\ ask[q] = NoAsk /\ Goes(q, "session", {}, {}, 0)
    /\ UNCHANGED <<mints, wizard, admins, codes, complete, command, opened, enabled, kept, clash, verdict>>

\* create_session; the wizard goes on with the newest session.
CreateSession(q) ==
    /\ ask[q].op = "session" /\ Ends(q)
    /\ wizard' = [saved |-> {}, there |-> TRUE] /\ opened' = opened + 1 /\ kept' = {}
    /\ UNCHANGED <<token, mints, admins, codes, complete, command, enabled, clash, verdict>>

\* get_session_by_token finds the session expired and deletes it.
SessionExpires ==
    /\ wizard.there /\ wizard' = NoWizard /\ kept' = {}
    /\ UNCHANGED <<token, mints, admins, codes, complete, ask, command, opened, enabled, clash, verdict>>

\* A request fails before its commit, or the API restarts: nothing is written.
SetupFails(q) ==
    /\ ask[q] # NoAsk /\ Ends(q)
    /\ UNCHANGED <<token, mints, wizard, admins, codes, complete, command, opened, enabled, kept, clash, verdict>>

-----------------------------------------------------------------------------
(* The steps *)

\* create_admin needs the wizard session and no admin.
ReadAdmin(q) ==
    /\ wizard.there /\ admins = 0 /\ Begins(q, "admin", {}, {}, 0)
    /\ UNCHANGED <<token, mints, wizard, admins, codes, complete, command, opened, enabled, kept, verdict>>

CommitAdmin(q) ==
    /\ ask[q].op = "admin" /\ admins' = admins + 1 /\ Ends(q)
    /\ UNCHANGED <<token, mints, wizard, codes, complete, command, opened, enabled, kept, clash, verdict>>

\* save_state reads the session's data ...
ReadState(q, s) ==
    /\ wizard.there /\ Begins(q, "state", wizard.saved, {s}, opened)
    /\ UNCHANGED <<token, mints, wizard, admins, codes, complete, command, opened, enabled, kept, verdict>>

\* MUTANT of Merged: the step replaces what was saved.
MergedOnly(r) == r.step

\* save_session_step: the data as read, with this step's.
Merged(r) == r.saw \cup r.step

\* The session a request found is still the wizard's.
Mine(r) == wizard.there /\ r.session = opened

\* ... and writes it back whole; without the row the write fails.
CommitState(q) ==
    /\ ask[q].op = "state" /\ Ends(q)
    /\ IF Mine(ask[q])
       THEN wizard' = [wizard EXCEPT !.saved = Merged(ask[q])] /\ kept' = kept \cup ask[q].step
       ELSE UNCHANGED <<wizard, kept>>
    /\ UNCHANGED <<token, mints, admins, codes, complete, command, opened, enabled, clash, verdict>>

\* require_setup_or_admin.
Allowed == wizard.there \/ admins > 0

\* apply_topology leaves out the codes it finds; a code committed meanwhile makes
\* the whole insert fail.
ReadCodes(q) ==
    /\ Allowed /\ \E want \in SUBSET Codes : Begins(q, "gates", codes, want, 0)
    /\ UNCHANGED <<token, mints, wizard, admins, codes, complete, command, opened, enabled, kept, verdict>>

CommitCodes(q) ==
    /\ ask[q].op = "gates" /\ Ends(q)
    /\ LET new == ask[q].step \ ask[q].saw
       IN  codes' = IF new \cap codes = {} THEN codes \cup new ELSE codes
    /\ UNCHANGED <<token, mints, wizard, admins, complete, command, opened, enabled, kept, clash, verdict>>

-----------------------------------------------------------------------------
(* test_gate *)

SendOpen(q) ==
    /\ Allowed /\ ask[q] = NoAsk /\ Goes(q, "sent", {}, {}, 0)
    /\ command < MaxCommands /\ command' = command + 1 /\ verdict' = "none"
    /\ UNCHANGED <<token, mints, wizard, admins, codes, complete, opened, enabled, kept, clash>>

\* _wait_event subscribes only now.
Subscribe(q) ==
    /\ ask[q].op = "sent" /\ On(q, "wait")
    /\ UNCHANGED <<token, mints, wizard, admins, codes, complete, command, opened, enabled, kept, clash, verdict>>

\* _wait_event takes the first event of the wanted type.
Acks(event) == event = "gate_opened"

\* The daemon carries out a command and publishes gate_opened, or publishes
\* something else; only a test that has subscribed hears it.
GateSays(event) ==
    /\ event = "gate_opened" => command > 0
    /\ command' = IF event = "gate_opened" THEN command - 1 ELSE command
    /\ LET heard == {q \in SetupSlots : ask[q].op = "wait" /\ Acks(event)}
       IN  /\ ask' = [q \in SetupSlots |-> IF q \in heard THEN NoAsk ELSE ask[q]]
           /\ verdict' = IF heard = {} THEN verdict
                         ELSE IF event = "gate_opened" THEN "ok" ELSE "wrong"
    /\ UNCHANGED <<token, mints, wizard, admins, codes, complete, opened, enabled, kept, clash>>

TestTimesOut(q) ==
    /\ ask[q].op = "wait" /\ Ends(q) /\ verdict' = "timeout"
    /\ UNCHANGED <<token, mints, wizard, admins, codes, complete, command, opened, enabled, kept, clash>>

-----------------------------------------------------------------------------
(* finalize *)

\* With the wizard's session, or without it by an admin.
RunScript(q) ==
    /\ \E s \in {i \in {0, opened} : IF i = 0 THEN admins > 0 ELSE wizard.there} :
         Begins(q, "script", {}, {}, s)
    /\ UNCHANGED <<token, mints, wizard, admins, codes, complete, command, opened, enabled, kept, verdict>>

\* The script succeeds; failing or timing out, it is SetupFails.
ScriptEnds(q) ==
    /\ ask[q].op = "script" /\ On(q, "mark") /\ enabled' = TRUE
    /\ UNCHANGED <<token, mints, wizard, admins, codes, complete, command, opened, kept, clash, verdict>>

\* mark_setup_complete and delete_setup_token.
MarkComplete(q) ==
    /\ ask[q].op = "mark" /\ On(q, "drop")
    /\ complete' = TRUE /\ token' = FALSE
    /\ UNCHANGED <<mints, wizard, admins, codes, command, opened, enabled, kept, clash, verdict>>

DropSession(q) ==
    /\ ask[q].op = "drop" /\ Ends(q)
    /\ IF Mine(ask[q]) THEN wizard' = NoWizard /\ kept' = {} ELSE UNCHANGED <<wizard, kept>>
    /\ UNCHANGED <<token, mints, admins, codes, complete, command, opened, enabled, clash, verdict>>

-----------------------------------------------------------------------------

SetupNext ==
    \/ MintToken \/ TokenExpires \/ SessionExpires
    \/ \E q \in SetupSlots :
         \/ Redeem(q) \/ CreateSession(q) \/ SetupFails(q)
         \/ ReadAdmin(q) \/ CommitAdmin(q)
         \/ \E s \in Steps : ReadState(q, s)
         \/ CommitState(q) \/ ReadCodes(q) \/ CommitCodes(q)
         \/ SendOpen(q) \/ Subscribe(q) \/ TestTimesOut(q)
         \/ RunScript(q) \/ ScriptEnds(q) \/ MarkComplete(q) \/ DropSession(q)
    \/ \E e \in {"gate_opened", "vehicle_detected"} : GateSays(e)

SetupSpec == SetupInit /\ [][SetupNext]_setupVars

-----------------------------------------------------------------------------
(* Properties *)

\* A token of the installer opens at most one wizard session, however many
\* browsers send it at once; set-up counts as complete only if the daemons were
\* enabled; while no two requests to do so overlap there is at most one first
\* admin; and a gate test passes only on an opening (routes/setup.py redeem_token,
\* finalize, create_admin, test_gate).
SetupSound ==
    /\ opened <= mints
    /\ complete => enabled
    /\ ~clash => admins <= 1
    /\ verdict # "wrong"

\* A step of the wizard that was saved is still there, whatever is saved after
\* it, as long as no two saves overlap (services/setup.py save_session_step).
StepsKept == ~clash => kept \subseteq wizard.saved

=============================================================================
