---------------------------- MODULE EntryProofs ----------------------------
(***************************************************************************)
(* Proofs about the entry lane: the daemon and the event consumer together *)
(* (Entry), for every gate, every table of members, any number of cards,   *)
(* commands and entries, and every fault of the two.                       *)
(***************************************************************************)
EXTENDS Entry, GateInProofs, FiniteSetTheorems

-----------------------------------------------------------------------------
(* Types *)

Row == [cards : SUBSET Cards, status : {"ACTIVE", "COMPLETED"}]

LaneTypes ==
    /\ TypeOK
    /\ tx \in Seq(Row)
    /\ service \in {"up", "deaf", "down"}
    /\ step \in {"listen", "lookup", "warn", "insert", "reply", "reject"}
    /\ job \in Seq(Events) /\ (step # "listen" => Len(job) = 1)
    /\ cmdTx \in Seq(Nat) /\ Len(cmdTx) = Len(stream)
    /\ opens \in Nat

\* The lane starts well typed.
LEMMA InitLane == EntryInit => LaneTypes
  <1> SUFFICES ASSUME EntryInit PROVE LaneTypes
    OBVIOUS
  <1>1. TypeOK
    BY TypeInit DEF EntryInit
  <1>2. stream = <<>> /\ cmdTx = <<>> /\ tx = <<>> /\ job = <<>>
    BY DEF EntryInit, Init
  <1> QED
    BY <1>1, <1>2 DEF EntryInit, LaneTypes

\* What a step of the consumer or of the exit lane does to the daemon's side:
\* nothing, except that it takes an event or adds commands.
LEMMA OtherFrame ==
    ASSUME [EntryNext]_entryVars
    PROVE  \/ Daemon
           \/ UNCHANGED <<daemonVars, read, pel, cur, history, opens>>
  <1>1. CASE TakeEvent \/ ListenError \/ ConsumerCrash
    BY <1>1 DEF TakeEvent, ListenError, ConsumerCrash, redisVars
  <1>2. CASE WarnExpiry \/ Reply \/ Reject
    BY <1>2 DEF WarnExpiry, Reply, Reject
  <1>3. CASE LookupCard \/ InsertRow \/ InsertRefused \/ HandlerError \/ ConsumerStart
    BY <1>3 DEF LookupCard, InsertRow, InsertRefused, HandlerError, ConsumerStart, vars, redisVars
  <1>4. CASE \E i \in DOMAIN tx : Exit(i) \/ \E c \in Cards : NoteCard(i, c)
    BY <1>4 DEF Exit, NoteCard, vars, redisVars
  <1>5. CASE UNCHANGED entryVars
    BY <1>5 DEF entryVars, consumerVars, vars, redisVars
  <1> QED
    BY <1>1, <1>2, <1>3, <1>4, <1>5 DEF EntryNext, ConsumerWork

\* A step of the daemon is a step of the daemon's own specification, and it adds
\* no command to the stream.
LEMMA DaemonStep ==
    ASSUME Daemon
    PROVE  [Next]_vars /\ UNCHANGED <<tx, service, step, job, cmdTx, stream>>
  <1>1. ASSUME NEW t \in Tasks, AnyTaskStep(t) PROVE UNCHANGED stream
    BY <1>1 DEF AnyTaskStep, AfterDetected, AfterDisplay, AfterPassed, AfterHelp,
       AfterTicket, AfterRfid, AfterArm, redisVars
  <1>2. ASSUME ConsumerStep PROVE UNCHANGED stream
    BY <1>2 DEF ConsumerStep, ReadCommand, Ack, AfterRelay, AfterPrinting, AfterOpened,
       AfterOpenFailed, AfterReject, redisVars
  <1>3. ASSUME NEW i \in Slots, TimerStep(i) \/ TimerRedisError(i) PROVE UNCHANGED stream
    BY <1>3 DEF TimerStep, ValidatingTimeout, VehiclePassTimer, TimerTail,
       TimerRedisError, redisVars
  <1>4. ASSUME PollSetup \/ Reconnect \/ CooldownOver \/ LinkEOF \/ ControllerHeartbeat
               \/ SerialCardRead \/ Restart
        PROVE  UNCHANGED stream
    BY <1>4 DEF PollSetup, Reconnect, CooldownOver, LinkEOF, ControllerHeartbeat,
       SerialCardRead, Restart, redisVars
  <1>5. ASSUME NEW s \in Signals, Signal(s) PROVE UNCHANGED stream
    BY <1>5 DEF Signal, redisVars
  <1>6. ASSUME NEW t \in Tasks, RedisError(t) PROVE UNCHANGED stream
    BY <1>6 DEF RedisError
  <1>7. DaemonNext
    BY DEF Daemon
  <1>8. UNCHANGED stream
    BY <1>1, <1>2, <1>3, <1>4, <1>5, <1>6, <1>7 DEF DaemonNext, Progress
  <1> QED
    BY <1>7, <1>8 DEF Daemon, Next

\* Two sequences in a row.
LEMMA Concatenated ==
    ASSUME NEW S, NEW a \in Seq(S), NEW b \in Seq(S)
    PROVE  a \o b \in Seq(S) /\ Len(a \o b) = Len(a) + Len(b)
  OBVIOUS

\* The consumer's commands: what publish_command does to the stream.
LEMMA CommandTypesKept ==
    ASSUME LaneTypes, NEW cs \in Seq(CommandTypes), NEW n \in Nat, Command(cs, n)
    PROVE  /\ stream' \in Seq(CommandTypes) /\ Len(stream') <= MaxCommands
           /\ cmdTx' \in Seq(Nat) /\ Len(cmdTx') = Len(stream')
           /\ Len(stream') = Len(stream) + Len(cs)
           /\ \A k \in 1..Len(stream) : stream'[k] = stream[k] /\ cmdTx'[k] = cmdTx[k]
           /\ \A k \in (Len(stream) + 1)..Len(stream') :
                stream'[k] = cs[k - Len(stream)] /\ cmdTx'[k] = n
  <1> DEFINE ns == [k \in 1..Len(cs) |-> n]
  <1>1. ns \in Seq(Nat) /\ Len(ns) = Len(cs)
    OBVIOUS
  <1>2. stream \in Seq(CommandTypes) /\ cmdTx \in Seq(Nat) /\ Len(cmdTx) = Len(stream)
    BY DEF LaneTypes, TypeOK
  <1>3. stream' = stream \o cs /\ cmdTx' = cmdTx \o ns /\ Len(stream) + Len(cs) <= MaxCommands
    BY DEF Command
  <1>4. \A k \in 1..Len(cs) : ns[k] = n
    OBVIOUS
  <1> HIDE DEF ns
  <1>5. stream' \in Seq(CommandTypes) /\ Len(stream') = Len(stream) + Len(cs)
    BY <1>2, <1>3
  <1>6. cmdTx' \in Seq(Nat) /\ Len(cmdTx') = Len(stream')
    <2>1. cmdTx \o ns \in Seq(Nat) /\ Len(cmdTx \o ns) = Len(cmdTx) + Len(ns)
      BY <1>1, <1>2, Concatenated
    <2> QED
      BY <1>1, <1>2, <1>3, <1>5, <2>1
  <1>7. ASSUME NEW k \in 1..Len(stream) PROVE stream'[k] = stream[k] /\ cmdTx'[k] = cmdTx[k]
    BY <1>1, <1>2, <1>3
  <1>8. ASSUME NEW k \in (Len(stream) + 1)..Len(stream')
        PROVE  stream'[k] = cs[k - Len(stream)] /\ cmdTx'[k] = n
    <2>1. k - Len(stream) \in 1..Len(cs)
      BY <1>2, <1>5
    <2>2. stream'[k] = cs[k - Len(stream)]
      BY <1>2, <1>3, <1>5
    <2>3. cmdTx'[k] = ns[k - Len(cmdTx)]
      BY <1>1, <1>2, <1>3, <1>5
    <2> QED
      BY <1>2, <1>4, <2>1, <2>2, <2>3
  <1> QED
    BY <1>3, <1>5, <1>6, <1>7, <1>8

\* What the consumer sends: commands the daemon knows, for a row or for none.
LEMMA Answers ==
    ASSUME LaneTypes, WarnExpiry \/ Reply \/ Reject
    PROVE  \E cs \in Seq(CommandTypes), n \in Nat : Command(cs, n)
  <1>1. Len(tx) \in Nat
    BY DEF LaneTypes
  <1>2. CASE WarnExpiry
    <2>1. <<"cosmetic", "cosmetic">> \in Seq(CommandTypes)
      BY EntryAssumption
    <2> QED
      BY <1>2, <2>1 DEF WarnExpiry
  <1>3. CASE Reply
    <2>1. /\ <<"open_gate">> \in Seq(CommandTypes)
          /\ <<"print_ticket_then_open">> \in Seq(CommandTypes)
      BY EntryAssumption
    <2> QED
      BY <1>1, <1>3, <2>1 DEF Reply
  <1>4. CASE Reject
    <2>1. <<"reject_card">> \in Seq(CommandTypes)
      BY EntryAssumption
    <2> QED
      BY <1>4, <2>1 DEF Reject
  <1> QED
    BY <1>2, <1>3, <1>4

\* The exit lane changes one row.
LEMMA RowChange ==
    ASSUME tx \in Seq(Row), NEW i \in DOMAIN tx, Exit(i) \/ \E c \in Cards : NoteCard(i, c)
    PROVE  tx' \in Seq(Row) /\ Len(tx') = Len(tx)
  <1>1. tx[i] \in Row /\ i \in 1..Len(tx)
    OBVIOUS
  <1>2. PICK r \in Row : tx' = [tx EXCEPT ![i] = r]
    <2>1. CASE Exit(i)
      <3>1. [tx[i] EXCEPT !.status = "COMPLETED"] \in Row
        BY <1>1 DEF Row
      <3> QED
        BY <2>1, <3>1 DEF Exit
    <2>2. ASSUME NEW c \in Cards, NoteCard(i, c)
          PROVE  \E r \in Row : tx' = [tx EXCEPT ![i] = r]
      <3>1. [tx[i] EXCEPT !.cards = {c}] \in Row
        BY <1>1 DEF Row
      <3> QED
        BY <2>2, <3>1 DEF NoteCard
    <2> QED
      BY <2>1, <2>2
  <1> QED
    BY <1>1, <1>2

\* Every step keeps the types.
LEMMA LaneStep == LaneTypes /\ [EntryNext]_entryVars => LaneTypes'
  <1> SUFFICES ASSUME LaneTypes, [EntryNext]_entryVars PROVE LaneTypes'
    OBVIOUS
  <1>1. CASE Daemon
    <2>1. TypeOK'
      BY <1>1, DaemonStep, TypeStep DEF LaneTypes
    <2>2. opens' \in Nat
      BY <1>1 DEF Daemon, LaneTypes
    <2> QED
      BY <1>1, <2>1, <2>2, DaemonStep DEF LaneTypes
  <1>2. CASE TakeEvent
    <2>1. chan \in Seq(Events) /\ chan # <<>>
      BY <1>2 DEF TakeEvent, LaneTypes, TypeOK
    <2>2. Tail(chan) \in Seq(Events) /\ Head(chan) \in Events
      BY <2>1
    <2>3. <<Head(chan)>> \in Seq(Events) /\ Len(<<Head(chan)>>) = 1
      BY <2>2
    <2>4. TypeOK'
      BY <1>2, <2>2 DEF TakeEvent, LaneTypes, TypeOK, daemonVars, redisVars, history
    <2> QED
      BY <1>2, <2>3, <2>4 DEF TakeEvent, LaneTypes, redisVars
  <1>3. CASE ListenError \/ ConsumerCrash
    <2>0. <<>> \in Seq(Events)
      OBVIOUS
    <2>1. TypeOK'
      BY <1>3, <2>0 DEF ListenError, ConsumerCrash, LaneTypes, TypeOK, daemonVars, redisVars, history
    <2> QED
      BY <1>3, <2>0, <2>1 DEF ListenError, ConsumerCrash, EndJob, LaneTypes, redisVars
  <1>4. ASSUME UNCHANGED vars PROVE TypeOK' /\ stream' = stream
    BY <1>4 DEF LaneTypes, TypeOK, vars, daemonVars, redisVars, history
  <1>5. CASE LookupCard \/ InsertRefused \/ HandlerError \/ ConsumerStart \/ UNCHANGED entryVars
    <2>0. <<>> \in Seq(Events)
      OBVIOUS
    <2>1. UNCHANGED <<vars, tx, cmdTx, opens>>
      BY <1>5 DEF LookupCard, InsertRefused, HandlerError, ConsumerStart, entryVars, consumerVars
    <2> QED
      BY <1>4, <1>5, <2>0, <2>1 DEF LookupCard, InsertRefused, HandlerError, ConsumerStart, entryVars,
         consumerVars, EndJob, LaneTypes
  <1>6. CASE InsertRow
    <2>0. job \in Seq(Events) /\ Len(job) = 1
      BY <1>6 DEF InsertRow, LaneTypes
    <2>1. job[1] \in Events
      BY <2>0
    <2>2. JobCards \subseteq Cards
      BY <2>1 DEF JobCards, Events
    <2>3. [cards |-> JobCards, status |-> "ACTIVE"] \in Row
      BY <2>2 DEF Row
    <2>4. tx' \in Seq(Row)
      BY <1>6, <2>3 DEF InsertRow, LaneTypes
    <2> QED
      BY <1>4, <1>6, <2>4 DEF InsertRow, LaneTypes
  <1>7. ASSUME NEW i \in DOMAIN tx, Exit(i) \/ \E c \in Cards : NoteCard(i, c)
        PROVE  LaneTypes'
    <2>1. tx' \in Seq(Row)
      BY <1>7, RowChange DEF LaneTypes
    <2>2. UNCHANGED <<vars, service, step, job, cmdTx, opens>>
      BY <1>7 DEF Exit, NoteCard
    <2> QED
      BY <1>4, <2>1, <2>2 DEF LaneTypes
  <1>8. CASE WarnExpiry \/ Reply \/ Reject
    <2>1. PICK cs \in Seq(CommandTypes), n \in Nat : Command(cs, n)
      BY <1>8, Answers
    <2>2. /\ stream' \in Seq(CommandTypes) /\ Len(stream') <= MaxCommands
          /\ cmdTx' \in Seq(Nat) /\ Len(cmdTx') = Len(stream')
          /\ Len(stream') = Len(stream) + Len(cs)
      BY <2>1, CommandTypesKept
    <2>3. read' \in 0..Len(stream')
      BY <1>8, <2>2 DEF WarnExpiry, Reply, Reject, LaneTypes, TypeOK
    <2>4. TypeOK'
      BY <1>8, <2>2, <2>3 DEF WarnExpiry, Reply, Reject, LaneTypes, TypeOK, daemonVars, history
    <2>5. <<>> \in Seq(Events)
      OBVIOUS
    <2> QED
      BY <1>8, <2>2, <2>4, <2>5 DEF WarnExpiry, Reply, Reject, EndJob, LaneTypes
  <1> QED
    BY <1>1, <1>2, <1>3, <1>5, <1>6, <1>7, <1>8 DEF EntryNext, ConsumerWork

-----------------------------------------------------------------------------
(* The exits of the daemon's states, with the consumer beside it *)

\* In the lane too a rejection can only cancel a validation timeout (gate_in.py
\* handle_command, reject_card).
THEOREM LaneRejectSafe == EntrySpec => []RejectCancelsValidation
  <1>1. EntryInit => RejectCancelsValidation
    BY DEF EntryInit, Init, RejectCancelsValidation
  <1>2. LaneTypes /\ RejectCancelsValidation /\ [EntryNext]_entryVars => RejectCancelsValidation'
    <2> SUFFICES ASSUME LaneTypes, RejectCancelsValidation, [EntryNext]_entryVars
                 PROVE  RejectCancelsValidation'
      OBVIOUS
    <2>1. CASE Daemon
      BY <2>1, DaemonStep, RejectStep DEF LaneTypes
    <2>2. CASE UNCHANGED daemonVars
      BY <2>2 DEF daemonVars, RejectCancelsValidation
    <2> QED
      BY <2>1, <2>2, OtherFrame
  <1> QED
    BY <1>1, <1>2, InitLane, LaneStep, PTL DEF EntrySpec

\* Whatever the event consumer does, does not do, loses or dies of, a VALIDATING or
\* OPENING gate keeps its own way out, while the daemon's Redis calls do not fail
\* (gate_in.py _validating_timeout, _vehicle_pass_timer).
THEOREM LaneExitsArmed ==
    ASSUME "redis" \notin Faults
    PROVE  EntrySpec => []HasExit
  <1>1. EntryInit => HasExit
    BY DEF EntryInit, Init, HasExit, ValidatingHasExit, OpeningHasExit
  <1>2. LaneTypes /\ RejectCancelsValidation /\ HasExit /\ [EntryNext]_entryVars => HasExit'
    <2> SUFFICES ASSUME LaneTypes, RejectCancelsValidation, HasExit, [EntryNext]_entryVars
                 PROVE  HasExit'
      OBVIOUS
    <2>1. CASE Daemon
      BY <2>1, DaemonStep, ExitStep DEF LaneTypes
    <2>2. CASE UNCHANGED daemonVars
      BY <2>2 DEF daemonVars, HasExit, ValidatingHasExit, OpeningHasExit
    <2> QED
      BY <2>1, <2>2, OtherFrame
  <1> QED
    BY <1>1, <1>2, InitLane, LaneStep, LaneRejectSafe, PTL DEF EntrySpec

-----------------------------------------------------------------------------
(* Openings and rows *)

Opening == {"open_gate", "print_ticket_then_open"}

\* The opening commands among the first n of the stream.
Openers(n) == {k \in 1..n : stream[k] \in Opening}

\* An opening command is at its relay and has not opened the barrier yet.
AtRelay == pc["consume"] \in {"relay", "printing"}

\* The barrier opened at most once for each opening command that was read, and not
\* yet for the one at its relay.
OpensCounted == opens + (IF AtRelay THEN 1 ELSE 0) <= Cardinality(Openers(read))

\* No opening command was sent without a row of its own, and the row about to be
\* answered has none yet.
CommandsCounted ==
    Cardinality(Openers(Len(stream))) + (IF step = "reply" THEN 1 ELSE 0) <= Len(tx)

\* The rows the commands were sent for.
RowsNamed ==
    /\ \A k \in 1..Len(stream) : cmdTx[k] <= Len(tx) /\ (step = "reply" => cmdTx[k] < Len(tx))
    /\ \A k \in 1..Len(stream) : stream[k] \in Opening => cmdTx[k] > 0

LaneInv == LaneTypes /\ OpensCounted /\ CommandsCounted /\ RowsNamed /\ OneAdmissionPerRow

\* There are finitely many commands in the stream.
LEMMA OpenersFinite ==
    ASSUME NEW n \in Nat
    PROVE  IsFiniteSet(Openers(n)) /\ Cardinality(Openers(n)) \in Nat
  <1>1. IsFiniteSet(1..n)
    BY FS_Interval
  <1> QED
    BY <1>1, FS_Subset, FS_CardinalityType DEF Openers

\* One more command is one more opening command, or none.
LEMMA OpenersNext ==
    ASSUME NEW n \in Nat
    PROVE  Cardinality(Openers(n + 1)) =
               Cardinality(Openers(n)) + (IF stream[n + 1] \in Opening THEN 1 ELSE 0)
  <1>1. IsFiniteSet(Openers(n)) /\ Cardinality(Openers(n)) \in Nat
    BY OpenersFinite
  <1>2. n + 1 \notin Openers(n)
    BY DEF Openers
  <1>3. CASE stream[n + 1] \in Opening
    <2>1. Openers(n + 1) = Openers(n) \cup {n + 1}
      BY <1>3 DEF Openers
    <2> QED
      BY <1>1, <1>2, <1>3, <2>1, FS_AddElement
  <1>4. CASE stream[n + 1] \notin Opening
    <2>1. Openers(n + 1) = Openers(n)
      BY <1>4 DEF Openers
    <2> QED
      BY <1>1, <1>4, <2>1
  <1> QED
    BY <1>3, <1>4

\* What a step of the daemon does to the relay: only an opening command that has
\* just been read, or one that was at its relay, opens the barrier.
LEMMA RelayFrame ==
    ASSUME TypeOK, DaemonNext
    PROVE  \/ ReadCommand
           \/ AtRelay /\ UNCHANGED read /\ pc'["consume"] \in {"opened", "relay", "open_failed"}
           \/ /\ UNCHANGED read /\ (AtRelay' => AtRelay)
              /\ pc'["consume"] = "opened" => pc["consume"] = "opened"
  <1> DEFINE Kept == /\ UNCHANGED read /\ (AtRelay' => AtRelay)
                     /\ pc'["consume"] = "opened" => pc["consume"] = "opened"
  <1> USE DEF AtRelay, Goto, Done, redisVars
  <1>0. pc \in [Tasks -> Labels] /\ "consume" \in Tasks
    BY DEF TypeOK, Tasks
  <1>1. ASSUME NEW t \in Tasks, AnyTaskStep(t) PROVE Kept
    BY <1>0, <1>1 DEF AnyTaskStep, AfterDetected, AfterDisplay, AfterPassed, AfterHelp,
       AfterTicket, AfterRfid, AfterArm
  <1>2. ASSUME AfterOpened \/ AfterOpenFailed \/ AfterReject \/ Ack PROVE Kept
    BY <1>0, <1>2 DEF AfterOpened, AfterOpenFailed, AfterReject, Ack
  <1>3. ASSUME AfterRelay \/ AfterPrinting
        PROVE  AtRelay /\ UNCHANGED read /\ pc'["consume"] \in {"opened", "relay", "open_failed"}
    BY <1>0, <1>3 DEF AfterRelay, AfterPrinting, TryRelay
  <1>4. ASSUME NEW i \in Slots, TimerStep(i) \/ TimerRedisError(i) PROVE Kept
    BY <1>4 DEF TimerStep, ValidatingTimeout, VehiclePassTimer, TimerTail, TimerRedisError
  <1>5. ASSUME PollSetup \/ Reconnect \/ CooldownOver \/ LinkEOF \/ ControllerHeartbeat
               \/ SerialCardRead \/ Restart
        PROVE  Kept
    BY <1>0, <1>5 DEF PollSetup, Reconnect, CooldownOver, LinkEOF, ControllerHeartbeat,
       SerialCardRead, OnRfidCardRead, Restart
  <1>6. ASSUME NEW s \in Signals, Signal(s) PROVE Kept
    BY <1>0, <1>6 DEF Signal, Dispatch, Handler, OnVehicleDetected, BackToIdle, OnVehiclePassed,
       OnTicketButtonPressed, OnHelpButton, OnRfidCardRead, Ignored
  <1>7. ASSUME NEW t \in Tasks, RedisError(t) PROVE Kept
    BY <1>0, <1>7 DEF RedisError
  <1> QED
    BY <1>1, <1>2, <1>3, <1>4, <1>5, <1>6, <1>7 DEF DaemonNext, Progress, ConsumerStep

\* A command that is read gets to the relay only if it is an opening one.
LEMMA ReadAtRelay ==
    ASSUME TypeOK, ReadCommand
    PROVE  /\ ~AtRelay /\ pc["consume"] # "opened"
           /\ AtRelay' \/ pc'["consume"] = "opened" => stream[read + 1] \in Opening
  <1>0. pc \in [Tasks -> Labels] /\ "consume" \in Tasks /\ pc["consume"] = "ready"
    BY DEF TypeOK, Tasks, ReadCommand
  <1>1. HandleCommand(stream[read + 1])
    BY DEF ReadCommand
  <1>2. ASSUME NEW s, Dispatch("consume", s)
        PROVE  pc'["consume"] \notin {"relay", "printing", "opened"}
    BY <1>0, <1>2 DEF Dispatch, Handler, OnVehicleDetected, BackToIdle, OnVehiclePassed,
       OnTicketButtonPressed, OnHelpButton, OnRfidCardRead, Ignored, Goto, Done
  <1>3. stream[read + 1] \in Opening \/ pc'["consume"] \notin {"relay", "printing", "opened"}
    BY <1>0, <1>1, <1>2 DEF HandleCommand, CmdRejectCard, CmdSend, Opening, Goto, Done
  <1> QED
    BY <1>0, <1>3 DEF AtRelay

\* The daemon opens no more often than it has read opening commands.
LEMMA OpensStep ==
    ASSUME LaneTypes, OpensCounted, Daemon
    PROVE  OpensCounted'
  <1>0. TypeOK /\ DaemonNext /\ stream' = stream /\ read \in Nat /\ opens \in Nat
    BY DaemonStep DEF LaneTypes, TypeOK, Daemon
  <1>1. opens' = IF pc'["consume"] = "opened" /\ pc["consume"] # "opened"
                 THEN opens + 1 ELSE opens
    BY DEF Daemon
  <1>2. Cardinality(Openers(read)) \in Nat
    BY <1>0, OpenersFinite
  <1>3. CASE ReadCommand
    <2>1. read' = read + 1
      BY <1>3 DEF ReadCommand
    <2>2. Cardinality(Openers(read)') =
             Cardinality(Openers(read)) + (IF stream[read + 1] \in Opening THEN 1 ELSE 0)
      BY <1>0, <2>1, OpenersNext DEF Openers
    <2>3. /\ ~AtRelay /\ pc["consume"] # "opened"
          /\ AtRelay' \/ pc'["consume"] = "opened" => stream[read + 1] \in Opening
      BY <1>0, <1>3, ReadAtRelay
    <2>4. ~(AtRelay' /\ pc'["consume"] = "opened")
      BY DEF AtRelay
    <2> QED
      BY <1>0, <1>1, <1>2, <2>2, <2>3, <2>4 DEF OpensCounted
  <1>4. CASE UNCHANGED read
    <2>1. Openers(read)' = Openers(read)
      BY <1>0, <1>4 DEF Openers
    <2>2. CASE AtRelay /\ pc'["consume"] \in {"opened", "relay", "open_failed"}
      <3>1. ~(AtRelay' /\ pc'["consume"] = "opened")
        BY DEF AtRelay
      <3> QED
        BY <1>0, <1>1, <1>2, <2>1, <2>2, <3>1 DEF OpensCounted
    <2>3. CASE (AtRelay' => AtRelay) /\ (pc'["consume"] = "opened" => pc["consume"] = "opened")
      BY <1>0, <1>1, <1>2, <2>1, <2>3 DEF OpensCounted
    <2>4. CASE ReadCommand
      BY <1>3, <2>4
    <2> QED
      BY <1>0, <2>2, <2>3, <2>4, RelayFrame
  <1> QED
    BY <1>0, <1>3, <1>4, RelayFrame

\* The invariant holds when the lane starts.
LEMMA InitCounts == EntryInit => LaneInv
  <1> SUFFICES ASSUME EntryInit PROVE LaneInv
    OBVIOUS
  <1>1. /\ stream = <<>> /\ read = 0 /\ opens = 0 /\ tx = <<>> /\ step = "listen"
        /\ pc["consume"] = "ready"
    BY DEF EntryInit, Init, Tasks
  <1>2. Openers(0) = {} /\ Len(stream) = 0 /\ Len(tx) = 0
    BY <1>1 DEF Openers
  <1>3. Cardinality(Openers(0)) = 0
    BY <1>2, FS_EmptySet
  <1>4. OpensCounted /\ CommandsCounted
    BY <1>1, <1>2, <1>3 DEF OpensCounted, CommandsCounted, AtRelay
  <1> QED
    BY <1>1, <1>2, <1>4, InitLane DEF LaneInv, RowsNamed, OneAdmissionPerRow

\* publish_command for a row that has no command yet.
LEMMA CountsAnswer ==
    ASSUME LaneInv, Reply
    PROVE  CommandsCounted' /\ RowsNamed' /\ OneAdmissionPerRow'
  <1> DEFINE c == IF job[1].type = "ticket_button_pressed"
                  THEN "print_ticket_then_open" ELSE "open_gate"
  <1>1. step = "reply" /\ Command(<<c>>, Len(tx)) /\ step' = "listen" /\ tx' = tx
    BY DEF Reply, EndJob
  <1>2. c \in CommandTypes /\ c \in Opening
    BY EntryAssumption DEF Opening
  <1> HIDE DEF c
  <1>3. <<c>> \in Seq(CommandTypes) /\ Len(<<c>>) = 1 /\ <<c>>[1] = c
    BY <1>2
  <1>4. /\ Len(tx) \in Nat /\ Len(stream) \in Nat /\ LaneTypes
        /\ \A k \in 1..Len(stream) : cmdTx[k] \in Nat
    BY DEF LaneInv, LaneTypes, TypeOK
  <1>5. /\ Len(stream') = Len(stream) + 1 /\ Len(cmdTx') = Len(stream')
        /\ \A k \in 1..Len(stream) : stream'[k] = stream[k] /\ cmdTx'[k] = cmdTx[k]
        /\ \A k \in (Len(stream) + 1)..Len(stream') :
             stream'[k] = <<c>>[k - Len(stream)] /\ cmdTx'[k] = Len(tx)
        /\ stream' \in Seq(CommandTypes)
    BY <1>1, <1>3, <1>4, CommandTypesKept
  <1>6. stream'[Len(stream) + 1] = c /\ cmdTx'[Len(stream) + 1] = Len(tx)
    BY <1>3, <1>4, <1>5
  <1>7. CommandsCounted'
    <2>1. Openers(Len(stream))' = Openers(Len(stream)) \cup {Len(stream) + 1}
      BY <1>2, <1>4, <1>5, <1>6 DEF Openers
    <2>2. Len(stream) + 1 \notin Openers(Len(stream))
      BY <1>4 DEF Openers
    <2>3. /\ IsFiniteSet(Openers(Len(stream))) /\ Cardinality(Openers(Len(stream))) \in Nat
      BY <1>4, OpenersFinite
    <2>4. Cardinality(Openers(Len(stream))') = Cardinality(Openers(Len(stream))) + 1
      BY <2>1, <2>2, <2>3, FS_AddElement
    <2> QED
      BY <1>1, <1>4, <2>3, <2>4 DEF LaneInv, CommandsCounted
  <1>a. Len(tx) >= 1
    BY <1>1, <1>4, OpenersFinite DEF LaneInv, CommandsCounted
  <1>b. ASSUME NEW k \in 1..Len(stream')
        PROVE  cmdTx'[k] <= Len(tx) /\ (stream'[k] \in Opening => cmdTx'[k] > 0)
    <2>1. CASE k \in 1..Len(stream)
      BY <1>1, <1>4, <1>5, <2>1 DEF LaneInv, RowsNamed
    <2>2. CASE k = Len(stream) + 1
      BY <1>4, <1>6, <1>a, <2>2
    <2> QED
      BY <1>4, <1>5, <2>1, <2>2
  <1>8. RowsNamed'
    BY <1>1, <1>b DEF RowsNamed
  <1>9. OneAdmissionPerRow'
    <2> SUFFICES ASSUME NEW j \in 1..Len(stream'), NEW k \in 1..Len(stream'),
                        stream'[j] \in Opening
                 PROVE  /\ cmdTx'[j] \in 1..Len(tx)
                        /\ j # k => cmdTx'[j] # cmdTx'[k]
      BY <1>1, <1>5 DEF OneAdmissionPerRow, Opening, LaneInv, LaneTypes
    <2>1. cmdTx'[j] \in 1..Len(tx)
      <3>1. cmdTx'[j] \in Nat
        BY <1>4, <1>5, <1>6
      <3> QED
        BY <1>4, <1>b, <3>1
    <2>2. ASSUME j # k PROVE cmdTx'[j] # cmdTx'[k]
      <3>1. CASE j <= Len(stream) /\ k <= Len(stream)
        <4>1. j \in DOMAIN stream /\ k \in DOMAIN stream /\ stream[j] \in Opening
          BY <1>4, <1>5, <3>1 DEF LaneTypes, TypeOK
        <4> QED
          BY <1>5, <2>2, <4>1, <3>1, <1>4 DEF LaneInv, OneAdmissionPerRow, Opening
      <3>2. CASE j = Len(stream) + 1 \/ k = Len(stream) + 1
        BY <1>1, <1>4, <1>5, <1>6, <2>2, <3>2 DEF LaneInv, RowsNamed
      <3> QED
        BY <1>4, <1>5, <3>1, <3>2
    <2> QED
      BY <2>1, <2>2
  <1> QED
    BY <1>7, <1>8, <1>9

\* Commands that open nothing, sent for no row.
LEMMA CountsNotice ==
    ASSUME LaneInv, WarnExpiry \/ Reject
    PROVE  CommandsCounted' /\ RowsNamed' /\ OneAdmissionPerRow'
  <1>1. PICK cs \in Seq(CommandTypes \ Opening) : Command(cs, 0) /\ cs \in Seq(CommandTypes)
    <2>1. /\ <<"cosmetic", "cosmetic">> \in Seq(CommandTypes \ Opening)
          /\ <<"cosmetic", "cosmetic">> \in Seq(CommandTypes)
          /\ <<"reject_card">> \in Seq(CommandTypes \ Opening)
          /\ <<"reject_card">> \in Seq(CommandTypes)
      BY EntryAssumption DEF Opening
    <2> QED
      BY <2>1 DEF WarnExpiry, Reject
  <1>2. step' # "reply" /\ step # "reply" /\ tx' = tx
    BY DEF WarnExpiry, Reject, EndJob
  <1>4. /\ Len(tx) \in Nat /\ Len(stream) \in Nat /\ LaneTypes
        /\ \A k \in 1..Len(stream) : cmdTx[k] \in Nat
    BY DEF LaneInv, LaneTypes, TypeOK
  <1>5. /\ Len(stream') = Len(stream) + Len(cs) /\ Len(cmdTx') = Len(stream')
        /\ \A k \in 1..Len(stream) : stream'[k] = stream[k] /\ cmdTx'[k] = cmdTx[k]
        /\ \A k \in (Len(stream) + 1)..Len(stream') :
             stream'[k] = cs[k - Len(stream)] /\ cmdTx'[k] = 0
        /\ stream' \in Seq(CommandTypes)
    BY <1>1, <1>4, CommandTypesKept
  <1>6. \A k \in (Len(stream) + 1)..Len(stream') : stream'[k] \notin Opening
    <2>1. \A m \in 1..Len(cs) : cs[m] \notin Opening
      BY <1>1
    <2> QED
      BY <1>1, <1>4, <1>5, <2>1
  <1>7. CommandsCounted'
    <2>1. Openers(Len(stream))' = Openers(Len(stream))
      BY <1>1, <1>4, <1>5, <1>6 DEF Openers
    <2> QED
      BY <1>2, <2>1 DEF LaneInv, CommandsCounted
  <1>8. RowsNamed'
    <2> SUFFICES ASSUME NEW k \in 1..Len(stream')
                 PROVE  cmdTx'[k] <= Len(tx) /\ (stream'[k] \in Opening => cmdTx'[k] > 0)
      BY <1>2 DEF RowsNamed
    <2>1. CASE k \in 1..Len(stream)
      BY <1>4, <1>5, <2>1 DEF LaneInv, RowsNamed
    <2>2. CASE k \in (Len(stream) + 1)..Len(stream')
      BY <1>4, <1>5, <1>6, <2>2
    <2> QED
      BY <1>4, <1>5, <2>1, <2>2
  <1>9. OneAdmissionPerRow'
    <2> SUFFICES ASSUME NEW j \in 1..Len(stream'), NEW k \in 1..Len(stream'),
                        stream'[j] \in Opening
                 PROVE  /\ cmdTx'[j] \in 1..Len(tx)
                        /\ j # k => cmdTx'[j] # cmdTx'[k]
      BY <1>2, <1>5 DEF OneAdmissionPerRow, Opening, LaneInv, LaneTypes
    <2>1. j \in 1..Len(stream)
      BY <1>4, <1>5, <1>6
    <2>2. cmdTx'[j] \in 1..Len(tx) /\ cmdTx'[j] # 0
      BY <1>4, <1>5, <2>1 DEF LaneInv, RowsNamed
    <2>3. ASSUME j # k PROVE cmdTx'[j] # cmdTx'[k]
      <3>1. CASE k <= Len(stream)
        <4>1. j \in DOMAIN stream /\ k \in DOMAIN stream /\ stream[j] \in Opening
          BY <1>4, <1>5, <2>1, <3>1 DEF LaneTypes, TypeOK
        <4> QED
          BY <1>5, <2>3, <4>1, <3>1, <1>4 DEF LaneInv, OneAdmissionPerRow, Opening
      <3>2. CASE k > Len(stream)
        BY <1>4, <1>5, <2>2, <3>2
      <3> QED
        BY <1>4, <3>1, <3>2
    <2> QED
      BY <2>2, <2>3
  <1> QED
    BY <1>7, <1>8, <1>9

\* Every step preserves the invariant.
LEMMA CountsStep == LaneInv /\ [EntryNext]_entryVars => LaneInv'
  <1> SUFFICES ASSUME LaneInv, [EntryNext]_entryVars PROVE LaneInv'
    OBVIOUS
  <1>0. LaneTypes /\ LaneTypes'
    BY LaneStep DEF LaneInv
  <1>1. OpensCounted'
    <2>1. CASE Daemon
      BY <2>1, OpensStep DEF LaneInv
    <2>2. CASE UNCHANGED <<daemonVars, read, pel, cur, history, opens>>
      <3>1. /\ read' = read /\ opens' = opens /\ pc' = pc
            /\ \A k \in 1..read : stream'[k] = stream[k]
        <4>1. \/ stream' = stream
              \/ WarnExpiry \/ Reply \/ Reject
          BY DaemonStep DEF EntryNext, ConsumerWork, TakeEvent, ListenError, ConsumerCrash, LookupCard,
             InsertRow, InsertRefused, HandlerError, ConsumerStart, Exit, NoteCard, entryVars, vars, redisVars
        <4>2. CASE WarnExpiry \/ Reply \/ Reject
          <5>1. PICK cs \in Seq(CommandTypes), n \in Nat : Command(cs, n)
            BY <1>0, <4>2, Answers
          <5>2. \A k \in 1..Len(stream) : stream'[k] = stream[k]
            BY <1>0, <5>1, CommandTypesKept
          <5>3. read \in 0..Len(stream) /\ Len(stream) \in Nat
            BY <1>0 DEF LaneTypes, TypeOK
          <5> QED
            BY <2>2, <5>2, <5>3 DEF daemonVars
        <4> QED
          BY <2>2, <4>1, <4>2 DEF daemonVars
      <3>2. Openers(read)' = Openers(read) /\ (AtRelay' <=> AtRelay)
        BY <3>1 DEF Openers, AtRelay
      <3> QED
        BY <3>1, <3>2 DEF LaneInv, OpensCounted
    <2> QED
      BY <2>1, <2>2, OtherFrame
  <1>2. CommandsCounted' /\ RowsNamed' /\ OneAdmissionPerRow'
    <2>1. CASE Reply
      BY <2>1, CountsAnswer
    <2>2. CASE WarnExpiry \/ Reject
      BY <2>2, CountsNotice
    <2>3. CASE InsertRow
      <3>1. /\ stream' = stream /\ cmdTx' = cmdTx /\ step = "insert" /\ step' = "reply"
            /\ Len(tx') = Len(tx) + 1 /\ Len(tx) \in Nat
        BY <1>0, <2>3 DEF InsertRow, vars, redisVars, LaneTypes
      <3>2. /\ \A k \in 1..Len(stream) : cmdTx[k] \in Nat
            /\ Cardinality(Openers(Len(stream))) \in Nat /\ Len(stream) \in Nat
        <4>1. Len(stream) \in Nat /\ Len(cmdTx) = Len(stream) /\ cmdTx \in Seq(Nat)
          BY <1>0 DEF LaneTypes, TypeOK
        <4>2. \A k \in 1..Len(cmdTx) : cmdTx[k] \in Nat
          BY <4>1
        <4>3. Cardinality(Openers(Len(stream))) \in Nat
          BY <4>1, OpenersFinite
        <4> QED
          BY <4>1, <4>2, <4>3
      <3>3. DOMAIN tx = 1..Len(tx) /\ DOMAIN tx' = 1..Len(tx')
        BY <1>0 DEF LaneTypes
      <3>4. Openers(Len(stream))' = Openers(Len(stream))
        BY <3>1 DEF Openers
      <3>5. CommandsCounted'
        BY <3>1, <3>2, <3>4 DEF LaneInv, CommandsCounted
      <3>6. RowsNamed'
        BY <3>1, <3>2 DEF LaneInv, RowsNamed
      <3>7. OneAdmissionPerRow'
        BY <3>1, <3>3 DEF LaneInv, OneAdmissionPerRow
      <3> QED
        BY <3>5, <3>6, <3>7
    <2>4. CASE /\ UNCHANGED <<stream, cmdTx>> /\ step' # "reply"
               /\ tx' \in Seq(Row) /\ Len(tx') = Len(tx)
      <3>1. DOMAIN tx = 1..Len(tx) /\ DOMAIN tx' = 1..Len(tx)
        BY <1>0, <2>4 DEF LaneTypes
      <3>2. /\ Cardinality(Openers(Len(stream))) \in Nat /\ Len(tx) \in Nat
        BY <1>0, OpenersFinite DEF LaneTypes, TypeOK
      <3>3. Openers(Len(stream))' = Openers(Len(stream))
        BY <2>4 DEF Openers
      <3>4. CommandsCounted'
        BY <2>4, <3>2, <3>3 DEF LaneInv, CommandsCounted
      <3> QED
        BY <2>4, <3>1, <3>4 DEF LaneInv, RowsNamed, OneAdmissionPerRow
    <2>5. CASE /\ UNCHANGED <<stream, cmdTx, step>>
               /\ tx' \in Seq(Row) /\ Len(tx') = Len(tx)
      <3>1. DOMAIN tx = 1..Len(tx) /\ DOMAIN tx' = 1..Len(tx)
        BY <1>0, <2>5 DEF LaneTypes
      <3>2. Openers(Len(stream))' = Openers(Len(stream))
        BY <2>5 DEF Openers
      <3> QED
        BY <2>5, <3>1, <3>2 DEF LaneInv, CommandsCounted, RowsNamed, OneAdmissionPerRow
    <2>6. \/ Reply \/ WarnExpiry \/ Reject \/ InsertRow
          \/ UNCHANGED <<stream, cmdTx, tx>> /\ step' # "reply"
          \/ UNCHANGED <<stream, cmdTx, step>> /\ tx' \in Seq(Row) /\ Len(tx') = Len(tx)
      <3>1. CASE Daemon \/ UNCHANGED entryVars
        BY <1>0, <3>1, DaemonStep DEF entryVars, consumerVars, vars, redisVars, LaneTypes
      <3>2. CASE \E i \in DOMAIN tx : Exit(i) \/ \E c \in Cards : NoteCard(i, c)
        BY <1>0, <3>2, RowChange DEF Exit, NoteCard, vars, redisVars, LaneTypes
      <3>3. CASE ListenError \/ ConsumerStart
        BY <1>0, <3>3 DEF ListenError, ConsumerStart, vars, redisVars, LaneTypes
      <3>4. CASE TakeEvent \/ LookupCard \/ InsertRefused \/ HandlerError \/ ConsumerCrash
        BY <3>4 DEF TakeEvent, LookupCard, InsertRefused, HandlerError, ConsumerCrash, EndJob, vars, redisVars
      <3> QED
        BY <3>1, <3>2, <3>3, <3>4 DEF EntryNext, ConsumerWork
    <2> QED
      BY <1>0, <2>1, <2>2, <2>3, <2>4, <2>5, <2>6 DEF LaneTypes
  <1> QED
    BY <1>0, <1>1, <1>2 DEF LaneInv

\* The barrier never opens without a committed row of its own, for any number of
\* entries, lost events, failed commits and crashes of either process: the consumer
\* commits before it commands, and the daemon is handed a command once
\* (event_consumer.py _handle_ticket_button_pressed, base.py).
THEOREM OpeningsRecorded == EntrySpec => []OpensOnRecord
  <1>1. LaneInv => OpensOnRecord
    <2> SUFFICES ASSUME LaneInv PROVE OpensOnRecord
      OBVIOUS
    <2>1. /\ read \in 0..Len(stream) /\ Len(stream) \in Nat /\ read \in Nat
          /\ opens \in Nat /\ Len(tx) \in Nat
      BY DEF LaneInv, LaneTypes, TypeOK
    <2>2. /\ Openers(read) \subseteq Openers(Len(stream))
      BY <2>1 DEF Openers
    <2>3. /\ IsFiniteSet(Openers(Len(stream))) /\ Cardinality(Openers(Len(stream))) \in Nat
          /\ Cardinality(Openers(read)) \in Nat
      BY <2>1, OpenersFinite
    <2>4. Cardinality(Openers(read)) <= Cardinality(Openers(Len(stream)))
      BY <2>2, <2>3, FS_Subset
    <2> QED
      BY <2>1, <2>3, <2>4 DEF LaneInv, OpensCounted, CommandsCounted, OpensOnRecord
  <1> QED
    BY <1>1, InitCounts, CountsStep, PTL DEF EntrySpec

\* No two opening commands were ever sent for the same row, and none without one
\* (event_consumer.py _handle_ticket_button_pressed, _handle_rfid_card_read).
THEOREM AdmittedOnce == EntrySpec => []OneAdmissionPerRow
  <1>1. LaneInv => OneAdmissionPerRow
    BY DEF LaneInv
  <1> QED
    BY <1>1, InitCounts, CountsStep, PTL DEF EntrySpec

\* The command in hand and the deliveries, as in the daemon alone.
RaiseInv == LaneInv /\ Commanded /\ RunsMatchDelivery

\* The barrier goes up only for a committed row that no other command names, by a
\* command that is run once.
RaisesForRow ==
    GoesUp => /\ state' = "OPENING" /\ relay' = "open" /\ runs'[cur'] = 1
              /\ cur' \in DOMAIN stream /\ cmdTx[cur'] \in DOMAIN tx
              /\ \A k \in DOMAIN stream \ {cur'} : cmdTx[k] # cmdTx[cur']

\* A step of the consumer or of the exit lane only lengthens the stream.
LEMMA StreamGrows ==
    ASSUME LaneTypes, [EntryNext]_entryVars
    PROVE  Len(stream') >= Len(stream) /\ \A k \in 1..Len(stream) : stream'[k] = stream[k]
  <1>1. \/ stream' = stream
        \/ WarnExpiry \/ Reply \/ Reject
    BY DaemonStep DEF EntryNext, ConsumerWork, TakeEvent, ListenError, ConsumerCrash, LookupCard,
       InsertRow, InsertRefused, HandlerError, ConsumerStart, Exit, NoteCard, entryVars, vars, redisVars
  <1>2. Len(stream) \in Nat
    BY DEF LaneTypes, TypeOK
  <1>3. CASE WarnExpiry \/ Reply \/ Reject
    <2>1. PICK cs \in Seq(CommandTypes), n \in Nat : Command(cs, n)
      BY <1>3, Answers
    <2>2. Len(stream') = Len(stream) + Len(cs) /\ \A k \in 1..Len(stream) : stream'[k] = stream[k]
      BY <2>1, CommandTypesKept
    <2> QED
      BY <1>2, <2>2
  <1> QED
    BY <1>1, <1>2, <1>3

\* The consumer's steps neither raise the barrier nor touch the command in hand.
LEMMA RaiseStep ==
    ASSUME RaiseInv, [EntryNext]_entryVars
    PROVE  Commanded' /\ RunsMatchDelivery' /\ RaisesForRow
  <1>a. LaneTypes /\ LaneTypes'
    BY LaneStep DEF RaiseInv, LaneInv
  <1>b. TypeOK /\ TypeOK'
    BY <1>a DEF LaneTypes
  <1>0. LaneTypes /\ LaneTypes' /\ TypeOK /\ TypeOK' /\ Len(stream) \in Nat
    BY <1>a, <1>b DEF TypeOK
  <1>1. CASE Daemon
    <2>1. [Next]_vars /\ UNCHANGED <<tx, cmdTx, stream>>
      BY <1>1, DaemonStep
    <2>2. Commanded' /\ RunsMatchDelivery'
      BY <1>0, <2>1, CommandedStep, RunsStep DEF RaiseInv
    <2>3. BarrierByCommand
      BY <1>0, <2>1, <2>2, BarrierStep DEF RaiseInv
    <2>4. DOMAIN stream = 1..Len(stream)
      BY <1>0 DEF TypeOK
    <2>5. RaisesForRow
      BY <2>3, <2>4 DEF BarrierByCommand, RaisesForRow, RaiseInv, LaneInv, OneAdmissionPerRow, OpeningCommands
    <2> QED
      BY <2>2, <2>5
  <1>2. CASE UNCHANGED <<daemonVars, read, pel, cur, history, opens>>
    <2>1. UNCHANGED <<state, relay, pc, cur, read, runs>>
      BY <1>2 DEF daemonVars, history
    <2>2. ~GoesUp /\ RunsMatchDelivery'
      BY <2>1 DEF GoesUp, RaiseInv, RunsMatchDelivery
    <2>3. Commanded'
      <3>1. Len(stream') \in Nat
        BY <1>0 DEF TypeOK
      <3>2. Len(stream') >= Len(stream) /\ \A k \in 1..Len(stream) : stream'[k] = stream[k]
        BY <1>0, StreamGrows
      <3> QED
        BY <1>0, <2>1, <3>1, <3>2 DEF RaiseInv, Commanded
    <2> QED
      BY <2>2, <2>3 DEF RaisesForRow
  <1> QED
    BY <1>1, <1>2, OtherFrame

\* Every time the barrier goes up, it is for one committed row, which no other command
\* was ever sent for, by a command that the daemon is handed once: whatever crashes, lost
\* events, failed commits and sensor messages there are, a vehicle is let in by its own
\* record (event_consumer.py, commit before publish_command; gate_in.py
\* _relay_open_reliable).
THEOREM RaisedForRow == EntrySpec => [][RaisesForRow]_entryVars
  <1>1. EntryInit => RaiseInv
    BY InitCounts DEF EntryInit, Init, RaiseInv, Commanded, RunsMatchDelivery, Raising, Tasks
  <1>2. RaiseInv /\ [EntryNext]_entryVars => RaiseInv'
    BY RaiseStep, CountsStep DEF RaiseInv
  <1>3. RaiseInv /\ [EntryNext]_entryVars => [RaisesForRow]_entryVars
    BY RaiseStep
  <1> QED
    BY <1>1, <1>2, <1>3, PTL DEF EntrySpec

=============================================================================
