---------------------------- MODULE GateInProofs ----------------------------
(***************************************************************************)
(* Proofs about the gate-in daemon, for every configuration of the gate,   *)
(* every set of signals, commands and cards and every bound.               *)
(***************************************************************************)
EXTENDS GateIn, TLAPS

-----------------------------------------------------------------------------
(* The link: a write, landed or lost, yields a link. *)

\* A failed, a landed and a fresh link are links.
LEMMA LinkOps ==
    ASSUME NEW l \in Link
    PROVE  /\ Landed(l) \in Link
           /\ Broken(l) \in Link
           /\ [l EXCEPT !.up = FALSE] \in Link
           /\ [l EXCEPT !.up = TRUE] \in Link
           /\ [l EXCEPT !.open = FALSE] \in Link
           /\ \A b \in BOOLEAN : FreshLink(b) \in Link
<1> USE LinkAssumption DEF Link
<1>1. Landed(l) \in Link
  BY DEF Landed
<1>2. Broken(l) \in Link
  BY DEF Broken
<1>3. \A b \in BOOLEAN : FreshLink(b) \in Link
  BY DEF FreshLink
<1>4. QED
  BY <1>1, <1>2, <1>3

\* Whatever happens to a run of best-effort writes, the result is a link.
LEMMA SendType ==
    ASSUME NEW l \in Link, NEW n
    PROVE  SendOutcomes(l, n) \subseteq Link /\ LostSend(l) \subseteq Link
<1>1. \A k \in Link : LostSend(k) \subseteq Link
  BY LinkOps DEF LostSend
<1>2. Landed(l) \in Link
  BY LinkOps
<1>3. QED
  BY <1>1, <1>2 DEF SendOutcomes

-----------------------------------------------------------------------------
(* Type correctness *)

\* The handlers of _dispatch_rss_message keep the types of what they change.
LEMMA HandlerType ==
    ASSUME TypeOK, NEW t \in Tasks, NEW s, Handler(t, s)
    PROVE  /\ state' \in States
           /\ pc' \in [Tasks -> Labels]
           /\ link' \in Link
<1>1. link \in Link /\ pc \in [Tasks -> Labels] /\ state \in States
  BY DEF TypeOK
<1>2. \A n : SendOutcomes(link, n) \subseteq Link
  BY <1>1, SendType
<1>3. \/ OnVehicleDetected(t) \/ BackToIdle(t) \/ OnVehiclePassed(t)
      \/ OnTicketButtonPressed(t) \/ OnHelpButton(t) \/ OnRfidCardRead(t, 1)
      \/ Ignored(t)
  BY DEF Handler
<1>4. QED
  BY <1>1, <1>2, <1>3 DEF OnVehicleDetected, BackToIdle, OnVehiclePassed,
     OnTicketButtonPressed, OnHelpButton, OnRfidCardRead, Ignored, Transition,
     Stay, Goto, Done, SendBestEffort, States, Labels, RedisAwaits

\* One attempt of the relay, whatever link it starts from.
LEMMA TryRelayType ==
    ASSUME TypeOK, NEW l \in Link, NEW n \in 1..RelayAttempts, TryRelay(l, n)
    PROVE  /\ state' \in States
           /\ pc' \in [Tasks -> Labels]
           /\ link' \in Link
           /\ tries' \in 0..(RelayAttempts - 1)
           /\ relay' \in {"none", "open", "close"}
<1>1. Landed(l) \in Link
  BY LinkOps
<1>2. SendOutcomes(Landed(l), 1) \subseteq Link /\ LostSend(l) \subseteq Link
  BY <1>1, SendType
<1>3. QED
  BY <1>2, GateInAssumption DEF TryRelay, Transition, Stay, Goto, TypeOK, States,
     Labels, RedisAwaits, Tasks

\* handle_command keeps the types of the daemon's own variables.
LEMMA HandleCommandType ==
    ASSUME TypeOK, NEW c, HandleCommand(c)
    PROVE  /\ state' \in States /\ in1_on' \in BOOLEAN
           /\ pc' \in [Tasks -> Labels]
           /\ tries' \in 0..(RelayAttempts - 1)
           /\ timer' \in [Slots -> TimerStates]
           /\ valTask' \in Slots \cup {0}
           /\ link' \in Link
           /\ relay' \in {"none", "open", "close"}
<1> USE DEF TypeOK
<1>0. link \in Link /\ 1 \in 1..RelayAttempts /\ "consume" \in Tasks
  BY GateInAssumption DEF Tasks
<1>a. \A n : SendOutcomes(link, n) \subseteq Link
  BY <1>0, SendType
<1>1. CASE c = "open_gate" /\ TryRelay(link, 1)
           /\ UNCHANGED <<in1_on, timer, valTask>>
  BY <1>1, <1>0, TryRelayType
<1>2. CASE CmdPrintTicketThenOpen /\ UNCHANGED <<in1_on, timer, valTask>>
  <2>1. CASE \E l \in SendOutcomes(link, 1) : TryRelay(l, 1)
    <3> PICK l \in Link : TryRelay(l, 1)
      BY <2>1, <1>a
    <3> QED
      BY <1>0, <1>2, TryRelayType
  <2>2. CASE /\ SendBestEffort(1)
             /\ Goto("consume", "printing") /\ Stay
             /\ UNCHANGED <<tries, relay>>
    BY <2>2, <1>a, <1>2 DEF SendBestEffort, Goto, Stay, Labels
  <2>3. QED
    BY <1>2, <2>1, <2>2 DEF CmdPrintTicketThenOpen
<1>3. CASE CmdRejectCard /\ UNCHANGED <<in1_on, tries, relay>>
  BY <1>3, <1>a DEF CmdRejectCard, SendBestEffort, Goto, Stay, Labels, TimerStates
<1>4. CASE /\ Transition("IDLE") /\ Goto("consume", "display")
           /\ UNCHANGED <<in1_on, tries, timer, valTask, link, relay>>
  BY <1>4 DEF Transition, Goto, Labels, RedisAwaits, States
<1>5. CASE \E s \in Signals : Dispatch("consume", s)
  <2> PICK s \in Signals : Dispatch("consume", s)
    BY <1>5
  <2>1. Handler("consume", s) /\ in1_on' \in BOOLEAN
        /\ UNCHANGED <<tries, timer, valTask, relay>>
    BY DEF Dispatch
  <2>2. QED
    BY <2>1, <1>0, <1>5, HandlerType
<1>6. CASE CmdSend(c) /\ UNCHANGED <<in1_on, tries, timer, valTask>>
  <2>1. link' \in Link /\ relay' \in {"none", "open", "close"}
    BY <1>6, <1>a DEF CmdSend, SendBestEffort
  <2>2. QED
    BY <1>6, <2>1 DEF CmdSend, Stay, Done, Goto, Labels, RedisAwaits
<1>7. CASE /\ Goto("consume", "ready") /\ Stay
           /\ UNCHANGED <<in1_on, tries, timer, valTask, link, relay>>
  BY <1>7 DEF Goto, Stay, Labels
<1>8. QED
  BY <1>1, <1>2, <1>3, <1>4, <1>5, <1>6, <1>7 DEF HandleCommand

\* Publishing an event leaves a sequence of events on the channel.
LEMMA PublishType ==
    ASSUME NEW e \in Events, chan \in Seq(Events), Publish(e)
    PROVE  chan' \in Seq(Events)
BY DEF Publish

\* Every step keeps the types, one case for each action.
LEMMA TypeStep == TypeOK /\ [Next]_vars => TypeOK'
<1> SUFFICES ASSUME TypeOK, [Next]_vars PROVE TypeOK'
  OBVIOUS
<1> USE DEF TypeOK
<1>a. link \in Link
  OBVIOUS
<1>b. \A n : SendOutcomes(link, n) \subseteq Link
  BY <1>a, SendType
<1>c. /\ [link EXCEPT !.up = FALSE] \in Link
      /\ [link EXCEPT !.up = TRUE] \in Link
      /\ [link EXCEPT !.open = FALSE] \in Link
      /\ \A b \in BOOLEAN : FreshLink(b) \in Link
  BY <1>a, LinkOps
<1>d. Labels = {"detected", "display", "passed", "ticket", "rfid", "arm",
                "opened", "open_failed", "help", "ack", "setup", "dead",
                "ready", "reject", "relay", "printing"}
  BY DEF Labels, RedisAwaits
<1>1. ASSUME NEW t \in Tasks, AnyTaskStep(t) PROVE TypeOK'
  <2> USE <1>b, <1>d DEF Goto, Done, SendBestEffort, redisVars, history
  <2>1. CASE AfterDetected(t)
    BY <2>1 DEF AfterDetected
  <2>2. CASE AfterDisplay(t)
    BY <2>2 DEF AfterDisplay
  <2>3. CASE AfterPassed(t)
    BY <2>3 DEF AfterPassed, DisplayAndClose
  <2>4. CASE AfterHelp(t)
    BY <2>4 DEF AfterHelp, Transition, States
  <2>5. CASE AfterTicket(t)
    <3>1. [type |-> "ticket_button_pressed"] \in Events
      BY DEF Events
    <3>2. chan' \in Seq(Events)
      BY <2>5, <3>1, PublishType DEF AfterTicket
    <3>3. QED
      BY <2>5, <3>2 DEF AfterTicket
  <2>6. CASE AfterRfid(t)
    <3>1. PICK c \in Cards : Publish([type |-> "rfid_card_read", card |-> c])
      BY <2>6 DEF AfterRfid
    <3>2. [type |-> "rfid_card_read", card |-> c] \in Events
      BY DEF Events
    <3>3. chan' \in Seq(Events)
      BY <3>1, <3>2, PublishType
    <3>4. QED
      BY <2>6, <3>3 DEF AfterRfid
  <2>7. CASE AfterArm(t)
    BY <2>7 DEF AfterArm, Spawn, TimerStates
  <2>8. QED
    BY <1>1, <2>1, <2>2, <2>3, <2>4, <2>5, <2>6, <2>7 DEF AnyTaskStep
<1>2. CASE ConsumerStep
  <2> USE <1>b, <1>d DEF Goto, Done, redisVars, history
  <2>1. CASE ReadCommand
    <3>1. PICK c : HandleCommand(c)
      BY <2>1 DEF ReadCommand
    <3>2. /\ read' \in 0..Len(stream) /\ pel' \subseteq 1..read'
          /\ cur' \in 0..read' /\ runs' \in [1..MaxCommands -> Nat]
          /\ UNCHANGED <<stream, chan>>
      <4>1. read + 1 \in 1..Len(stream) /\ read' = read + 1 /\ read \in Nat
            /\ Len(stream) \in Nat
        BY <2>1 DEF ReadCommand
      <4>2. pel' \subseteq 1..read' /\ cur' \in 0..read'
        BY <2>1, <4>1 DEF ReadCommand
      <4>3. runs' \in [1..MaxCommands -> Nat]
        BY <2>1, <4>1, GateInAssumption DEF ReadCommand
      <4>4. QED
        BY <2>1, <4>1, <4>2, <4>3 DEF ReadCommand
    <3>3. QED
      BY <3>1, <3>2, HandleCommandType
  <2>2. CASE AfterRelay
    <3>1. tries + 1 \in 1..RelayAttempts /\ TryRelay(link, tries + 1)
      BY <2>2, GateInAssumption DEF AfterRelay
    <3>2. QED
      BY <2>2, <3>1, <1>a, TryRelayType DEF AfterRelay
  <2>3. CASE AfterPrinting
    <3>1. PICK l \in Link : TryRelay(l, 1)
      BY <2>3 DEF AfterPrinting
    <3>2. QED
      BY <2>3, <3>1, GateInAssumption, TryRelayType DEF AfterPrinting
  <2>4. CASE AfterOpened
    BY <2>4 DEF AfterOpened, Spawn, TimerStates
  <2>5. CASE AfterOpenFailed
    BY <2>5 DEF AfterOpenFailed
  <2>6. CASE AfterReject
    BY <2>6 DEF AfterReject, Transition, States
  <2>7. CASE Ack
    <3>1. pel' \subseteq 1..read /\ cur' \in 0..read /\ read' = read
      BY <2>7 DEF Ack
    <3>2. QED
      BY <2>7, <3>1 DEF Ack
  <2>8. QED
    BY <1>2, <2>1, <2>2, <2>3, <2>4, <2>5, <2>6, <2>7 DEF ConsumerStep
<1>3. ASSUME NEW i \in Slots, TimerStep(i) PROVE TypeOK'
  <2> USE <1>b DEF Finish, Stay, Transition, redisVars, TimerStates, States
  <2>1. CASE ValidatingTimeout(i)
    BY <2>1 DEF ValidatingTimeout
  <2>2. CASE VehiclePassTimer(i)
    BY <2>2 DEF VehiclePassTimer
  <2>3. CASE TimerTail(i)
    BY <2>3 DEF TimerTail, SendBestEffort, DisplayAndClose
  <2>4. QED
    BY <1>3, <2>1, <2>2, <2>3 DEF TimerStep
<1>4. CASE PollSetup
  BY <1>4, <1>d DEF PollSetup, Goto, redisVars, history
<1>5. CASE Reconnect \/ CooldownOver \/ LinkEOF \/ ControllerHeartbeat
  BY <1>5, <1>b, <1>c DEF Reconnect, CooldownOver, LinkEOF, ControllerHeartbeat,
     SendBestEffort, redisVars, history
<1>6. ASSUME NEW s \in Signals, Signal(s) PROVE TypeOK'
  <2>1. "poll" \in Tasks /\ Handler("poll", s) /\ in1_on' \in BOOLEAN
        /\ UNCHANGED <<tries, timer, valTask, relay>>
    BY <1>6 DEF Signal, Dispatch, Tasks
  <2>2. QED
    BY <1>6, <2>1, HandlerType DEF Signal, redisVars
<1>7. CASE SerialCardRead
  BY <1>7, <1>b, <1>d DEF SerialCardRead, OnRfidCardRead, Transition, Goto,
     SendBestEffort, redisVars, States
<1>8. ASSUME NEW t \in Tasks, RedisError(t) PROVE TypeOK'
  BY <1>8, <1>d DEF RedisError, Goto, history
<1>9. ASSUME NEW i \in Slots, TimerRedisError(i) PROVE TypeOK'
  BY <1>9 DEF TimerRedisError, Finish, TimerStates, redisVars, history
<1>10. CASE Restart
  <2>1. /\ link' \in Link /\ state' \in States
        /\ pc' \in [Tasks -> Labels] /\ timer' \in [Slots -> TimerStates]
    BY <1>10, <1>c, <1>d DEF Restart, Transition, States, TimerStates
  <2>2. tries' \in 0..(RelayAttempts - 1) /\ cur' \in 0..read'
    BY <1>10, GateInAssumption DEF Restart
  <2>3. QED
    BY <1>10, <2>1, <2>2 DEF Restart
<1>11. ASSUME NEW c \in CommandTypes, AddCommand(c) PROVE TypeOK'
  <2>1. /\ stream' \in Seq(CommandTypes) /\ Len(stream') <= MaxCommands
        /\ read' \in 0..Len(stream')
    BY <1>11, GateInAssumption DEF AddCommand
  <2>2. QED
    BY <1>11, <2>1 DEF AddCommand, daemonVars, history
<1>12. CASE UNCHANGED vars
  BY <1>12 DEF vars, daemonVars, redisVars, history
<1>13. QED
  BY <1>1, <1>2, <1>3, <1>4, <1>5, <1>6, <1>7, <1>8, <1>9, <1>10, <1>11,
     <1>12 DEF Next, DaemonNext, Progress

\* The initial state is well typed.
LEMMA TypeInit == Init => TypeOK
<1>1. \A b \in BOOLEAN : FreshLink(b) \in Link
  BY LinkAssumption DEF FreshLink, Link
<1>2. Init => link \in Link /\ pc \in [Tasks -> Labels]
              /\ timer \in [Slots -> TimerStates]
  BY <1>1 DEF Init, Labels, TimerStates
<1>3. Init => /\ stream \in Seq(CommandTypes) /\ Len(stream) = 0
              /\ chan \in Seq(Events)
  BY DEF Init
<1>4. Init => runs \in [1..MaxCommands -> Nat] /\ tries \in 0..(RelayAttempts - 1)
  BY GateInAssumption DEF Init
<1>5. Init => /\ state \in States /\ in1_on \in BOOLEAN /\ valTask \in Slots \cup {0}
              /\ relay = "none"
              /\ read = 0 /\ cur = 0 /\ pel = {}
  BY DEF Init, States
<1>6. QED
  BY <1>2, <1>3, <1>4, <1>5, GateInAssumption DEF TypeOK

\* Every state of every behaviour of the daemon is well typed.
THEOREM TypeCorrect == Spec => []TypeOK
<1>1. Init => TypeOK
  BY TypeInit
<1>2. TypeOK /\ [Next]_vars => TypeOK'
  BY TypeStep
<1>3. QED
  BY <1>1, <1>2, PTL DEF Spec

-----------------------------------------------------------------------------
(* What reject_card cancels *)

\* Only these steps touch the timers or the handle on the validation timeout.
LEMMA TimerFrame ==
    ASSUME [Next]_vars
    PROVE  \/ UNCHANGED <<timer, valTask>>
           \/ \E t \in Tasks : AfterArm(t)
           \/ \E i \in Slots : TimerStep(i) \/ TimerRedisError(i)
           \/ AfterOpened \/ CmdRejectCard \/ Restart
<1>1. ASSUME NEW c, HandleCommand(c)
      PROVE  UNCHANGED <<timer, valTask>> \/ CmdRejectCard
  BY <1>1 DEF HandleCommand, Dispatch
<1>2. CASE ReadCommand
  BY <1>1, <1>2 DEF ReadCommand
<1>3. CASE ConsumerStep /\ ~ReadCommand
  BY <1>3 DEF ConsumerStep, AfterRelay, AfterPrinting, AfterOpenFailed, AfterReject, Ack
<1>4. ASSUME NEW t \in Tasks, AnyTaskStep(t)
      PROVE  UNCHANGED <<timer, valTask>> \/ AfterArm(t)
  BY <1>4 DEF AnyTaskStep, AfterDetected, AfterDisplay, AfterPassed, AfterHelp,
     AfterTicket, AfterRfid
<1>5. QED
  BY <1>2, <1>3, <1>4 DEF Next, DaemonNext, Progress, PollSetup, Reconnect, CooldownOver,
     Signal, Dispatch, LinkEOF, ControllerHeartbeat, SerialCardRead, RedisError,
     AddCommand, vars, daemonVars

\* No step makes the handle of the validation timeout name another timer.
LEMMA RejectStep == TypeOK /\ RejectCancelsValidation /\ [Next]_vars => RejectCancelsValidation'
<1> SUFFICES ASSUME TypeOK, RejectCancelsValidation, [Next]_vars
             PROVE  RejectCancelsValidation'
  OBVIOUS
<1> USE DEF RejectCancelsValidation
<1>0. timer \in [Slots -> TimerStates] /\ valTask \in Slots \cup {0} /\ 0 \notin Slots
  BY DEF TypeOK, Slots
<1>1. CASE UNCHANGED <<timer, valTask>>
  BY <1>1
<1>2. ASSUME NEW t \in Tasks, AfterArm(t) PROVE RejectCancelsValidation'
  BY <1>0, <1>2 DEF AfterArm, Spawn
<1>3. ASSUME NEW i \in Slots, TimerStep(i) \/ TimerRedisError(i)
      PROVE  RejectCancelsValidation'
  BY <1>0, <1>3 DEF TimerStep, TimerRedisError, ValidatingTimeout, VehiclePassTimer,
     TimerTail, Finish
<1>4. CASE AfterOpened
  BY <1>0, <1>4 DEF AfterOpened, Spawn
<1>5. CASE CmdRejectCard \/ Restart
  BY <1>5 DEF CmdRejectCard, Restart
<1>6. QED
  BY <1>1, <1>2, <1>3, <1>4, <1>5, TimerFrame

\* A rejection can only cancel a validation timeout, never a pass timer.
THEOREM RejectSafe == Spec => []RejectCancelsValidation
<1>1. Init => RejectCancelsValidation
  BY DEF Init, RejectCancelsValidation
<1>2. TypeOK /\ RejectCancelsValidation /\ [Next]_vars => RejectCancelsValidation'
  BY RejectStep
<1>3. QED
  BY <1>1, <1>2, TypeCorrect, PTL DEF Spec

-----------------------------------------------------------------------------
(* Every VALIDATING or OPENING gate has a way out in hand *)

\* What a step may do to the exits: leave for a state that needs none, or keep
\* the state, the timers and every handler that was holding an exit.
KeepsExits ==
    \/ state' \notin {"VALIDATING", "OPENING"}
    \/ /\ state' = state
       /\ \A i \in Slots : timer[i] \in {"validating", "passing"} => timer'[i] = timer[i]
       /\ \A t \in Tasks : pc[t] \in {"rfid", "arm", "reject", "opened"} => pc'[t] = pc[t]

\* A step that keeps the exits preserves the invariant.
LEMMA KeepsExitsSuffices ==
    ASSUME HasExit, KeepsExits
    PROVE  HasExit'
<1>1. "consume" \in Tasks
  BY DEF Tasks
<1>2. CASE state' \notin {"VALIDATING", "OPENING"}
  BY <1>2 DEF HasExit, ValidatingHasExit, OpeningHasExit
<1>3. CASE /\ state' = state
           /\ \A i \in Slots : timer[i] \in {"validating", "passing"} => timer'[i] = timer[i]
           /\ \A t \in Tasks : pc[t] \in {"rfid", "arm", "reject", "opened"} => pc'[t] = pc[t]
  BY <1>1, <1>3 DEF HasExit, ValidatingHasExit, OpeningHasExit
<1>4. QED
  BY <1>2, <1>3 DEF KeepsExits

\* A dispatched signal either keeps the exits or starts a card handler.
LEMMA DispatchKeepsExits ==
    ASSUME TypeOK, HasExit, NEW t \in Tasks, NEW s, pc[t] = "ready", Dispatch(t, s)
    PROVE  HasExit'
<1> USE DEF Goto, Done, Transition, Stay
<1>1. CASE OnRfidCardRead(t, 1)
  BY <1>1 DEF OnRfidCardRead, HasExit, ValidatingHasExit, OpeningHasExit, TypeOK
<1>2. CASE OnVehicleDetected(t) \/ BackToIdle(t) \/ OnVehiclePassed(t)
           \/ OnTicketButtonPressed(t)
  BY <1>2, KeepsExitsSuffices DEF OnVehicleDetected, BackToIdle, OnVehiclePassed,
     OnTicketButtonPressed, KeepsExits
<1>3. CASE OnHelpButton(t) \/ Ignored(t)
  BY <1>3, KeepsExitsSuffices DEF OnHelpButton, Ignored, Dispatch, KeepsExits, TypeOK
<1>4. QED
  BY <1>1, <1>2, <1>3 DEF Dispatch, Handler

\* An attempt at the relay either opens, with the handler that will start the
\* pass timer, or keeps the exits.
LEMMA TryRelayKeepsExits ==
    ASSUME TypeOK, HasExit, NEW l, NEW n, TryRelay(l, n), UNCHANGED timer,
           pc["consume"] \in {"ready", "relay", "printing"}
    PROVE  HasExit'
<1> USE DEF Goto, Transition, Stay
<1>1. "consume" \in Tasks
  BY DEF Tasks
<1>2. CASE Transition("OPENING") /\ Goto("consume", "opened")
  BY <1>1, <1>2 DEF HasExit, ValidatingHasExit, OpeningHasExit, TypeOK
<1>3. CASE Stay /\ \E b \in {"relay", "open_failed"} : Goto("consume", b)
  BY <1>1, <1>3, KeepsExitsSuffices DEF KeepsExits, TypeOK
<1>4. QED
  BY <1>2, <1>3 DEF TryRelay

\* While Redis calls do not fail, every step leaves a VALIDATING or OPENING gate a
\* way out.
LEMMA ExitStep ==
    ASSUME "redis" \notin Faults
    PROVE  TypeOK /\ RejectCancelsValidation /\ HasExit /\ [Next]_vars => HasExit'
<1> SUFFICES ASSUME TypeOK, RejectCancelsValidation, HasExit, [Next]_vars
             PROVE  HasExit'
  OBVIOUS
<1> USE KeepsExitsSuffices DEF Goto, Done, Transition, Stay
<1>0. "consume" \in Tasks /\ "poll" \in Tasks /\ "rfid_serial" \in Tasks
      /\ pc \in [Tasks -> Labels] /\ timer \in [Slots -> TimerStates]
  BY DEF Tasks, TypeOK
<1>1. ASSUME NEW t \in Tasks, AnyTaskStep(t) PROVE HasExit'
  <2>1. CASE AfterDetected(t) \/ AfterDisplay(t) \/ AfterPassed(t) \/ AfterTicket(t)
    BY <1>0, <2>1 DEF AfterDetected, AfterDisplay, AfterPassed, AfterTicket, KeepsExits
  <2>2. CASE AfterHelp(t)
    BY <2>2 DEF AfterHelp, KeepsExits
  <2>3. CASE AfterRfid(t)
    BY <1>0, <2>3 DEF AfterRfid, HasExit, ValidatingHasExit, OpeningHasExit
  <2>4. CASE AfterArm(t)
    BY <1>0, <2>4 DEF AfterArm, Spawn, HasExit, ValidatingHasExit, OpeningHasExit
  <2>5. QED
    BY <1>1, <2>1, <2>2, <2>3, <2>4 DEF AnyTaskStep
<1>2. CASE ConsumerStep
  <2>1. CASE ReadCommand
    <3>1. pc["consume"] = "ready"
      BY <2>1 DEF ReadCommand
    <3>2. PICK c : HandleCommand(c)
      BY <2>1 DEF ReadCommand
    <3>3. CASE c = "open_gate" /\ TryRelay(link, 1) /\ UNCHANGED timer
      BY <3>1, <3>3, TryRelayKeepsExits
    <3>4. CASE CmdPrintTicketThenOpen /\ UNCHANGED timer
      <4>1. CASE \E l : TryRelay(l, 1)
        BY <3>1, <3>4, <4>1, TryRelayKeepsExits
      <4>2. CASE Goto("consume", "printing") /\ Stay
        BY <1>0, <3>1, <3>4, <4>2 DEF KeepsExits
      <4>3. QED
        BY <3>4, <4>1, <4>2 DEF CmdPrintTicketThenOpen
    <3>5. CASE CmdRejectCard
      BY <1>0, <3>1, <3>5 DEF CmdRejectCard, RejectCancelsValidation, HasExit,
         ValidatingHasExit, OpeningHasExit, TypeOK
    <3>6. CASE Transition("IDLE")
      BY <3>6 DEF KeepsExits
    <3>7. CASE \E s \in Signals : Dispatch("consume", s)
      BY <1>0, <3>1, <3>7, DispatchKeepsExits
    <3>8. CASE CmdSend(c) /\ UNCHANGED timer
      BY <1>0, <3>1, <3>8 DEF CmdSend, KeepsExits
    <3>9. CASE Goto("consume", "ready") /\ Stay /\ UNCHANGED timer
      BY <1>0, <3>1, <3>9 DEF KeepsExits
    <3>10. QED
      BY <3>2, <3>3, <3>4, <3>5, <3>6, <3>7, <3>8, <3>9 DEF HandleCommand
  <2>2. CASE AfterRelay
    BY <2>2, TryRelayKeepsExits DEF AfterRelay
  <2>3. CASE AfterPrinting
    BY <2>3, TryRelayKeepsExits DEF AfterPrinting
  <2>4. CASE AfterOpened
    BY <1>0, <2>4 DEF AfterOpened, Spawn, HasExit, ValidatingHasExit, OpeningHasExit
  <2>5. CASE AfterOpenFailed \/ Ack
    BY <1>0, <2>5 DEF AfterOpenFailed, Ack, KeepsExits
  <2>6. CASE AfterReject
    BY <2>6 DEF AfterReject, KeepsExits
  <2>7. QED
    BY <1>2, <2>1, <2>2, <2>3, <2>4, <2>5, <2>6 DEF ConsumerStep
<1>3. ASSUME NEW i \in Slots, TimerStep(i) PROVE HasExit'
  <2>1. CASE ValidatingTimeout(i)
    BY <1>0, <2>1 DEF ValidatingTimeout, Finish, HasExit, ValidatingHasExit, OpeningHasExit
  <2>2. CASE VehiclePassTimer(i)
    BY <1>0, <2>2 DEF VehiclePassTimer, Finish, HasExit, ValidatingHasExit, OpeningHasExit
  <2>3. CASE TimerTail(i)
    BY <1>0, <2>3 DEF TimerTail, Finish, KeepsExits
  <2>4. QED
    BY <1>3, <2>1, <2>2, <2>3 DEF TimerStep
<1>4. CASE PollSetup
  BY <1>0, <1>4 DEF PollSetup, KeepsExits
<1>5. CASE Reconnect \/ CooldownOver \/ LinkEOF \/ ControllerHeartbeat
  BY <1>5 DEF Reconnect, CooldownOver, LinkEOF, ControllerHeartbeat, KeepsExits
<1>6. ASSUME NEW s \in Signals, Signal(s) PROVE HasExit'
  BY <1>0, <1>6, DispatchKeepsExits DEF Signal
<1>7. CASE SerialCardRead
  BY <1>0, <1>7 DEF SerialCardRead, OnRfidCardRead, HasExit, ValidatingHasExit,
     OpeningHasExit
<1>8. CASE Restart
  BY <1>8 DEF Restart, KeepsExits
<1>9. CASE (\E c \in CommandTypes : AddCommand(c)) \/ UNCHANGED vars
  BY <1>9 DEF AddCommand, vars, daemonVars, KeepsExits
<1>10. QED
  BY <1>1, <1>2, <1>3, <1>4, <1>5, <1>6, <1>7, <1>8, <1>9
     DEF Next, DaemonNext, Progress, RedisError, TimerRedisError

\* While Redis calls do not fail, a VALIDATING gate always has its timeout armed
\* or about to be, or a rejection under way, and an OPENING gate its pass timer:
\* no gate can be left in either state with nothing that will end it.
THEOREM ExitsArmed ==
    ASSUME "redis" \notin Faults
    PROVE  Spec => []HasExit
<1>1. Init => HasExit
  BY DEF Init, HasExit, ValidatingHasExit, OpeningHasExit
<1>2. TypeOK /\ RejectCancelsValidation /\ HasExit /\ [Next]_vars => HasExit'
  BY ExitStep
<1>3. QED
  BY <1>1, <1>2, TypeCorrect, RejectSafe, PTL DEF Spec

-----------------------------------------------------------------------------
(* The command stream *)

\* Only a read delivers a command.
LEMMA DeliveryFrame ==
    ASSUME [Next]_vars
    PROVE  ReadCommand \/ UNCHANGED <<read, runs>>
<1>1. ASSUME NEW t \in Tasks, AnyTaskStep(t) PROVE UNCHANGED <<read, runs>>
  BY <1>1 DEF AnyTaskStep, AfterDetected, AfterDisplay, AfterPassed, AfterHelp,
     AfterTicket, AfterRfid, AfterArm, redisVars, history
<1>2. CASE ConsumerStep /\ ~ReadCommand
  BY <1>2 DEF ConsumerStep, AfterRelay, AfterPrinting, AfterOpened, AfterOpenFailed,
     AfterReject, Ack, redisVars, history
<1>3. ASSUME NEW i \in Slots, TimerStep(i) \/ TimerRedisError(i)
      PROVE  UNCHANGED <<read, runs>>
  BY <1>3 DEF TimerStep, ValidatingTimeout, VehiclePassTimer, TimerTail,
     TimerRedisError, redisVars, history
<1>4. CASE PollSetup \/ Reconnect \/ CooldownOver \/ LinkEOF \/ ControllerHeartbeat
           \/ SerialCardRead \/ Restart \/ UNCHANGED vars
  BY <1>4 DEF PollSetup, Reconnect, CooldownOver, LinkEOF, ControllerHeartbeat,
     SerialCardRead, Restart, vars, redisVars, history
<1>5. ASSUME NEW s \in Signals, Signal(s) PROVE UNCHANGED <<read, runs>>
  BY <1>5 DEF Signal, redisVars
<1>6. ASSUME NEW t \in Tasks, RedisError(t) PROVE UNCHANGED <<read, runs>>
  BY <1>6 DEF RedisError, history
<1>7. ASSUME NEW c \in CommandTypes, AddCommand(c) PROVE UNCHANGED <<read, runs>>
  BY <1>7 DEF AddCommand, history
<1>8. QED
  BY <1>1, <1>2, <1>3, <1>4, <1>5, <1>6, <1>7 DEF Next, DaemonNext, Progress, ConsumerStep

\* Every step keeps the delivered commands handed over once each.
LEMMA RunsStep == TypeOK /\ RunsMatchDelivery /\ [Next]_vars => RunsMatchDelivery'
<1> SUFFICES ASSUME TypeOK, RunsMatchDelivery, [Next]_vars
             PROVE  RunsMatchDelivery'
  OBVIOUS
<1>1. CASE ReadCommand
  BY <1>1, GateInAssumption DEF ReadCommand, TypeOK, RunsMatchDelivery
<1>2. CASE UNCHANGED <<read, runs>>
  BY <1>2 DEF RunsMatchDelivery
<1>3. QED
  BY <1>1, <1>2, DeliveryFrame

\* The delivered commands were handed over once each, the others never.
LEMMA RunsMatched == Spec => []RunsMatchDelivery
<1>1. Init => RunsMatchDelivery
  BY DEF Init, RunsMatchDelivery
<1>2. QED
  BY <1>1, RunsStep, TypeCorrect, PTL DEF Spec

\* No command is ever handed to the daemon twice, whatever crashes, lost Redis
\* connections and failing handlers happen: an open or a print is never redone.
THEOREM DeliveredAtMostOnce == Spec => []AtMostOnce
<1>1. RunsMatchDelivery => AtMostOnce
  BY DEF RunsMatchDelivery, AtMostOnce
<1>2. QED
  BY <1>1, RunsMatched, PTL

\* Only these steps change what is pending or in hand.
LEMMA PendingFrame ==
    ASSUME [Next]_vars
    PROVE  \/ ReadCommand \/ Ack \/ Restart \/ \E t \in Tasks : RedisError(t)
           \/ UNCHANGED <<cur, pel>>
<1>1. ASSUME NEW t \in Tasks, AnyTaskStep(t) PROVE UNCHANGED <<cur, pel>>
  BY <1>1 DEF AnyTaskStep, AfterDetected, AfterDisplay, AfterPassed, AfterHelp,
     AfterTicket, AfterRfid, AfterArm, redisVars
<1>2. CASE ConsumerStep /\ ~ReadCommand /\ ~Ack
  BY <1>2 DEF ConsumerStep, AfterRelay, AfterPrinting, AfterOpened, AfterOpenFailed,
     AfterReject, redisVars
<1>3. ASSUME NEW i \in Slots, TimerStep(i) \/ TimerRedisError(i)
      PROVE  UNCHANGED <<cur, pel>>
  BY <1>3 DEF TimerStep, ValidatingTimeout, VehiclePassTimer, TimerTail,
     TimerRedisError, redisVars
<1>4. CASE PollSetup \/ Reconnect \/ CooldownOver \/ LinkEOF \/ ControllerHeartbeat
           \/ SerialCardRead \/ UNCHANGED vars
  BY <1>4 DEF PollSetup, Reconnect, CooldownOver, LinkEOF, ControllerHeartbeat,
     SerialCardRead, vars, redisVars
<1>5. ASSUME NEW s \in Signals, Signal(s) PROVE UNCHANGED <<cur, pel>>
  BY <1>5 DEF Signal, redisVars
<1>6. ASSUME NEW c \in CommandTypes, AddCommand(c) PROVE UNCHANGED <<cur, pel>>
  BY <1>6 DEF AddCommand
<1>7. QED
  BY <1>1, <1>2, <1>3, <1>4, <1>5, <1>6 DEF Next, DaemonNext, Progress, ConsumerStep

\* A command that is being processed is still pending in the consumer group, so a
\* crash or an error in its handler leaves a trace of it (base.py _process_command
\* acknowledges after handle_command has returned).
THEOREM PendingSafe == Spec => []PendingUntilHandled
<1>1. Init => PendingUntilHandled
  BY DEF Init, PendingUntilHandled
<1>2. PendingUntilHandled /\ [Next]_vars => PendingUntilHandled'
  <2> SUFFICES ASSUME PendingUntilHandled, [Next]_vars PROVE PendingUntilHandled'
    OBVIOUS
  <2>1. CASE ReadCommand \/ Ack \/ Restart \/ \E t \in Tasks : RedisError(t)
    BY <2>1 DEF ReadCommand, Ack, Restart, RedisError, PendingUntilHandled
  <2>2. CASE UNCHANGED <<cur, pel>>
    BY <2>2 DEF PendingUntilHandled
  <2>3. QED
    BY <2>1, <2>2, PendingFrame
<1>3. QED
  BY <1>1, <1>2, PTL DEF Spec

-----------------------------------------------------------------------------
(* The circuit breaker *)

Consistent(l) == l.open => l.fails = CbThreshold

\* Best-effort writes, a lost write and a fresh socket keep the breaker
\* consistent.
LEMMA SendConsistent ==
    ASSUME NEW l \in Link, Consistent(l), NEW n
    PROVE  /\ \A k \in SendOutcomes(l, n) : Consistent(k)
           /\ \A k \in LostSend(l) : Consistent(k)
<1>1. ASSUME NEW k \in Link PROVE Consistent(Broken(k))
  <2> DEFINE c == IF k.fails < CbThreshold THEN k.fails + 1 ELSE CbThreshold
  <2>1. c \in 0..CbThreshold
    BY LinkAssumption DEF Link
  <2>2. Broken(k) = [up |-> FALSE, fails |-> c, open |-> c >= CbThreshold]
    BY DEF Broken
  <2> HIDE DEF c
  <2>3. Broken(k).fails = c /\ Broken(k).open = (c >= CbThreshold)
    BY <2>2
  <2>4. c >= CbThreshold => c = CbThreshold
    BY <2>1, LinkAssumption
  <2>5. QED
    BY <2>3, <2>4 DEF Consistent
<1>2. \A k \in Link : Consistent(k) => \A m \in LostSend(k) : Consistent(m)
  BY <1>1 DEF LostSend
<1>3. Sendable(l) => Consistent(Landed(l)) /\ Landed(l) \in Link
  BY LinkOps DEF Sendable, Landed, Consistent, Link
<1>4. QED
  BY <1>2, <1>3 DEF SendOutcomes

\* A relay attempt keeps the breaker consistent.
LEMMA TryRelayConsistent ==
    ASSUME NEW l \in Link, Consistent(l), NEW n, TryRelay(l, n)
    PROVE  Consistent(link')
<1>1. Sendable(l) => Consistent(Landed(l)) /\ Landed(l) \in Link
  BY LinkOps DEF Sendable, Landed, Consistent, Link
<1>2. QED
  BY <1>1, SendConsistent DEF TryRelay

\* The breaker is never open with fewer failures on count than its threshold.
THEOREM BreakerSound == Spec => []BreakerConsistent
<1>1. Init => BreakerConsistent
  BY DEF Init, BreakerConsistent, FreshLink
<1>2. TypeOK /\ BreakerConsistent /\ [Next]_vars => BreakerConsistent'
  <2> SUFFICES ASSUME TypeOK, Consistent(link), [Next]_vars
               PROVE  Consistent(link')
    BY DEF BreakerConsistent, Consistent
  <2>0. link \in Link
    BY DEF TypeOK
  <2>a. ASSUME NEW n, SendBestEffort(n) PROVE Consistent(link')
    BY <2>0, <2>a, SendConsistent DEF SendBestEffort
  <2>b. ASSUME UNCHANGED link PROVE Consistent(link')
    BY <2>b
  <2>c. ASSUME NEW t, NEW s, Dispatch(t, s) PROVE Consistent(link')
    BY <2>a, <2>c DEF Dispatch, Handler, OnVehicleDetected, BackToIdle, OnVehiclePassed,
       OnTicketButtonPressed, OnHelpButton, OnRfidCardRead, Ignored
  <2>1. ASSUME NEW t \in Tasks, AnyTaskStep(t) PROVE Consistent(link')
    BY <2>1, <2>a, <2>b DEF AnyTaskStep, AfterDetected, AfterDisplay, AfterPassed,
       AfterHelp, AfterTicket, AfterRfid, AfterArm, DisplayAndClose
  <2>2. CASE ReadCommand
    <3>1. PICK c : HandleCommand(c)
      BY <2>2 DEF ReadCommand
    <3>2. CASE \E l \in SendOutcomes(link, 1) : TryRelay(l, 1)
      <4>1. SendOutcomes(link, 1) \subseteq Link
        BY <2>0, SendType
      <4>2. QED
        BY <2>0, <3>2, <4>1, SendConsistent, TryRelayConsistent
    <3>3. CASE TryRelay(link, 1)
      BY <2>0, <3>3, TryRelayConsistent
    <3>4. QED
      BY <3>1, <3>2, <3>3, <2>a, <2>b, <2>c DEF HandleCommand, CmdPrintTicketThenOpen,
         CmdRejectCard, CmdSend
  <2>3. CASE AfterRelay
    BY <2>0, <2>3, TryRelayConsistent DEF AfterRelay
  <2>4. CASE AfterPrinting
    <3>1. SendOutcomes(link, 1) \subseteq Link
      BY <2>0, SendType
    <3>2. QED
      BY <2>0, <2>4, <3>1, SendConsistent, TryRelayConsistent DEF AfterPrinting
  <2>5. CASE AfterOpened \/ AfterOpenFailed \/ AfterReject \/ Ack
    BY <2>5, <2>b DEF AfterOpened, AfterOpenFailed, AfterReject, Ack
  <2>6. ASSUME NEW i \in Slots, TimerStep(i) \/ TimerRedisError(i)
        PROVE  Consistent(link')
    BY <2>6, <2>a, <2>b DEF TimerStep, ValidatingTimeout, VehiclePassTimer, TimerTail,
       TimerRedisError, DisplayAndClose
  <2>7. CASE PollSetup \/ (\E t \in Tasks : RedisError(t)) \/ UNCHANGED vars
             \/ (\E c \in CommandTypes : AddCommand(c))
    BY <2>7, <2>b DEF PollSetup, RedisError, AddCommand, vars, daemonVars
  <2>8. CASE Reconnect \/ CooldownOver \/ LinkEOF \/ Restart
    BY <2>0, <2>8 DEF Reconnect, CooldownOver, LinkEOF, Restart, FreshLink, Consistent, Link
  <2>9. CASE ControllerHeartbeat \/ SerialCardRead \/ (\E s \in Signals : Signal(s))
    BY <2>9, <2>a, <2>c DEF ControllerHeartbeat, SerialCardRead, OnRfidCardRead, Signal
  <2>10. QED
    BY <2>1, <2>2, <2>3, <2>4, <2>5, <2>6, <2>7, <2>8, <2>9
       DEF Next, DaemonNext, Progress, ConsumerStep
<1>3. QED
  BY <1>1, <1>2, TypeCorrect, PTL DEF Spec

-----------------------------------------------------------------------------
(* The barrier *)

OpeningCommands == {"open_gate", "print_ticket_then_open"}

Raising == {"relay", "printing", "opened", "open_failed"}

\* A consumer that is raising the barrier is processing an opening command.
Commanded ==
    pc["consume"] \in Raising => cur \in 1..Len(stream) /\ stream[cur] \in OpeningCommands

\* The barrier goes up, in the daemon's view or at the controller.
GoesUp == (state' = "OPENING" /\ state # "OPENING") \/ (relay' = "open" /\ relay # "open")

\* When it does, both agree, and the consumer is processing an opening command
\* that was added to the stream before, in its only run.
BarrierByCommand ==
    GoesUp => /\ state' = "OPENING" /\ relay' = "open" /\ pc'["consume"] = "opened"
              /\ cur' \in 1..Len(stream) /\ stream[cur'] \in OpeningCommands
              /\ runs'[cur'] = 1

\* A step that leaves the barrier and the command alone.
Indifferent ==
    /\ ~GoesUp /\ UNCHANGED <<cur, stream>>
    /\ pc'["consume"] \in Raising => pc'["consume"] = pc["consume"]

\* Such a step keeps the invariant.
LEMMA IndifferentKeeps ==
    ASSUME Commanded, Indifferent PROVE Commanded' /\ ~GoesUp
  BY DEF Commanded, Indifferent

\* A dispatched RSS message raises nothing, whatever the controller or an
\* injected command says.
LEMMA DispatchRaisesNothing ==
    ASSUME TypeOK, NEW t \in Tasks, NEW s, Dispatch(t, s)
    PROVE  ~GoesUp /\ (pc'["consume"] \in Raising => pc'["consume"] = pc["consume"])
<1>1. relay' = relay /\ (state' = state \/ state' \in States \ {"OPENING"})
  BY DEF Dispatch, Handler, OnVehicleDetected, BackToIdle, OnVehiclePassed,
     OnTicketButtonPressed, OnHelpButton, OnRfidCardRead, Ignored, Transition, Stay, States
<1>2. \E label \in Labels \ Raising : Goto(t, label)
  BY DEF Dispatch, Handler, OnVehicleDetected, BackToIdle, OnVehiclePassed, OnTicketButtonPressed,
     OnHelpButton, OnRfidCardRead, Ignored, Done, Labels, RedisAwaits, Raising
<1>3. "consume" \in Tasks /\ pc \in [Tasks -> Labels]
  BY DEF TypeOK, Tasks
<1>4. QED
  BY <1>1, <1>2, <1>3 DEF GoesUp, Goto

\* A relay attempt raises the barrier in both views, or in neither.
LEMMA TryRelayRaises ==
    ASSUME TypeOK, NEW l, NEW n, TryRelay(l, n)
    PROVE  /\ GoesUp => state' = "OPENING" /\ relay' = "open" /\ pc'["consume"] = "opened"
           /\ pc'["consume"] # "ready"
<1>1. "consume" \in Tasks /\ pc \in [Tasks -> Labels]
  BY DEF TypeOK, Tasks
<1>2. QED
  BY <1>1 DEF TryRelay, GoesUp, Transition, Stay, Goto

\* A step of the consumer that has just read a command.
LEMMA ReadRaises ==
    ASSUME TypeOK, ReadCommand
    PROVE  /\ Commanded'
           /\ GoesUp => /\ state' = "OPENING" /\ relay' = "open" /\ pc'["consume"] = "opened"
                        /\ cur' \in 1..Len(stream) /\ stream[cur'] \in OpeningCommands
<1> DEFINE c == stream[read + 1]
<1>0. /\ "consume" \in Tasks /\ pc \in [Tasks -> Labels] /\ pc["consume"] = "ready"
      /\ read + 1 \in 1..Len(stream) /\ UNCHANGED stream /\ HandleCommand(c)
      /\ cur' = IF pc'["consume"] = "ready" THEN 0 ELSE read + 1
  BY DEF TypeOK, Tasks, ReadCommand
<1> HIDE DEF c
<1>1. CASE c \in OpeningCommands /\ \E l, n : TryRelay(l, n)
  <2>1. pc'["consume"] # "ready"
    BY <1>1, TryRelayRaises
  <2>2. cur' = read + 1 /\ stream[cur'] = c
    BY <1>0, <2>1 DEF c
  <2>3. QED
    BY <1>0, <1>1, <2>2, TryRelayRaises DEF Commanded
<1>2. CASE c \in OpeningCommands /\ Goto("consume", "printing") /\ Stay /\ UNCHANGED relay
  <2>1. pc'["consume"] = "printing" /\ ~GoesUp
    BY <1>0, <1>2 DEF Goto, Stay, GoesUp
  <2>2. cur' = read + 1 /\ stream[cur'] = c
    BY <1>0, <2>1 DEF c
  <2>3. QED
    BY <1>0, <1>2, <2>1, <2>2 DEF Commanded
<1>3. CASE \E s \in Signals : Dispatch("consume", s)
  <2>1. ~GoesUp /\ (pc'["consume"] \in Raising => pc'["consume"] = "ready")
    BY <1>0, <1>3, DispatchRaisesNothing
  <2>2. QED
    BY <2>1 DEF Commanded, Raising
<1>4. CASE CmdRejectCard /\ UNCHANGED relay
  BY <1>0, <1>4 DEF CmdRejectCard, Stay, Goto, GoesUp, Commanded, Raising
<1>5. CASE CmdSend(c)
  BY <1>0, <1>5 DEF CmdSend, Stay, Done, Goto, GoesUp, Commanded, Raising
<1>6. CASE /\ Stay \/ Transition("IDLE")
           /\ Goto("consume", "display") \/ Goto("consume", "ready")
           /\ UNCHANGED relay
  BY <1>0, <1>6 DEF Stay, Transition, Goto, GoesUp, Commanded, Raising
<1>7. QED
  BY <1>0, <1>1, <1>2, <1>3, <1>4, <1>5, <1>6 DEF HandleCommand, CmdPrintTicketThenOpen,
     OpeningCommands

\* Every step keeps Commanded and raises the barrier for an opening command only.
LEMMA CommandedStep ==
    ASSUME TypeOK, Commanded, [Next]_vars
    PROVE  /\ Commanded'
           /\ GoesUp => /\ state' = "OPENING" /\ relay' = "open" /\ pc'["consume"] = "opened"
                        /\ cur' \in 1..Len(stream) /\ stream[cur'] \in OpeningCommands
<1>0. "consume" \in Tasks /\ pc \in [Tasks -> Labels] /\ Len(stream) \in Nat
  BY DEF TypeOK, Tasks
<1>a. ASSUME Indifferent
      PROVE  Commanded' /\ ~GoesUp
  BY <1>a, IndifferentKeeps
<1>b. ASSUME pc["consume"] \in Raising, UNCHANGED <<cur, stream>>, NEW l, NEW n, TryRelay(l, n)
      PROVE  /\ Commanded'
             /\ GoesUp => /\ state' = "OPENING" /\ relay' = "open" /\ pc'["consume"] = "opened"
                          /\ cur' \in 1..Len(stream) /\ stream[cur'] \in OpeningCommands
  BY <1>b, TryRelayRaises DEF Commanded
<1>1. ASSUME NEW t \in Tasks, AnyTaskStep(t) PROVE Indifferent
  <2>1. /\ state' = state \/ state' = "IDLE"
        /\ relay' = relay \/ relay' = "close"
        /\ UNCHANGED <<cur, stream>>
    BY <1>1 DEF AnyTaskStep, AfterDetected, AfterDisplay, AfterPassed, AfterHelp, AfterTicket,
       AfterRfid, AfterArm, DisplayAndClose, Transition, redisVars, history
  <2>2. \E label \in Labels \ Raising : Goto(t, label)
    BY <1>1 DEF AnyTaskStep, AfterDetected, AfterDisplay, AfterPassed, AfterHelp, AfterTicket,
       AfterRfid, AfterArm, Done, Labels, RedisAwaits, Raising
  <2>3. QED
    BY <1>0, <2>1, <2>2 DEF Indifferent, GoesUp, Goto
<1>2. CASE ReadCommand
  BY <1>2, ReadRaises
<1>3. CASE AfterRelay
  BY <1>3, <1>b DEF AfterRelay, Raising, redisVars
<1>4. CASE AfterPrinting
  BY <1>4, <1>b DEF AfterPrinting, Raising, redisVars
<1>5. CASE AfterOpened \/ AfterOpenFailed \/ AfterReject
  <2>1. Indifferent
    BY <1>0, <1>5 DEF AfterOpened, AfterOpenFailed, AfterReject, Done, Goto, Transition, redisVars,
       history, Indifferent, GoesUp, Raising
  <2>2. QED
    BY <2>1, <1>a
<1>6. CASE Ack
  BY <1>0, <1>6 DEF Ack, Goto, history, Commanded, GoesUp, Raising
<1>7. ASSUME NEW i \in Slots, TimerStep(i) \/ TimerRedisError(i) PROVE Indifferent
  BY <1>7 DEF TimerStep, ValidatingTimeout, VehiclePassTimer, TimerTail, TimerRedisError, Stay,
     DisplayAndClose, Transition, redisVars, history, Indifferent, GoesUp
<1>8. CASE PollSetup
  <2>1. Indifferent
    BY <1>0, <1>8 DEF PollSetup, Goto, redisVars, history, Indifferent, GoesUp
  <2>2. QED
    BY <2>1, <1>a
<1>9. CASE Reconnect \/ CooldownOver \/ LinkEOF \/ ControllerHeartbeat
  <2>1. Indifferent
    BY <1>9 DEF Reconnect, CooldownOver, LinkEOF, ControllerHeartbeat, redisVars, history,
       Indifferent, GoesUp
  <2>2. QED
    BY <2>1, <1>a
<1>10. CASE \E s \in Signals : Signal(s)
  <2>1. "poll" \in Tasks /\ UNCHANGED redisVars /\ \E s \in Signals : Dispatch("poll", s)
    BY <1>10 DEF Signal, Tasks
  <2>2. Indifferent
    BY <2>1, DispatchRaisesNothing DEF Indifferent, redisVars
  <2>3. QED
    BY <2>2, <1>a
<1>11. CASE SerialCardRead
  <2>1. Indifferent
    BY <1>0, <1>11 DEF SerialCardRead, OnRfidCardRead, Transition, Goto, redisVars, Indifferent, GoesUp
  <2>2. QED
    BY <2>1, <1>a
<1>12. ASSUME NEW t \in Tasks, RedisError(t) PROVE Commanded' /\ ~GoesUp
  BY <1>0, <1>12 DEF RedisError, Goto, history, Commanded, GoesUp, Raising
<1>13. CASE Restart
  BY <1>0, <1>13 DEF Restart, Transition, Commanded, GoesUp, Raising
<1>14. ASSUME NEW c \in CommandTypes, AddCommand(c) PROVE Commanded' /\ ~GoesUp
  <2>1. /\ UNCHANGED <<state, relay, pc, cur>>
        /\ Len(stream') = Len(stream) + 1 /\ \A k \in 1..Len(stream) : stream'[k] = stream[k]
    BY <1>14 DEF AddCommand, daemonVars, history, TypeOK
  <2>2. QED
    BY <1>0, <2>1 DEF Commanded, GoesUp
<1>15. CASE UNCHANGED vars
  <2>1. Indifferent
    BY <1>15 DEF vars, daemonVars, redisVars, history, Indifferent, GoesUp
  <2>2. QED
    BY <2>1, <1>a
<1>16. QED
  BY <1>a, <1>1, <1>2, <1>3, <1>4, <1>5, <1>6, <1>7, <1>8, <1>9, <1>10, <1>11, <1>12, <1>13, <1>14,
     <1>15 DEF Next, DaemonNext, Progress, ConsumerStep

\* A step raises the barrier for an opening command in its only run.
LEMMA BarrierStep ==
    ASSUME TypeOK, TypeOK', Commanded, RunsMatchDelivery', [Next]_vars
    PROVE  BarrierByCommand
<1> SUFFICES ASSUME GoesUp PROVE BarrierByCommand
  BY DEF BarrierByCommand
<1>1. cur' \in 1..Len(stream)
  BY CommandedStep
<1>2. Len(stream) \in 0..MaxCommands /\ cur' <= read'
  BY GateInAssumption DEF TypeOK
<1>3. runs'[cur'] = 1
  BY <1>1, <1>2, GateInAssumption DEF RunsMatchDelivery
<1>4. QED
  BY <1>3, CommandedStep DEF BarrierByCommand

\* The barrier goes up for a command of the API and for nothing else: no RSS
\* message, card, timer, reconnect, restart or failed write ever raises it, the
\* daemon and the controller agree at the moment it rises, and the command is
\* being run for the first and only time (gate_in.py _relay_open_reliable,
\* _on_gate_opened, handle_command).
THEOREM RaisedByCommand == Spec => [][BarrierByCommand]_vars
<1>1. Init => Commanded
  BY DEF Init, Commanded, Tasks, Raising
<1>2. TypeOK /\ Commanded /\ [Next]_vars => Commanded'
  BY CommandedStep
<1>3. TypeOK /\ TypeOK' /\ Commanded /\ RunsMatchDelivery' /\ [Next]_vars => [BarrierByCommand]_vars
  BY BarrierStep
<1>4. QED
  BY <1>1, <1>2, <1>3, TypeCorrect, RunsMatched, PTL DEF Spec

=============================================================================
