------------------------------- MODULE GateIn -------------------------------
(***************************************************************************)
(* The gate-in daemon (daemons/gate_in.py on daemons/base.py).             *)
(*                                                                         *)
(* One asyncio event loop runs the RSS listener ("poll"), the Redis command *)
(* consumer ("consume"), an optional serial card reader ("rfid_serial")    *)
(* and the timers the handlers spawn.  A step of the model is what one     *)
(* task executes between two awaits that really suspend: a Redis call, a   *)
(* sleep, a read.  Writes to the controller do not suspend.                *)
(*                                                                         *)
(* pc[t] names the await at which task t is suspended:                     *)
(*   setup, dead   the listener before its loop, and after it died         *)
(*   ready         waiting for input (recv, xreadgroup, readline)          *)
(*   detected, display, passed, ticket, rfid, arm, opened, open_failed     *)
(*                 inside the Redis calls of the handler of that name      *)
(*   help, reject, relay, printing   inside a sleep                        *)
(*   ack           the command's handler returned True: xack               *)
(***************************************************************************)
EXTENDS ControllerLink, Sequences

CONSTANTS
    RelayMode,      \* relay_mode of the gate: SINGLE, DUAL or TRIPLE
    RelayAttempts,  \* attempts of _relay_open_reliable
    HasRfid,        \* hardware_config.rfid.enabled
    SerialRfid,     \* the reader is attached by direct_serial
    HasPrinter,     \* hardware_config.ticket_printer.enabled
    Signals,        \* the RSS messages the controller may push
    CommandTypes,   \* the commands other processes may add to the stream
    Cards,          \* card numbers
    MaxCommands,    \* bound: commands ever added to the stream
    MaxTimers,      \* bound: timer tasks alive at once
    MaxChan         \* bound: events the subscriber has not taken yet

AllSignals == {"IN1ON", "IN1OFF", "IN2ON", "IN3ON", "IN4ON", "IN4OFF", "W"}

AllCommands ==
    {"open_gate", "close_gate", "brake_gate", "cosmetic", "reject_card",
     "print_ticket_then_open", "reset_gate", "inject_rss", "ignored",
     "malformed"}

ASSUME GateInAssumption ==
    /\ RelayMode \in {"SINGLE", "DUAL", "TRIPLE"}
    /\ RelayAttempts \in Nat \ {0}
    /\ HasRfid \in BOOLEAN /\ SerialRfid \in BOOLEAN /\ HasPrinter \in BOOLEAN
    /\ Signals \subseteq AllSignals
    /\ CommandTypes \subseteq AllCommands
    /\ MaxCommands \in Nat /\ MaxTimers \in Nat \ {0} /\ MaxChan \in Nat

VARIABLES
    state,      \* self.state
    in1_on,     \* self._in1_on
    pc,         \* where each task is suspended
    tries,      \* failed attempts of the running _relay_open_reliable
    timer,      \* the timer tasks: what each slot is waiting for
    valTask,    \* slot of self._validating_task, 0 if none or done
    link,       \* the controller link and its breaker
    stream,     \* the gate's command stream in Redis, never trimmed here
    read,       \* last-delivered-id of the consumer group
    pel,        \* delivered and not acknowledged
    cur,        \* the command being processed, 0 if none
    chan,       \* events on the pub/sub channel that the API consumes
    \* history variables, read by no guard
    runs,       \* how often each command was handed to handle_command
    relay       \* the last barrier command that reached the controller

daemonVars == <<state, in1_on, pc, tries, timer, valTask, link>>
redisVars  == <<stream, read, pel, cur>>
history    == <<runs, relay>>
vars       == <<daemonVars, redisVars, chan, history>>

Tasks  == {"poll", "consume", "rfid_serial"}
States == {"IDLE", "WAITING_INPUT", "VALIDATING", "PROCESSING", "OPENING"}
Slots  == 1..MaxTimers

\* Awaits of a Redis call, where a lost connection raises.
RedisAwaits == {"detected", "display", "passed", "ticket", "rfid", "arm",
                "opened", "open_failed", "help", "ack"}

Labels == RedisAwaits \cup {"setup", "dead", "ready", "reject", "relay",
                            "printing"}

TimerStates == {"off", "validating", "passing", "display", "passed"}

Events == [type : {"ticket_button_pressed"}]
            \cup [type : {"rfid_card_read"}, card : Cards]

TypeOK ==
    /\ state \in States
    /\ in1_on \in BOOLEAN
    /\ pc \in [Tasks -> Labels]
    /\ tries \in 0..(RelayAttempts - 1)
    /\ timer \in [Slots -> TimerStates]
    /\ valTask \in Slots \cup {0}
    /\ link \in Link
    /\ stream \in Seq(CommandTypes) /\ Len(stream) <= MaxCommands
    /\ read \in 0..Len(stream)
    /\ pel \subseteq 1..read
    /\ cur \in 0..read
    /\ chan \in Seq(Events)
    /\ runs \in [1..MaxCommands -> Nat]
    /\ relay \in {"none", "open", "close"}

Init ==
    /\ state = "IDLE"
    /\ in1_on = FALSE
    /\ pc = [t \in Tasks |-> IF t = "poll" THEN "setup" ELSE "ready"]
    /\ tries = 0
    /\ timer = [i \in Slots |-> "off"]
    /\ valTask = 0
    /\ link \in {FreshLink(b) : b \in BOOLEAN}
    /\ stream = <<>> /\ read = 0 /\ pel = {} /\ cur = 0
    /\ chan = <<>>
    /\ runs = [i \in 1..MaxCommands |-> 0]
    /\ relay = "none"

-----------------------------------------------------------------------------
(* Building blocks of the handlers *)

Goto(t, label) == pc' = [pc EXCEPT ![t] = label]

\* The handler returned: the consumer goes on to xack, the others to their read.
Done(t) == Goto(t, IF t = "consume" THEN "ack" ELSE "ready")

\* _transition: the state is set before the first await, in which _persist_state
\* writes it to Redis; what _recover_state reads at a start, Restart overrides.
Transition(s) == state' = s

Stay == UNCHANGED state

SendBestEffort(n) == link' \in SendOutcomes(link, n)

\* publish_event reaches a connected subscriber or nobody; the taking of an
\* event belongs to the subscriber (Entry).
Publish(e) ==
    \/ UNCHANGED chan
    \/ Len(chan) < MaxChan /\ chan' = Append(chan, e)

\* _spawn_tracked of a timer, in the first free slot.
Spawn(i, kind) ==
    /\ timer[i] = "off"
    /\ \A j \in Slots : timer[j] = "off" => i <= j
    /\ timer' = [timer EXCEPT ![i] = kind]

ClosesRelay == RelayMode \in {"DUAL", "TRIPLE"}

\* display, then _relay_close, which only dual and triple relay gates have.
DisplayAndClose ==
    /\ SendBestEffort(IF ClosesRelay THEN 2 ELSE 1)
    /\ relay' = IF ClosesRelay /\ Sendable(link) /\ link'.up
                THEN "close" ELSE relay

-----------------------------------------------------------------------------
(* Handlers of _dispatch_rss_message, in the task t that dispatches.  Each *)
(* first acknowledges the message to the controller.                       *)

OnVehicleDetected(t) ==
    /\ Transition("WAITING_INPUT") /\ Goto(t, "detected") /\ SendBestEffort(1)

\* _on_vehicle_backed_up and _on_reset
BackToIdle(t) ==
    /\ Transition("IDLE") /\ Goto(t, "display") /\ SendBestEffort(1)

OnVehiclePassed(t) ==
    /\ Transition("IDLE") /\ Goto(t, "passed") /\ SendBestEffort(1)

OnTicketButtonPressed(t) ==
    /\ Transition("PROCESSING") /\ Goto(t, "ticket") /\ SendBestEffort(1)

\* acknowledge, play audio and display before the first await
OnHelpButton(t) ==
    /\ Stay /\ Goto(t, "help") /\ SendBestEffort(3)

OnRfidCardRead(t, n) ==
    /\ Transition("VALIDATING") /\ Goto(t, "rfid") /\ SendBestEffort(n)

Ignored(t) == Stay /\ Done(t) /\ SendBestEffort(1)

Handler(t, s) ==
    CASE s = "IN1ON" /\ state = "IDLE"                     -> OnVehicleDetected(t)
      [] s = "IN1OFF" /\ state = "WAITING_INPUT"           -> BackToIdle(t)
      [] s = "IN1OFF" /\ state = "OPENING"                 -> OnVehiclePassed(t)
      [] s = "IN2ON" /\ in1_on /\ state = "WAITING_INPUT"  -> OnTicketButtonPressed(t)
      [] s = "IN3ON" /\ state = "WAITING_INPUT"            -> OnHelpButton(t)
      [] s = "IN4ON" /\ state = "WAITING_INPUT"            -> BackToIdle(t)
      [] s \in {"IN4ON", "IN4OFF"} /\ state = "OPENING"    -> OnVehiclePassed(t)
      [] s = "W" /\ HasRfid /\ state = "WAITING_INPUT"     -> OnRfidCardRead(t, 1)
      [] OTHER                                             -> Ignored(t)

Dispatch(t, s) ==
    /\ in1_on' = CASE s = "IN1ON"  -> TRUE
                   [] s = "IN1OFF" -> FALSE
                   [] OTHER        -> in1_on
    /\ Handler(t, s)
    /\ UNCHANGED <<tries, timer, valTask, relay>>

-----------------------------------------------------------------------------
(* What each handler does after an await, in whatever task t runs it *)

AfterDetected(t) ==
    /\ pc[t] = "detected" /\ Done(t) /\ SendBestEffort(2)
    /\ UNCHANGED <<state, in1_on, tries, timer, valTask, redisVars, chan, history>>

AfterDisplay(t) ==
    /\ pc[t] = "display" /\ Done(t) /\ SendBestEffort(1)
    /\ UNCHANGED <<state, in1_on, tries, timer, valTask, redisVars, chan, history>>

AfterPassed(t) ==
    /\ pc[t] = "passed" /\ Done(t) /\ DisplayAndClose
    /\ UNCHANGED <<state, in1_on, tries, timer, valTask, redisVars, chan,
                   runs>>

\* The ten-second hold of the help button ends: back to IDLE, from any state.
AfterHelp(t) ==
    /\ pc[t] = "help" /\ Transition("IDLE") /\ Goto(t, "display")
    /\ UNCHANGED <<in1_on, tries, timer, valTask, link, redisVars, chan,
                   runs, relay>>

AfterTicket(t) ==
    /\ pc[t] = "ticket" /\ Done(t)
    /\ Publish([type |-> "ticket_button_pressed"])
    /\ UNCHANGED <<state, in1_on, tries, timer, valTask, link, redisVars, history>>

AfterRfid(t) ==
    /\ pc[t] = "rfid" /\ Goto(t, "arm")
    /\ \E c \in Cards : Publish([type |-> "rfid_card_read", card |-> c])
    /\ UNCHANGED <<state, in1_on, tries, timer, valTask, link, redisVars, history>>

\* The card event is out: start _validating_timeout and remember it.
AfterArm(t) ==
    /\ pc[t] = "arm" /\ Done(t)
    /\ \E i \in Slots : Spawn(i, "validating") /\ valTask' = i
    /\ UNCHANGED <<state, in1_on, tries, link, redisVars, chan, runs, relay>>

-----------------------------------------------------------------------------
(* The RSS listener and the other users of the link *)

PollSetup ==
    /\ pc["poll"] = "setup"
    /\ \/ Goto("poll", "ready")
       \* the first RSS write raises outside the listener's try block
       \/ link.up /\ "send" \in Faults /\ Goto("poll", "dead")
    /\ UNCHANGED <<state, in1_on, tries, timer, valTask, link, redisVars, chan, history>>

Signal(s) ==
    /\ pc["poll"] = "ready" /\ link.up
    /\ Dispatch("poll", s)
    /\ UNCHANGED <<redisVars, chan, runs>>

LinkEOF ==
    /\ pc["poll"] = "ready" /\ link.up /\ "send" \in Faults
    /\ link' = [link EXCEPT !.up = FALSE]
    /\ UNCHANGED <<state, in1_on, pc, tries, timer, valTask, redisVars, chan, history>>

\* The listener's reconnect; if the RSS write on the new socket raises, the
\* breaker is not cleared.
Reconnect ==
    /\ pc["poll"] = "ready" /\ ~link.up
    /\ \/ link' = FreshLink(TRUE)
       \/ "send" \in Faults /\ link' = [link EXCEPT !.up = TRUE]
    /\ UNCHANGED <<state, in1_on, pc, tries, timer, valTask, redisVars, chan, history>>

\* The STAT keep-alive every five seconds.
ControllerHeartbeat ==
    /\ link.up /\ SendBestEffort(1)
    /\ UNCHANGED <<state, in1_on, pc, tries, timer, valTask, redisVars, chan, history>>

CooldownOver ==
    /\ link.open /\ link' = [link EXCEPT !.open = FALSE]
    /\ UNCHANGED <<state, in1_on, pc, tries, timer, valTask, redisVars, chan, history>>

SerialCardRead ==
    /\ SerialRfid /\ HasRfid
    /\ pc["rfid_serial"] = "ready" /\ state = "WAITING_INPUT"
    /\ OnRfidCardRead("rfid_serial", 0)
    /\ UNCHANGED <<in1_on, tries, timer, valTask, redisVars, chan, runs, relay>>

-----------------------------------------------------------------------------
(* The timers *)

\* MUTANT of Finish: the handle of a finished task is kept (no .done() check).
FinishKeepsHandle(i) ==
    timer' = [timer EXCEPT ![i] = "off"] /\ UNCHANGED valTask

Finish(i) ==
    /\ timer' = [timer EXCEPT ![i] = "off"]
    /\ valTask' = IF valTask = i THEN 0 ELSE valTask

ValidatingTimeout(i) ==
    /\ timer[i] = "validating"
    /\ IF state = "VALIDATING"
       THEN /\ Transition("IDLE")
            /\ timer' = [timer EXCEPT ![i] = "display"]
            /\ UNCHANGED valTask
       ELSE Finish(i) /\ Stay
    /\ UNCHANGED <<in1_on, pc, tries, link, redisVars, chan, runs, relay>>

VehiclePassTimer(i) ==
    /\ timer[i] = "passing"
    /\ IF state = "OPENING"
       THEN /\ Transition("IDLE")
            /\ timer' = [timer EXCEPT ![i] = "passed"]
            /\ UNCHANGED valTask
       ELSE Finish(i) /\ Stay
    /\ UNCHANGED <<in1_on, pc, tries, link, redisVars, chan, runs, relay>>

TimerTail(i) ==
    /\ \/ timer[i] = "display" /\ SendBestEffort(1) /\ UNCHANGED relay
       \/ timer[i] = "passed" /\ DisplayAndClose
    /\ Finish(i)
    /\ UNCHANGED <<state, in1_on, pc, tries, redisVars, chan, runs>>

-----------------------------------------------------------------------------
(* handle_command, in the consumer task *)

\* MUTANT of TryRelay: the attempt counter is compared one too late.
TryRelayOneTooMany(l, n) ==
    \/ /\ Sendable(l)
       /\ link' \in SendOutcomes(Landed(l), 1)
       /\ relay' = "open" /\ tries' = 0
       /\ Transition("OPENING") /\ Goto("consume", "opened")
    \/ /\ link' \in LostSend(l)
       /\ UNCHANGED relay /\ Stay
       /\ IF n <= RelayAttempts
          THEN tries' = n /\ Goto("consume", "relay")
          ELSE tries' = 0 /\ Goto("consume", "open_failed")

\* One attempt of _relay_open_reliable on link l, the n-th of this open.
\* When the write lands: audio, then _on_gate_opened up to its first await.
TryRelay(l, n) ==
    \/ /\ Sendable(l)
       /\ link' \in SendOutcomes(Landed(l), 1)
       /\ relay' = "open"
       /\ tries' = 0
       /\ Transition("OPENING") /\ Goto("consume", "opened")
    \/ /\ link' \in LostSend(l)
       /\ UNCHANGED relay /\ Stay
       /\ IF n < RelayAttempts
          THEN tries' = n /\ Goto("consume", "relay")
          ELSE tries' = 0 /\ Goto("consume", "open_failed")

\* _cmd_reject_card up to its sleep: the latest validation timer is cancelled.
CmdRejectCard ==
    /\ IF valTask = 0 THEN UNCHANGED timer
                      ELSE timer' = [timer EXCEPT ![valTask] = "off"]
    /\ valTask' = 0
    /\ SendBestEffort(2) /\ Stay /\ Goto("consume", "reject")

\* The print write is best-effort too: its result is not looked at.
CmdPrintTicketThenOpen ==
    \/ /\ ~HasPrinter
       /\ \E l \in SendOutcomes(link, 1) : TryRelay(l, 1)
    \/ /\ HasPrinter
       /\ SendBestEffort(1)
       /\ Goto("consume", "printing") /\ Stay
       /\ UNCHANGED <<tries, relay>>

\* _relay_close, _relay_brake, _cmd_play_audio and _cmd_display_text; and, as
\* "ignored", _cmd_print_ticket, which only enqueues a job
CmdSend(c) ==
    /\ SendBestEffort(CASE c = "close_gate" -> IF ClosesRelay THEN 1 ELSE 0
                        [] c = "brake_gate" -> IF RelayMode = "TRIPLE" THEN 1 ELSE 0
                        [] c = "cosmetic"   -> 1
                        [] OTHER            -> 0)
    /\ relay' = IF c = "close_gate" /\ ClosesRelay /\ Sendable(link) /\ link'.up
                THEN "close" ELSE relay
    /\ Stay /\ Done("consume")

HandleCommand(c) ==
    \/ /\ c = "open_gate" /\ TryRelay(link, 1)
       /\ UNCHANGED <<in1_on, timer, valTask>>
    \/ /\ c = "print_ticket_then_open" /\ CmdPrintTicketThenOpen
       /\ UNCHANGED <<in1_on, timer, valTask>>
    \/ /\ c = "reject_card" /\ CmdRejectCard
       /\ UNCHANGED <<in1_on, tries, relay>>
    \/ /\ c = "reset_gate" /\ Transition("IDLE") /\ Goto("consume", "display")
       /\ UNCHANGED <<in1_on, tries, timer, valTask, link, relay>>
    \/ /\ c = "inject_rss" /\ \E s \in Signals : Dispatch("consume", s)
    \/ /\ c \in {"close_gate", "brake_gate", "cosmetic", "ignored"} /\ CmdSend(c)
       /\ UNCHANGED <<in1_on, tries, timer, valTask>>
    \* a field that does not parse: handle_command returns False, no xack
    \/ /\ c = "malformed" /\ Goto("consume", "ready") /\ Stay
       /\ UNCHANGED <<in1_on, tries, timer, valTask, link, relay>>

\* MUTANT of ReadCommand: the group reads with NOACK.
ReadCommandNoAck ==
    /\ pc["consume"] = "ready" /\ read < Len(stream)
    /\ read' = read + 1
    /\ runs' = [runs EXCEPT ![read + 1] = @ + 1]
    /\ HandleCommand(stream[read + 1])
    /\ cur' = IF pc'["consume"] = "ready" THEN 0 ELSE read + 1
    /\ UNCHANGED <<stream, pel, chan>>

\* xreadgroup(">") delivers the next entry, which is handled at once.
ReadCommand ==
    /\ pc["consume"] = "ready" /\ read < Len(stream)
    /\ read' = read + 1
    /\ pel' = pel \cup {read + 1}
    /\ runs' = [runs EXCEPT ![read + 1] = @ + 1]
    /\ HandleCommand(stream[read + 1])
    /\ cur' = IF pc'["consume"] = "ready" THEN 0 ELSE read + 1
    /\ UNCHANGED <<stream, chan>>

AfterRelay ==
    /\ pc["consume"] = "relay" /\ TryRelay(link, tries + 1)
    /\ UNCHANGED <<in1_on, timer, valTask, redisVars, chan, runs>>

AfterPrinting ==
    /\ pc["consume"] = "printing"
    /\ \E l \in SendOutcomes(link, 1) : TryRelay(l, 1)
    /\ UNCHANGED <<in1_on, timer, valTask, redisVars, chan, runs>>

\* MUTANT of AfterOpened: no pass timer is started.
AfterOpenedNoTimer ==
    /\ pc["consume"] = "opened" /\ Done("consume")
    /\ UNCHANGED <<state, in1_on, tries, timer, valTask, link, redisVars, chan, history>>

\* gate_opened is published: start _vehicle_pass_timer.
AfterOpened ==
    /\ pc["consume"] = "opened" /\ Done("consume")
    /\ \E i \in Slots : Spawn(i, "passing")
    /\ UNCHANGED <<state, in1_on, tries, valTask, link, redisVars, chan,
                   runs, relay>>

AfterOpenFailed ==
    /\ pc["consume"] = "open_failed" /\ Done("consume")
    /\ UNCHANGED <<state, in1_on, tries, timer, valTask, link, redisVars, chan, history>>

\* MUTANT of AfterReject: the state is left as it was.
AfterRejectNoTransition ==
    /\ pc["consume"] = "reject" /\ Goto("consume", "display")
    /\ UNCHANGED <<state, in1_on, tries, timer, valTask, link, redisVars, chan, history>>

\* The rejection was shown long enough: WAITING_INPUT, from any state.
AfterReject ==
    /\ pc["consume"] = "reject"
    /\ Transition("WAITING_INPUT") /\ Goto("consume", "display")
    /\ UNCHANGED <<in1_on, tries, timer, valTask, link, redisVars, chan,
                   runs, relay>>

Ack ==
    /\ pc["consume"] = "ack" /\ Goto("consume", "ready")
    /\ pel' = pel \ {cur} /\ cur' = 0
    /\ UNCHANGED <<state, in1_on, tries, timer, valTask, link, stream, read,
                   chan, history>>

-----------------------------------------------------------------------------
(* Faults and the environment *)

\* A Redis call raises: the handler is abandoned where it stands.
RedisError(t) ==
    /\ "redis" \in Faults /\ pc[t] \in RedisAwaits
    /\ Goto(t, "ready")
    /\ cur' = IF t = "consume" THEN 0 ELSE cur
    /\ UNCHANGED <<state, in1_on, tries, timer, valTask, link, stream, read, pel,
                   chan, history>>

TimerRedisError(i) ==
    /\ "redis" \in Faults /\ timer[i] \in {"display", "passed"}
    /\ Finish(i)
    /\ UNCHANGED <<state, in1_on, pc, tries, link, redisVars, chan, history>>

\* MUTANT of Restart: the consumer group is created anew from id 0.
RestartFromZero ==
    /\ "crash" \in Faults
    /\ Transition("IDLE")
    /\ in1_on' = FALSE
    /\ pc' = [t \in Tasks |-> IF t = "poll" THEN "setup" ELSE "ready"]
    /\ tries' = 0 /\ timer' = [i \in Slots |-> "off"] /\ valTask' = 0
    /\ link' \in {FreshLink(b) : b \in BOOLEAN}
    /\ read' = 0 /\ pel' = {} /\ cur' = 0
    /\ UNCHANGED <<stream, chan, runs, relay>>

\* The process dies and systemd starts it again: the persisted state is
\* recovered and, whatever it is, _on_started moves to IDLE.
Restart ==
    /\ "crash" \in Faults
    /\ Transition("IDLE")
    /\ in1_on' = FALSE
    /\ pc' = [t \in Tasks |-> IF t = "poll" THEN "setup" ELSE "ready"]
    /\ tries' = 0
    /\ timer' = [i \in Slots |-> "off"]
    /\ valTask' = 0
    /\ link' \in {FreshLink(b) : b \in BOOLEAN}
    /\ cur' = 0
    /\ UNCHANGED <<stream, read, pel, chan, runs, relay>>

\* publish_command by the API: XADD to the gate's stream.
AddCommand(c) ==
    /\ Len(stream) < MaxCommands
    /\ stream' = Append(stream, c)
    /\ UNCHANGED <<daemonVars, read, pel, cur, chan, history>>

-----------------------------------------------------------------------------

AnyTaskStep(t) ==
    \/ AfterDetected(t) \/ AfterDisplay(t) \/ AfterPassed(t) \/ AfterHelp(t)
    \/ AfterTicket(t) \/ AfterRfid(t) \/ AfterArm(t)

ConsumerStep ==
    \/ ReadCommand \/ AfterRelay \/ AfterPrinting \/ AfterOpened
    \/ AfterOpenFailed \/ AfterReject \/ Ack

TimerStep(i) == ValidatingTimeout(i) \/ VehiclePassTimer(i) \/ TimerTail(i)

\* Steps the event loop and the clock are bound to take.
Progress ==
    \/ \E t \in Tasks : AnyTaskStep(t)
    \/ ConsumerStep
    \/ \E i \in Slots : TimerStep(i)
    \/ PollSetup \/ Reconnect \/ CooldownOver

DaemonNext ==
    \/ Progress
    \/ \E s \in Signals : Signal(s)
    \/ LinkEOF \/ ControllerHeartbeat \/ SerialCardRead
    \/ \E t \in Tasks : RedisError(t)
    \/ \E i \in Slots : TimerRedisError(i)
    \/ Restart

Next ==
    \/ DaemonNext
    \/ \E c \in CommandTypes : AddCommand(c)

Spec == Init /\ [][Next]_vars

-----------------------------------------------------------------------------
(* Properties *)

\* A VALIDATING gate always has a way out in hand: a card handler that has yet
\* to arm the timeout, an armed _validating_timeout, or a reject_card that has
\* cancelled it and will itself leave VALIDATING (gate_in.py _on_rfid_card_read,
\* _validating_timeout, _cmd_reject_card).
ValidatingHasExit ==
    state = "VALIDATING" =>
        \/ \E t \in Tasks : pc[t] \in {"rfid", "arm"}
        \/ \E i \in Slots : timer[i] = "validating"
        \/ pc["consume"] = "reject"

\* An OPENING gate always has the pass timer running, or the open handler that
\* is about to start it (gate_in.py _on_gate_opened, _vehicle_pass_timer).
OpeningHasExit ==
    state = "OPENING" =>
        \/ pc["consume"] = "opened"
        \/ \E i \in Slots : timer[i] = "passing"

\* Both: no state the gate waits in is left without something that will end it
\* (gate_in.py _validating_timeout, _vehicle_pass_timer).
HasExit == ValidatingHasExit /\ OpeningHasExit

\* The task that reject_card may cancel is a validation timeout: a rejection
\* never kills the pass timer of an open gate (gate_in.py _validating_task).
RejectCancelsValidation ==
    valTask # 0 => timer[valTask] \in {"validating", "display"}

\* No command is handed to the daemon twice, crashes and failed handlers
\* included: "a stale open must not be redelivered later", "no double-print
\* risk" (gate_in.py _cmd_open_gate, _cmd_print_ticket_then_open).
AtMostOnce == \A i \in 1..MaxCommands : runs[i] <= 1

\* Exactly the delivered commands were handed over, each once: the inductive
\* form of AtMostOnce.
RunsMatchDelivery ==
    \A i \in 1..MaxCommands : runs[i] = IF i <= read THEN 1 ELSE 0

\* An acknowledged command is one whose handler returned: the command being
\* processed is still in the pending list, so a crash leaves a trace of it.
PendingUntilHandled == cur # 0 => cur \in pel

\* The breaker is open only while the failures that opened it still count; a
\* reconnect or a landed write clears both (gate_in.py _send_controller_command,
\* _rss_listener).
BreakerConsistent == link.open => link.fails = CbThreshold

\* An open gate goes back to waiting: by the sensors or by _vehicle_pass_timer
\* the daemon leaves OPENING (gate_in.py _vehicle_pass_timer).
OpeningEnds == state = "OPENING" ~> state # "OPENING"

\* A card read is always answered, by the API or by _validating_timeout.
ValidatingEnds == state = "VALIDATING" ~> state # "VALIDATING"

-----------------------------------------------------------------------------
(* What the documents and comments of the repository say, and the code does not *)

\* daemons/gate_in.py:479: "the daemon must not believe a closed barrier is open".
BelievedOpenIsOpen == state = "OPENING" => relay = "open"

=============================================================================
