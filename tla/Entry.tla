-------------------------------- MODULE Entry --------------------------------
(***************************************************************************)
(* The entry lane end to end: the gate-in daemon of GateIn, the event      *)
(* consumer of the API (api/app/services/event_consumer.py) that answers   *)
(* its events, and the rows of parking_transactions between them.          *)
(*                                                                         *)
(* The daemon's events reach the consumer by Redis pub/sub: an event       *)
(* published while nobody is subscribed, and whatever a dying subscriber   *)
(* had not taken yet, is gone.  The consumer's commands reach the daemon   *)
(* by the gate's stream.  The consumer handles one event at a time; step   *)
(* names the await it is at:                                               *)
(*   listen    waiting for a message                                       *)
(*   lookup    reading the member and the card's unclosed transaction      *)
(*   warn      sending the expiry warning                                  *)
(*   insert    flushing and committing the new transaction                 *)
(*   reply, reject   publishing the command that answers the event         *)
(***************************************************************************)
EXTENDS GateIn, FiniteSets

CONSTANTS
    Membership,     \* what the members table says of each card
    ConsumerFaults, \* the faults of the consumer: "db", "redis", "crash", "listen"
    MaxTx           \* bound: entries ever asked for

ASSUME EntryAssumption ==
    /\ Membership \in [Cards -> {"unknown", "inactive", "expired", "expiring", "valid"}]
    /\ ConsumerFaults \subseteq {"db", "redis", "crash", "listen"}
    /\ {"open_gate", "print_ticket_then_open", "reject_card", "cosmetic"} \subseteq CommandTypes
    /\ MaxTx \in Nat

VARIABLES
    tx,         \* the committed rows, oldest first: card (if any) and status
    service,    \* the consumer process: up, deaf (its listener ended), down
    step,       \* the await the consumer is at: listen, lookup, warn, insert, reply, reject
    job,        \* the event being handled, as a sequence of at most one
    \* history
    cmdTx,      \* for each command of the stream, the row it was sent for or 0
    opens,      \* how often the barrier was opened
    asked       \* how often a button or a card asked for entry

consumerVars == <<tx, service, step, job, cmdTx, opens, asked>>
entryVars == <<vars, consumerVars>>

EntryInit ==
    /\ Init
    /\ tx = <<>> /\ service = "up" /\ step = "listen" /\ job = <<>>
    /\ cmdTx = <<>> /\ opens = 0 /\ asked = 0

-----------------------------------------------------------------------------
(* The daemon, with its events delivered exactly while the consumer listens *)

\* A button press or a card read is taken up.
Asks == state' \in {"PROCESSING", "VALIDATING"} /\ state' # state

PublishStep == \E t \in Tasks : AfterTicket(t) \/ AfterRfid(t)

Daemon ==
    /\ DaemonNext
    /\ service = "up" /\ "redis" \notin Faults /\ PublishStep => chan' # chan
    /\ service # "up" => chan' = chan
    /\ opens' = IF pc'["consume"] = "opened" /\ pc["consume"] # "opened"
                THEN opens + 1 ELSE opens
    /\ Asks => asked < MaxTx
    /\ asked' = IF Asks THEN asked + 1 ELSE asked
    /\ UNCHANGED <<tx, service, step, job, cmdTx>>

-----------------------------------------------------------------------------
(* The event consumer *)

JobCards == IF job[1].type = "rfid_card_read" THEN {job[1].card} ELSE {}

\* A row with one of these cards is still ACTIVE.
Unclosed(cards) ==
    \E i \in DOMAIN tx : tx[i].status = "ACTIVE" /\ tx[i].cards \cap cards # {}

\* publish_command: XADD of the commands cs, sent for row n.
Command(cs, n) ==
    /\ Len(stream) + Len(cs) <= MaxCommands
    /\ stream' = stream \o cs
    /\ cmdTx' = cmdTx \o [k \in 1..Len(cs) |-> n]

\* The handler returns to _listen.
EndJob == step' = "listen" /\ job' = <<>>

\* _listen hands the next message to _handle_message.
TakeEvent ==
    /\ service = "up" /\ step = "listen" /\ chan # <<>>
    /\ job' = <<Head(chan)>> /\ chan' = Tail(chan)
    /\ step' = IF Head(chan).type = "ticket_button_pressed" THEN "insert" ELSE "lookup"
    /\ UNCHANGED <<daemonVars, redisVars, history, tx, service, cmdTx, opens, asked>>

\* Unknown, inactive, expired or already inside: reject.  Otherwise create the
\* row, after a warning if the card is about to expire.
LookupCard ==
    /\ step = "lookup"
    /\ LET m == Membership[job[1].card]
       IN  step' = IF m \in {"unknown", "inactive", "expired"} \/ Unclosed(JobCards)
                   THEN "reject"
                   ELSE IF m = "expiring" THEN "warn" ELSE "insert"
    /\ UNCHANGED <<vars, tx, service, job, cmdTx, opens, asked>>

\* Display and audio, then six seconds of sleep.
WarnExpiry ==
    /\ step = "warn" /\ Command(<<"cosmetic", "cosmetic">>, 0) /\ step' = "insert"
    /\ UNCHANGED <<daemonVars, read, pel, cur, chan, history, tx, service, job, opens, asked>>

\* MUTANT of InsertRow: the reply is sent although the commit failed.
InsertRowNoCommit ==
    /\ step = "insert" /\ ~Unclosed(JobCards)
    /\ \/ tx' = Append(tx, [cards |-> JobCards, status |-> "ACTIVE"])
       \/ "db" \in ConsumerFaults /\ UNCHANGED tx
    /\ step' = "reply"
    /\ UNCHANGED <<vars, service, job, cmdTx, opens, asked>>

\* create_entry_transaction and commit, if uq_active_card lets the row in.
InsertRow ==
    /\ step = "insert" /\ ~Unclosed(JobCards)
    /\ tx' = Append(tx, [cards |-> JobCards, status |-> "ACTIVE"])
    /\ step' = "reply"
    /\ UNCHANGED <<vars, service, job, cmdTx, opens, asked>>

\* MUTANT of Reply: a cash entry is recorded and the command forgotten.
ReplyToCardsOnly ==
    /\ step = "reply"
    /\ IF job[1].type = "ticket_button_pressed"
       THEN UNCHANGED <<stream, cmdTx>>
       ELSE Command(<<"open_gate">>, Len(tx))
    /\ EndJob
    /\ UNCHANGED <<daemonVars, read, pel, cur, chan, history, tx, service, opens, asked>>

\* The answer that lets the vehicle in, after the commit.
Reply ==
    /\ step = "reply"
    /\ Command(<<IF job[1].type = "ticket_button_pressed"
                 THEN "print_ticket_then_open" ELSE "open_gate">>, Len(tx))
    /\ EndJob
    /\ UNCHANGED <<daemonVars, read, pel, cur, chan, history, tx, service, opens, asked>>

Reject ==
    /\ step = "reject" /\ Command(<<"reject_card">>, 0) /\ EndJob
    /\ UNCHANGED <<daemonVars, read, pel, cur, chan, history, tx, service, opens, asked>>

\* uq_active_card refuses the row: the card was noted on another ACTIVE row after
\* the lookup.  The exception is logged and the event dropped.
InsertRefused ==
    /\ step = "insert" /\ Unclosed(JobCards) /\ EndJob
    /\ UNCHANGED <<vars, tx, service, cmdTx, opens, asked>>

\* Any other exception inside a handler is logged and the event dropped: the
\* database or an XADD raises.
HandlerError ==
    /\ \/ step \in {"lookup", "insert"} /\ "db" \in ConsumerFaults
       \/ step \in {"warn", "reply", "reject"} /\ "redis" \in ConsumerFaults
    /\ EndJob
    /\ UNCHANGED <<vars, tx, service, cmdTx, opens, asked>>

\* pubsub.listen raises: _listen logs it and ends, the process stays alive.
ListenError ==
    /\ "listen" \in ConsumerFaults /\ service = "up" /\ step = "listen"
    /\ service' = "deaf" /\ chan' = <<>>
    /\ UNCHANGED <<daemonVars, redisVars, history, tx, step, job, cmdTx, opens, asked>>

\* The process dies at any await; undelivered events die with its socket.
ConsumerCrash ==
    /\ "crash" \in ConsumerFaults /\ service # "down"
    /\ service' = "down" /\ chan' = <<>> /\ EndJob
    /\ UNCHANGED <<daemonVars, redisVars, history, tx, cmdTx, opens, asked>>

ConsumerStart ==
    /\ service = "down" /\ service' = "up"
    /\ UNCHANGED <<vars, tx, step, job, cmdTx, opens, asked>>

ConsumerWork ==
    \/ TakeEvent \/ LookupCard \/ WarnExpiry \/ InsertRow \/ InsertRefused
    \/ Reply \/ Reject

\* The vehicle of row i leaves: the exit lane completes its transaction.
Exit(i) ==
    /\ tx[i].status = "ACTIVE"
    /\ tx' = [tx EXCEPT ![i].status = "COMPLETED"]
    /\ UNCHANGED <<vars, service, step, job, cmdTx, opens, asked>>

\* An e-money deduction at the exit fails: its card is noted on row i, which
\* stays ACTIVE (process_emoney_result), unless the unique index refuses it.
NoteCard(i, c) ==
    /\ tx[i].status = "ACTIVE"
    /\ \A j \in DOMAIN tx \ {i} : tx[j].status = "ACTIVE" => c \notin tx[j].cards
    /\ tx' = [tx EXCEPT ![i].cards = {c}]
    /\ UNCHANGED <<vars, service, step, job, cmdTx, opens, asked>>

-----------------------------------------------------------------------------

EntryNext ==
    \/ Daemon
    \/ ConsumerWork \/ HandlerError \/ ListenError \/ ConsumerCrash \/ ConsumerStart
    \/ \E i \in DOMAIN tx : Exit(i) \/ \E c \in Cards : NoteCard(i, c)

EntrySpec == EntryInit /\ [][EntryNext]_entryVars

\* asyncio resumes every task whose await completed, in the daemon and in the
\* consumer, every sleep ends, and systemd starts the consumer again.
EntryFairness ==
    /\ \A t \in Tasks : WF_entryVars(Daemon /\ AnyTaskStep(t))
    /\ WF_entryVars(Daemon /\ ConsumerStep)
    /\ \A i \in Slots : WF_entryVars(Daemon /\ TimerStep(i))
    /\ WF_entryVars(Daemon /\ (PollSetup \/ Reconnect \/ CooldownOver))
    /\ WF_entryVars(ConsumerWork) /\ WF_entryVars(ConsumerStart)

EntryFairSpec == EntrySpec /\ EntryFairness

-----------------------------------------------------------------------------
(* Properties *)

\* The barrier is never opened more often than entries were recorded, whatever
\* crashes, lost events and failed commits happen: an opening always has a
\* committed transaction of its own (event_consumer.py commits before
\* publish_command; base.py hands a command over at most once).
OpensOnRecord == opens <= Len(tx)

\* Each row lets at most one vehicle in: no two opening commands were sent for
\* the same row, and none without one (event_consumer.py
\* _handle_ticket_button_pressed, _handle_rfid_card_read).
OneAdmissionPerRow ==
    \A j, k \in DOMAIN stream :
        stream[j] \in {"open_gate", "print_ticket_then_open"} =>
            /\ cmdTx[j] \in DOMAIN tx
            /\ j # k => cmdTx[j] # cmdTx[k]

\* A pressed ticket button is answered and the gate leaves PROCESSING
\* (gate_in.py _on_ticket_button_pressed has no timeout of its own).
ProcessingEnds == state = "PROCESSING" ~> state # "PROCESSING"

=============================================================================
