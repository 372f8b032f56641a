-------------------------------- MODULE Booth --------------------------------
(***************************************************************************)
(* The booth bridge, one process on the exit booth's PC: the WebSocket     *)
(* server the POS talks to, the serial ports of the e-money reader and the *)
(* receipt printer, the relay that raises the barrier, the poller of the   *)
(* member card reader, and the refresher that follows the gate's row in    *)
(* the API.  The coroutines share one event loop; the serial exchanges and *)
(* the relay run in threads of their own.                                  *)
(*                                                                         *)
(* client[c], where the handler of POS client c stands:                    *)
(*   away      not connected            idle     waiting for a message     *)
(*   claim     before the device's lock                                    *)
(*   write, read      the first attempt, rewrite, reread  the second one   *)
(*   got       the answer read, back on the event loop                     *)
(*   gate      awaiting gate_opener.open()                                 *)
(* poller: none, off (no device), on, api (rfid_exit under way), tell,     *)
(* deny (broadcasting an exit, a refusal), open (awaiting the opener),     *)
(* dead.                                                                   *)
(***************************************************************************)
EXTENDS Integers, Sequences, FiniteSets

CONSTANTS
    Clients,      \* POS clients
    MaxClients,   \* the server's cap on connected clients
    Actions,      \* the actions the clients ask for
    Statuses,     \* what the reader answers to a deduction
    BoothCards,   \* member cards tapped at the booth
    GateRows,     \* the gate's row as the admin may save it
    BoothFaults,  \* "io", "reopen", "relay", "api", "unplug", "crash"
    MaxInputs,    \* bound: requests, taps, edits of the row and crashes in all
    None

AllActions == {"open_gate", "emoney_check_balance", "emoney_deduct", "print_receipt"}

\* What decides about a row: an open command, a close command with a delay, and
\* whether the member card reader is enabled.
GateRow == [open : BOOLEAN, close : BOOLEAN, reader : BOOLEAN]

\* A frame in the reader is named by its action; an answer carries the action it
\* answers and a status.
ReaderAction == {"emoney_check_balance", "emoney_deduct"}
Answer == [to : ReaderAction, status : Statuses]

ASSUME BoothAssumption ==
    /\ IsFiniteSet(Clients) /\ MaxClients \in Nat /\ MaxInputs \in Nat
    /\ Actions \subseteq AllActions
    /\ GateRows \subseteq GateRow
    /\ "SUCCESS" \in Statuses
    /\ Clients \cap {"pay", "card"} = {}
    /\ None \notin Clients \cup BoothCards \cup Actions \cup Answer

VARIABLES
    \* the WebSocket server
    client, asks, answer, posts,
    \* the serial manager and the devices behind it
    holder, port, reader, buffer,
    \* the openers built so far and who refers to which (0 for none)
    openers, live, wsOpener, pollOpener,
    \* calls of open() on any opener, in order of arrival, and the barrier
    opening, barrier,
    \* the poller of the member card reader
    poller, last, taps, audience,
    \* the gate's row in the database
    row,
    \* history: inputs so far, what entitles to an automatic opening, the
    \* automatic openings, and the charges the API was told of
    inputs, due, opened, booked

serverVars == <<client, asks, answer, posts>>
serialVars == <<holder, port, reader, buffer>>
openerVars == <<openers, live, wsOpener, pollOpener>>
relayVars  == <<opening, barrier>>
pollerVars == <<poller, last, taps, audience>>
history    == <<inputs, due, opened, booked>>
vars == <<serverVars, serialVars, openerVars, relayVars, pollerVars, row, history>>

Devices == {"emoney_reader", "receipt_printer"}

\* The device an action needs.
Device(a) == IF a = "print_receipt" THEN "receipt_printer" ELSE "emoney_reader"

Busy == {"claim", "write", "read", "rewrite", "reread", "got", "gate"}
OnWire == {"write", "read", "rewrite", "reread"}

\* What may wait for an opener: a client, a paid deduction, the poller.
Callers == Clients \cup {"pay", "card"}

TypeOK ==
    /\ client \in [Clients -> Busy \cup {"away", "idle"}]
    /\ asks \in [Clients -> Actions \cup {None}]
    /\ answer \in [Clients -> Answer \cup {None}]
    /\ posts \in Nat
    /\ holder \in [Devices -> Clients \cup {None}]
    /\ port \subseteq Devices
    /\ reader \in Seq(ReaderAction) /\ buffer \in Answer \cup {None}
    /\ openers \in Seq(GateRows)
    /\ {live, wsOpener, pollOpener} \subseteq 0..Len(openers)
    /\ opening \in Seq([by : Callers, op : DOMAIN openers, up : BOOLEAN])
    /\ barrier \in {"up", "down"}
    /\ poller \in {"none", "off", "on", "api", "tell", "deny", "open", "dead"}
    /\ last \in BoothCards \cup {None} /\ taps \in Seq(BoothCards)
    /\ audience \subseteq Clients
    /\ row \in GateRows /\ inputs \in 0..MaxInputs
    /\ due \in [{"pay", "card"} -> Nat] /\ opened \in [{"pay", "card"} -> Nat]
    /\ booked \in Nat

\* Something comes from outside.
Input == inputs < MaxInputs /\ inputs' = inputs + 1

-----------------------------------------------------------------------------
(* Start of the process *)

\* _gate_signature: the part of the row a GateOpener is built from.
Signature(r) == <<r.open, r.close>>

\* SerialManager.start: a port that does not open is left to the first exchange.
PortsAtStart == IF "reopen" \in BoothFaults THEN SUBSET Devices ELSE {Devices}

\* MUTANT of Boot: calls of open() outlive the process.
BootKeepsCalls(r, fetched) ==
    /\ client' = [c \in Clients |-> "away"] /\ asks' = [c \in Clients |-> None]
    /\ answer' = [c \in Clients |-> None] /\ posts' = 0
    /\ holder' = [d \in Devices |-> None] /\ port' \in PortsAtStart
    /\ openers' = IF fetched THEN <<r>> ELSE <<>>
    /\ live' = Len(openers') /\ wsOpener' = live'
    /\ pollOpener' = IF fetched /\ r.reader THEN live' ELSE 0
    /\ poller' = IF fetched /\ r.reader THEN "off" ELSE "none"
    /\ UNCHANGED opening /\ last' = None /\ taps' = <<>> /\ audience' = {}

\* main up to the supervisors: the gate's row is fetched, the opener and the
\* poller are built from it; a failed fetch leaves both to the refresher.
Boot(r, fetched) ==
    /\ client' = [c \in Clients |-> "away"] /\ asks' = [c \in Clients |-> None]
    /\ answer' = [c \in Clients |-> None] /\ posts' = 0
    /\ holder' = [d \in Devices |-> None] /\ port' \in PortsAtStart
    /\ openers' = IF fetched THEN <<r>> ELSE <<>>
    /\ live' = Len(openers') /\ wsOpener' = live'
    /\ pollOpener' = IF fetched /\ r.reader THEN live' ELSE 0
    /\ poller' = IF fetched /\ r.reader THEN "off" ELSE "none"
    /\ opening' = <<>> /\ last' = None /\ taps' = <<>> /\ audience' = {}

\* The first start, with every port open; Crash leads to the others.
Init ==
    /\ row \in GateRows /\ inputs = 0
    /\ client = [c \in Clients |-> "away"] /\ asks = [c \in Clients |-> None]
    /\ answer = [c \in Clients |-> None] /\ posts = 0
    /\ holder = [d \in Devices |-> None]
    /\ port = Devices
    /\ openers \in {<<>>, <<row>>}
    /\ live = Len(openers) /\ wsOpener = live
    /\ pollOpener = IF row.reader THEN live ELSE 0
    /\ poller = IF pollOpener # 0 THEN "off" ELSE "none"
    /\ opening = <<>> /\ barrier = "down" /\ last = None /\ taps = <<>> /\ audience = {}
    /\ reader = <<>> /\ buffer = None
    /\ booked = 0
    /\ due = [w \in {"pay", "card"} |-> 0] /\ opened = [w \in {"pay", "card"} |-> 0]

\* The process dies and systemd starts it again.  The barrier and the reader are
\* left as they are.
Crash ==
    /\ "crash" \in BoothFaults /\ Input
    /\ \/ Boot(row, TRUE)
       \/ "api" \in BoothFaults /\ Boot(row, FALSE)
    /\ buffer' = None
    /\ UNCHANGED <<reader, barrier, row, due, opened, booked>>

-----------------------------------------------------------------------------
(* The WebSocket server *)

At(c, s) == client' = [client EXCEPT ![c] = s]

Connected == {c \in Clients : client[c] # "away"}

\* _handle_client: a client over the cap is turned away.
Connect(c) ==
    /\ client[c] = "away" /\ Cardinality(Connected) < MaxClients
    /\ At(c, "idle")
    /\ UNCHANGED <<asks, answer, posts, serialVars, openerVars, relayVars, pollerVars,
                   row, history>>

Disconnect(c) ==
    /\ client[c] = "idle" /\ At(c, "away")
    /\ UNCHANGED <<asks, answer, posts, serialVars, openerVars, relayVars, pollerVars,
                   row, history>>

\* The handler sends its reply and takes the next message, or finds that the
\* client has gone in the meantime.
Reply(c) ==
    /\ client' \in {[client EXCEPT ![c] = s] : s \in {"idle", "away"}}
    /\ asks' = [asks EXCEPT ![c] = None] /\ answer' = [answer EXCEPT ![c] = None]

\* open() is called: the caller joins the queue of the opener's lock.
CallOpen(w, o) == opening' = Append(opening, [by |-> w, op |-> o, up |-> FALSE])

\* _process_message takes a message up: a device's action goes to a thread,
\* open_gate to the opener, if this booth has one (and it is the gate asked
\* for: the other answers change nothing and are left out).
Ask(c, a) ==
    /\ client[c] = "idle" /\ Input
    /\ IF a = "open_gate"
       THEN /\ wsOpener # 0
            /\ CallOpen(c, wsOpener) /\ At(c, "gate")
       ELSE At(c, "claim") /\ UNCHANGED opening
    /\ asks' = [asks EXCEPT ![c] = a]
    /\ UNCHANGED <<answer, posts, serialVars, openerVars, barrier, pollerVars, row,
                   due, opened, booked>>

\* MUTANT of Verdict: a short answer is taken for what its status says.
VerdictAnyBody(x) == IF x = None THEN "FAILED" ELSE x.status

\* The status _process_message gives a deduction: nothing read, or a body too
\* short for a deduction's, is FAILED.
Verdict(x) ==
    IF x = None \/ x.to # "emoney_deduct" THEN "FAILED" ELSE x.status

\* _process_message after the exchange: of a deduction the result is posted to
\* the API (only that of a SUCCESS is counted here) and a SUCCESS raises the
\* barrier; the reply goes to the client.
Conclude(c) ==
    /\ client[c] = "got"
    /\ LET paid == asks[c] = "emoney_deduct" /\ Verdict(answer[c]) = "SUCCESS"
       IN  /\ posts' = IF paid THEN posts + 1 ELSE posts
           /\ IF paid /\ wsOpener # 0
              THEN CallOpen("pay", wsOpener) ELSE UNCHANGED opening
    /\ Reply(c)
    /\ UNCHANGED <<serialVars, openerVars, barrier, pollerVars, row, history>>

\* _call_api_booth_result: one POST, not repeated if it fails.
Post ==
    /\ posts > 0 /\ posts' = posts - 1
    /\ booked' \in {booked + 1} \cup (IF "api" \in BoothFaults THEN {booked} ELSE {})
    /\ UNCHANGED <<client, asks, answer, serialVars, openerVars, relayVars, pollerVars,
                   row, inputs, due, opened>>

-----------------------------------------------------------------------------
(* SerialManager.send and write_only, in the thread of client c *)

Dev(c) == Device(asks[c])

Release(c) == holder' = [holder EXCEPT ![Dev(c)] = None]

\* MUTANT of Finish: the lock survives an exception.
FinishKeepsLock(c) == Reply(c) /\ UNCHANGED holder

\* The exchange is over without an answer: the receipt is written, or the
\* exception reaches _handle_client, which replies with the error.
Finish(c) == Release(c) /\ Reply(c)

\* MUTANT of Claim: the lock of the device is not taken.
ClaimNoLock(c) ==
    /\ client[c] = "claim" /\ Dev(c) \in port
    /\ At(c, "write")
    /\ UNCHANGED <<asks, answer, posts, serialVars, openerVars, relayVars, pollerVars,
                   row, history>>

\* The lock is taken; a port that is not open is opened first.
Claim(c) ==
    /\ client[c] = "claim" /\ holder[Dev(c)] = None
    /\ \/ /\ At(c, "write") /\ holder' = [holder EXCEPT ![Dev(c)] = c]
          /\ port' = port \cup {Dev(c)}
          /\ UNCHANGED <<asks, answer>>
       \/ /\ "reopen" \in BoothFaults /\ Dev(c) \notin port
          /\ Reply(c) /\ UNCHANGED <<holder, port>>
    /\ UNCHANGED <<posts, reader, buffer, openerVars, relayVars, pollerVars, row, history>>

\* reset_input_buffer and write; a printer is not read from.
Write(c) ==
    /\ client[c] \in {"write", "rewrite"}
    /\ IF Dev(c) = "receipt_printer"
       THEN Finish(c) /\ UNCHANGED <<reader, buffer>>
       ELSE /\ reader' = Append(reader, asks[c]) /\ buffer' = None
            /\ At(c, IF client[c] = "write" THEN "read" ELSE "reread")
            /\ UNCHANGED <<holder, asks, answer>>
    /\ UNCHANGED <<port, posts, openerVars, relayVars, pollerVars, row, history>>

\* read(1024) ends when the port's second is over, with whatever has come.
Read(c) ==
    /\ client[c] \in {"read", "reread"}
    /\ answer' = [answer EXCEPT ![c] = buffer]
    /\ buffer' = None /\ Release(c) /\ At(c, "got")
    /\ UNCHANGED <<asks, posts, port, reader, openerVars, relayVars, pollerVars, row,
                   history>>

\* The device fails in the first attempt: the port is reopened and the frame
\* written again.  A second failure, or a port that will not open, is the end.
IoError(c) ==
    /\ "io" \in BoothFaults /\ client[c] \in OnWire
    /\ \/ /\ client[c] \in {"write", "read"}
          /\ At(c, "rewrite") /\ UNCHANGED <<holder, port, asks, answer>>
       \/ /\ client[c] \in {"write", "read"} /\ "reopen" \in BoothFaults
          /\ port' = port \ {Dev(c)} /\ Finish(c)
       \/ client[c] \in {"rewrite", "reread"} /\ Finish(c) /\ UNCHANGED port
    /\ buffer' = IF Dev(c) = "emoney_reader" THEN None ELSE buffer
    /\ UNCHANGED <<posts, reader, openerVars, relayVars, pollerVars, row, history>>

\* The reader is done with its oldest frame, however long after it was written,
\* and answers if the port is open.  A deduction's SUCCESS has charged a card.  Of
\* the answers in the port's input buffer parse_response looks at the first only.
ReaderAnswers ==
    /\ reader # <<>> /\ reader' = Tail(reader)
    /\ \E s \in Statuses :
         /\ buffer' = IF "emoney_reader" \in port /\ buffer = None
                      THEN [to |-> reader[1], status |-> s] ELSE buffer
         /\ due' = IF reader[1] = "emoney_deduct" /\ s = "SUCCESS"
                   THEN [due EXCEPT !["pay"] = @ + 1] ELSE due
    /\ UNCHANGED <<serverVars, holder, port, openerVars, relayVars, pollerVars, row,
                   inputs, opened, booked>>

-----------------------------------------------------------------------------
(* GateOpener.open: entry i of opening *)

\* The opener's asyncio.Lock is free, and nobody has waited for it longer.
HasLock(i) ==
    \A j \in 1..(i - 1) : opening[j].op # opening[i].op

\* open() returns to its caller.
Return(i) ==
    /\ opening' = SubSeq(opening, 1, i - 1) \o SubSeq(opening, i + 1, Len(opening))
    /\ LET w == opening[i].by
       IN  /\ IF w \in Clients THEN Reply(w) ELSE UNCHANGED <<client, asks, answer>>
           /\ poller' = IF w = "card" /\ poller = "open" THEN "on" ELSE poller

\* _open_sync up to the delay: without a command, or a port, it returns False;
\* otherwise the barrier goes up.  Without a close command that is all.
Raise(i) ==
    /\ ~opening[i].up /\ HasLock(i)
    /\ LET r == openers[opening[i].op]  w == opening[i].by
       IN  \/ /\ ~r.open \/ "relay" \in BoothFaults
              /\ Return(i) /\ UNCHANGED <<barrier, opened>>
           \/ /\ r.open /\ barrier' = "up"
              /\ opened' = IF w \in Clients THEN opened ELSE [opened EXCEPT ![w] = @ + 1]
              /\ IF r.close
                 THEN /\ opening' = [opening EXCEPT ![i].up = TRUE]
                      /\ UNCHANGED <<client, asks, answer, poller>>
                 ELSE Return(i)
    /\ UNCHANGED <<posts, serialVars, openerVars, last, taps, audience, row,
                   inputs, due, booked>>

\* _open_sync after the delay.
Lower(i) ==
    /\ opening[i].up
    /\ \/ barrier' = "down"
       \/ "relay" \in BoothFaults /\ UNCHANGED barrier
    /\ Return(i)
    /\ UNCHANGED <<posts, serialVars, openerVars, last, taps, audience, row, history>>

-----------------------------------------------------------------------------
(* OmnikeyPoller *)

\* A member card is held at the reader; the digits wait in the poller's queue.
Tap(k) ==
    /\ poller \in {"on", "api", "tell", "deny", "open"} /\ Input
    /\ taps' = Append(taps, k)
    /\ UNCHANGED <<serverVars, serialVars, openerVars, relayVars, poller, last, audience,
                   row, due, opened, booked>>

\* _handle_card: the same card within the cooldown is ignored.
TakeTap ==
    /\ poller = "on" /\ taps # <<>> /\ taps' = Tail(taps)
    /\ IF taps[1] = last
       THEN UNCHANGED <<poller, last>>
       ELSE poller' = "api" /\ last' = taps[1]
    /\ UNCHANGED <<serverVars, serialVars, openerVars, relayVars, audience, row, history>>

\* dedupe_cooldown_s is over.
CooldownOver ==
    /\ last # None /\ last' = None
    /\ UNCHANGED <<serverVars, serialVars, openerVars, relayVars, poller, taps, audience,
                   row, history>>

\* rfid_exit: the API completes the stay and says so; or it refuses; or the
\* answer is lost, which the client reports as a refusal.  Either way the
\* outcome is broadcast.
Settle ==
    /\ poller = "api" /\ audience' = Connected
    /\ \/ poller' = "tell" /\ due' = [due EXCEPT !["card"] = @ + 1]
       \/ poller' = "deny" /\ UNCHANGED due
       \/ /\ "api" \in BoothFaults
          /\ poller' = "deny" /\ due' = [due EXCEPT !["card"] = @ + 1]
    /\ UNCHANGED <<serverVars, serialVars, openerVars, relayVars, last, taps, row,
                   inputs, opened, booked>>

\* broadcast iterates over the set of clients and awaits each send: a set that
\* has another size by then raises, and _run drops the device; otherwise, of an
\* exit, the barrier is raised.
Told ==
    /\ poller \in {"tell", "deny"} /\ audience' = {}
    /\ IF audience = {} \/ Cardinality(Connected) = Cardinality(audience)
       THEN /\ UNCHANGED taps
            /\ IF poller = "tell"
               THEN poller' = "open" /\ CallOpen("card", pollOpener)
               ELSE poller' = "on" /\ UNCHANGED opening
       ELSE poller' = "off" /\ taps' = <<>> /\ UNCHANGED opening
    /\ UNCHANGED <<serverVars, serialVars, openerVars, barrier, last, row, history>>

\* _run finds the device and grabs it.
Plug ==
    /\ poller = "off" /\ poller' = "on"
    /\ UNCHANGED <<serverVars, serialVars, openerVars, relayVars, last, taps, audience,
                   row, history>>

\* The device goes while the poller waits for a tap, or its task dies.
Unplug ==
    /\ "unplug" \in BoothFaults
    /\ \/ poller = "on" /\ poller' = "off" /\ taps' = <<>>
       \/ poller = "off" /\ poller' = "dead" /\ UNCHANGED taps
    /\ UNCHANGED <<serverVars, serialVars, openerVars, relayVars, last, audience, row,
                   history>>

\* _supervise starts the poller's task again.
Supervise ==
    /\ poller = "dead" /\ poller' = "off"
    /\ UNCHANGED <<serverVars, serialVars, openerVars, relayVars, last, taps, audience,
                   row, history>>

-----------------------------------------------------------------------------
(* The gate's row *)

\* The admin saves the gate.
Edit(r) ==
    /\ r # row /\ row' = r /\ Input
    /\ UNCHANGED <<serverVars, serialVars, openerVars, relayVars, pollerVars, due, opened,
                   booked>>

\* There is no opener yet, or the row's signature is not that of the last one.
Stale ==
    IF live = 0 THEN TRUE ELSE Signature(openers[live]) # Signature(row)

\* MUTANT of Rewired: the running poller keeps the opener it was built with.
RewiredServerOnly(o) == pollOpener

\* The opener of the poller once o has replaced the last one: a poller that is
\* running is given the new one.
Rewired(o) == IF poller # "none" THEN o ELSE pollOpener

\* MUTANT of Refresh: the signature is not looked at once there is an opener.
RefreshColdStartOnly ==
    /\ live = 0
    /\ openers' = Append(openers, row) /\ live' = Len(openers') /\ wsOpener' = live'
    /\ pollOpener' = IF row.reader THEN live' ELSE 0
    /\ poller' = IF row.reader THEN "off" ELSE "none"
    /\ UNCHANGED <<serverVars, serialVars, relayVars, last, taps, audience, row, history>>

\* _refresh_gate_config, once a minute: a new opener if the last one is stale; a
\* poller if the row enables one and none is there.  A fetch that fails leaves
\* everything as it is.
Refresh ==
    LET starts == poller = "none" /\ row.reader
    IN  /\ Stale \/ starts
        /\ openers' = IF Stale THEN Append(openers, row) ELSE openers
        /\ live' = IF Stale THEN Len(openers') ELSE live
        /\ wsOpener' = IF Stale THEN live' ELSE wsOpener
        /\ poller' = IF starts THEN "off" ELSE poller
        /\ pollOpener' = IF starts THEN live'
                         ELSE IF Stale THEN Rewired(live') ELSE pollOpener
        /\ UNCHANGED <<serverVars, serialVars, relayVars, last, taps, audience, row,
                       history>>

-----------------------------------------------------------------------------

ClientStep(c) == Conclude(c) \/ Claim(c) \/ Write(c) \/ Read(c)

PollerStep == TakeTap \/ Settle \/ Told \/ Plug \/ Supervise

Next ==
    \/ \E c \in Clients :
         \/ Connect(c) \/ Disconnect(c) \/ \E a \in Actions : Ask(c, a)
         \/ ClientStep(c) \/ IoError(c)
    \/ Post \/ ReaderAnswers
    \/ \E i \in DOMAIN opening : Raise(i) \/ Lower(i)
    \/ \E k \in BoothCards : Tap(k)
    \/ PollerStep \/ CooldownOver \/ Unplug
    \/ \E r \in GateRows : Edit(r)
    \/ Refresh \/ Crash

Spec == Init /\ [][Next]_vars

\* The event loop and its threads run; the refresher's fetch succeeds in the end.
\* Nothing is assumed of the reader, the clients and the admin.
Fairness ==
    /\ \A c \in Clients : WF_vars(ClientStep(c))
    /\ WF_vars(\E i \in DOMAIN opening : Raise(i) \/ Lower(i))
    /\ WF_vars(PollerStep) /\ WF_vars(Post) /\ WF_vars(Refresh)

FairSpec == Spec /\ Fairness

-----------------------------------------------------------------------------
(* Properties *)

\* The booth raises the barrier by itself at most once per charged card and per
\* recorded member exit, whatever answers come late or are read by the wrong
\* caller, whichever frame is written twice and whatever is refused
\* (websocket_server.py _process_message, omnikey_poller.py _handle_card).
OpensEarned == \A w \in {"pay", "card"} : opened[w] <= due[w]

\* Two commands never share a device's wire: what one thread writes between its
\* reset and its read, no other thread resets, writes over or reads away
\* (serial_manager.py send and write_only hold the peripheral's lock).
OneExchange ==
    \A c, d \in Clients :
        client[c] \in OnWire /\ client[d] \in OnWire /\ Dev(c) = Dev(d) => c = d

\* The POS and the member reader always drive the same relay, the one the
\* heartbeat reports, whenever an opener is replaced or a poller started; and as
\* long as the process has built one opener only, an opening is never cut short
\* by the close command of another one (main.py _refresh_gate_config,
\* gate_opener.py open holds the opener's lock over open, delay and close).
CycleWhole ==
    /\ wsOpener = live /\ (poller # "none" => pollOpener = live)
    /\ \A i \in DOMAIN opening :
         Len(openers) = 1 /\ opening[i].up => barrier = "up"

\* Every message a POS client sends is answered, or the client has gone: no
\* device lock, reconnect, relay delay or refresh leaves a handler waiting
\* (websocket_server.py _handle_client).
Answered ==
    \A c \in Clients : client[c] \in Busy ~> client[c] \notin Busy

\* What the admin saves reaches the relay and the member reader without a
\* restart, from a start with the API down as well (main.py
\* _refresh_gate_config).
EditReachesBooth ==
    []<>(/\ live # 0 /\ Signature(openers[live]) = Signature(row)
         /\ row.reader => poller # "none")

\* When nothing is under way any more, every charge the reader made has been
\* reported to the API (docs/GATE_FLOW_SPEC.md, section 3.4).
ChargesBooked ==
    (/\ reader = <<>> /\ posts = 0
     /\ \A c \in Clients : client[c] \notin Busy) => booked >= due["pay"]

=============================================================================
