------------------------------ MODULE EventLog ------------------------------
(***************************************************************************)
(* A gate's events on their way to a browser: the daemon appends each to a *)
(* bounded Redis stream and publishes it (daemons/base.py publish_event),  *)
(* the API's broadcaster forwards what is published to the connected       *)
(* browsers (websocket/broadcaster.py, connection_manager.py), and a       *)
(* browser that reconnects asks for what it has missed                     *)
(* (websocket/handlers.py).  Events are numbered; a number is also the     *)
(* stream id.  The browser is external: it asks for a replay after each    *)
(* connect, again while replies are full, and moves its mark up to what it *)
(* has received once a replay is complete.                                 *)
(***************************************************************************)
EXTENDS Integers, Sequences, FiniteSets

CONSTANTS
    MaxEvents,    \* bound: events
    LogLength,    \* the stream's MAXLEN
    ReplayCount,  \* count of the XRANGE
    MaxBreaks     \* bound: disconnects

ASSUME EventLogAssumption ==
    /\ MaxEvents \in Nat /\ LogLength \in Nat \ {0}
    /\ ReplayCount \in Nat \ {0} /\ MaxBreaks \in Nat

VARIABLES
    last, stage,  \* the daemon: its newest event, and the calls it has made for it
    log,          \* parking.eventlog.<gate>: the ids it holds, which order it
    bus,          \* published, not yet handled by the broadcaster
    forwarded,    \* handled by the broadcaster
    online,       \* the browser's socket is registered
    reply,        \* the reply it is being sent: none, full (as long as they get), last
    replay,       \* the entries of it still to be sent
    synced,       \* its replay is complete
    got, mark,    \* the browser: events received, high-water mark
    breaks,       \* history: disconnects so far
    excused       \* history: events the stream does not hold (any more)

logVars == <<last, stage, log, bus, forwarded, online, reply, replay, synced, got, mark, breaks, excused>>

LogTypeOK ==
    /\ last \in 0..MaxEvents /\ stage \in 0..1
    /\ log \subseteq 1..MaxEvents /\ Cardinality(log) <= LogLength
    /\ bus \in Seq(1..MaxEvents) /\ forwarded \subseteq 1..MaxEvents
    /\ online \in BOOLEAN /\ synced \in BOOLEAN
    /\ reply \in {"none", "full", "last"} /\ replay \subseteq 1..MaxEvents
    /\ got \subseteq 1..MaxEvents /\ mark \in 0..MaxEvents
    /\ breaks \in 0..MaxBreaks /\ excused \subseteq 1..MaxEvents

LogInit ==
    /\ last = 0 /\ stage = 0 /\ log = {} /\ bus = <<>> /\ forwarded = {}
    /\ online = FALSE /\ reply = "none" /\ replay = {} /\ synced = FALSE /\ got = {} /\ mark = 0
    /\ breaks = 0 /\ excused = {}

\* MUTANT of Calls: the event is published first.
CallsSwapped == <<"publish", "xadd">>

\* The two calls of publish_event, in order.
Calls == <<"xadd", "publish">>

\* A stream over its MAXLEN keeps its newest entries.
Trimmed(entries) == {e \in entries : Cardinality({f \in entries : f > e}) < LogLength}

\* The next call of publish_event.  A failed XADD is only logged.
PublishEvent ==
    /\ IF stage = 0 THEN last < MaxEvents /\ last' = last + 1 ELSE UNCHANGED last
    /\ stage' = 1 - stage
    /\ IF Calls[stage + 1] = "publish"
       THEN bus' = Append(bus, last') /\ UNCHANGED <<log, excused>>
       ELSE /\ UNCHANGED bus
            /\ \/ LET all == log \cup {last'}
                  IN  log' = Trimmed(all) /\ excused' = excused \cup (all \ log')
               \/ excused' = excused \cup {last'} /\ UNCHANGED log
    /\ UNCHANGED <<forwarded, online, reply, replay, synced, got, mark, breaks>>

\* _listen, _handle_message and send_to_gate.
Forward ==
    /\ bus # <<>> /\ bus' = Tail(bus) /\ forwarded' = forwarded \cup {Head(bus)}
    /\ got' = IF online THEN got \cup {Head(bus)} ELSE got
    /\ mark' = IF online /\ synced /\ Head(bus) > mark THEN Head(bus) ELSE mark
    /\ UNCHANGED <<last, stage, log, online, reply, replay, synced, breaks, excused>>

\* websocket_endpoint: the socket is registered before any message is read.
ConnectBrowser ==
    /\ ~online /\ online' = TRUE
    /\ UNCHANGED <<last, stage, log, bus, forwarded, reply, replay, synced, got, mark, breaks, excused>>

\* _replay_events: what the stream holds after the mark, at most ReplayCount.
ReadReplay ==
    /\ online /\ ~synced /\ reply = "none"
    /\ LET rest == {e \in log : e > mark}
       IN  /\ replay' = {e \in rest : Cardinality({f \in rest : f < e}) < ReplayCount}
           /\ reply' = IF Cardinality(rest) < ReplayCount THEN "last" ELSE "full"
    /\ UNCHANGED <<last, stage, log, bus, forwarded, online, synced, got, mark, breaks, excused>>

\* The oldest entry that is left is sent.
SendReplay ==
    /\ online /\ ~synced /\ reply # "none"
    /\ \E e \in replay :
         /\ \A f \in replay : e <= f
         /\ got' = got \cup {e} /\ mark' = e /\ replay' = replay \ {e}
    /\ UNCHANGED <<last, stage, log, bus, forwarded, online, reply, synced, breaks, excused>>

\* replay_complete: a full reply is followed by another.
CompleteReplay ==
    /\ online /\ ~synced /\ reply # "none" /\ replay = {} /\ reply' = "none"
    /\ IF reply = "full"
       THEN UNCHANGED <<synced, mark>>
       ELSE /\ synced' = TRUE
            /\ \E m \in got \cup {mark} : mark' = m /\ \A e \in got \cup {mark} : e <= m
    /\ UNCHANGED <<last, stage, log, bus, forwarded, online, replay, got, breaks, excused>>

\* The socket breaks: what was not sent yet is lost.
Break ==
    /\ online /\ breaks < MaxBreaks /\ breaks' = breaks + 1
    /\ online' = FALSE /\ synced' = FALSE /\ reply' = "none" /\ replay' = {}
    /\ UNCHANGED <<last, stage, log, bus, forwarded, got, mark, excused>>

LogNext ==
    PublishEvent \/ Forward \/ ConnectBrowser \/ ReadReplay \/ SendReplay \/ CompleteReplay \/ Break

LogSpec == LogInit /\ [][LogNext]_logVars

-----------------------------------------------------------------------------
(* Properties *)

\* A browser whose replay is complete has missed nothing: it has every event
\* forwarded so far, however connects, publishing and replay interleave, unless
\* the stream never held the event or has dropped it (publish_event,
\* _replay_events).
NoGap == synced => forwarded \ excused \subseteq got

=============================================================================
