---------------------------- MODULE BoothProofs ----------------------------
(***************************************************************************)
(* Proofs about the booth bridge (Booth): for any number of POS clients,   *)
(* requests, taps and edits of the gate's row, and every fault.            *)
(***************************************************************************)
EXTENDS Booth, TLAPS, FiniteSetTheorems, SequenceTheorems

-----------------------------------------------------------------------------
(* The inductive invariant *)

\* The types, in the parts the actions change together.
ServerTypes ==
    /\ client \in [Clients -> Busy \cup {"away", "idle"}]
    /\ asks \in [Clients -> Actions \cup {None}]
    /\ answer \in [Clients -> Answer \cup {None}]
    /\ posts \in Nat

SerialTypes ==
    /\ holder \in [Devices -> Clients \cup {None}]
    /\ port \subseteq Devices
    /\ reader \in Seq(ReaderAction) /\ buffer \in Answer \cup {None}

OpenerTypes ==
    /\ openers \in Seq(GateRows)
    /\ live \in 0..Len(openers) /\ wsOpener \in 0..Len(openers)
    /\ pollOpener \in 0..Len(openers)

Call(n) == [by : Callers, op : 1..n, up : BOOLEAN]

RelayTypes == opening \in Seq(Call(Len(openers))) /\ barrier \in {"up", "down"}

PollerTypes ==
    /\ poller \in {"none", "off", "on", "api", "tell", "deny", "open", "dead"}
    /\ last \in BoothCards \cup {None} /\ taps \in Seq(BoothCards)
    /\ audience \subseteq Clients

RestTypes ==
    /\ row \in GateRows /\ inputs \in 0..MaxInputs
    /\ due \in [{"pay", "card"} -> Nat] /\ opened \in [{"pay", "card"} -> Nat]
    /\ booked \in Nat

\* A client that uses a device has said what it wants of it.
Asking ==
    \A c \in Clients : client[c] \in Busy \ {"gate"} => asks[c] \in Actions \ {"open_gate"}

\* The thread between claim and release of a device is the holder of its lock.
Holding == \A c \in Clients : client[c] \in OnWire => holder[Dev(c)] = c

\* Server and poller refer to the last opener, and a poller has one.
Wired == wsOpener = live /\ (poller # "none" => pollOpener = live /\ live # 0)

\* A call that has raised the barrier is first of those that wait for its opener.
UpHasLock == \A i \in DOMAIN opening : opening[i].up => HasLock(i)

\* With one opener, the barrier is up while a call is between open and close.
Uncut == \A i \in DOMAIN opening : Len(openers) = 1 /\ opening[i].up => barrier = "up"

Types ==
    /\ ServerTypes /\ SerialTypes /\ OpenerTypes /\ RelayTypes /\ PollerTypes /\ RestTypes
    /\ Asking /\ Wired

-----------------------------------------------------------------------------
(* The queue of the openers' locks *)

\* What is left of a sequence when its i-th element is taken out.
LEMMA Without ==
    ASSUME NEW S, NEW s \in Seq(S), NEW i \in 1..Len(s)
    PROVE  LET t == SubSeq(s, 1, i - 1) \o SubSeq(s, i + 1, Len(s))
           IN  /\ t \in Seq(S) /\ Len(t) = Len(s) - 1
               /\ \A k \in 1..(Len(s) - 1) : t[k] = IF k < i THEN s[k] ELSE s[k + 1]
  <1>1. PICK a \in Seq(S) : /\ a = SubSeq(s, 1, i - 1) /\ Len(a) = i - 1
                            /\ \A k \in 1..(i - 1) : a[k] = s[k]
    <2>1. /\ SubSeq(s, 1, i - 1) \in Seq(S) /\ Len(SubSeq(s, 1, i - 1)) = i - 1
          /\ \A k \in 1..(i - 1) : SubSeq(s, 1, i - 1)[k] = s[k]
      BY SubSeqProperties
    <2> QED
      BY <2>1
  <1>2. PICK b \in Seq(S) : /\ b = SubSeq(s, i + 1, Len(s)) /\ Len(b) = Len(s) - i
                            /\ \A k \in 1..(Len(s) - i) : b[k] = s[i + k]
    <2>1. /\ SubSeq(s, i + 1, Len(s)) \in Seq(S) /\ Len(SubSeq(s, i + 1, Len(s))) = Len(s) - i
          /\ \A k \in 1..(Len(s) - i) : SubSeq(s, i + 1, Len(s))[k] = s[i + k]
      BY SubSeqProperties
    <2> QED
      BY <2>1
  <1>a. /\ Len(a) = i - 1 /\ \A k \in 1..(i - 1) : a[k] = s[k]
        /\ Len(b) = Len(s) - i /\ \A k \in 1..(Len(s) - i) : b[k] = s[i + k]
    BY <1>1, <1>2
  <1>3. a \o b \in Seq(S) /\ Len(a \o b) = Len(a) + Len(b)
    BY ConcatProperties
  <1>4. Len(a \o b) = Len(s) - 1
    BY <1>a, <1>3
  <1>5. ASSUME NEW k \in 1..(Len(s) - 1)
        PROVE  (a \o b)[k] = IF k < i THEN s[k] ELSE s[k + 1]
    <2>0. k \in 1..(Len(a) + Len(b))
      BY <1>3, <1>4
    <2>1. (a \o b)[k] = IF k <= Len(a) THEN a[k] ELSE b[k - Len(a)]
      BY <2>0, ConcatProperties
    <2>2. CASE k < i
      BY <1>a, <2>1, <2>2
    <2>3. CASE ~(k < i)
      <3>1. k - Len(a) \in 1..(Len(s) - i) /\ i + (k - Len(a)) = k + 1
        BY <1>a, <2>3
      <3>2. b[k - Len(a)] = s[k + 1]
        BY <1>a, <3>1
      <3> QED
        BY <1>a, <2>1, <2>3, <3>2
    <2> QED
      BY <2>2, <2>3
  <1> QED
    BY <1>1, <1>2, <1>3, <1>4, <1>5

\* A call that is replaced by itself with another flag leaves a queue of calls.
LEMMA CallRaised ==
    ASSUME NEW n \in Nat, NEW q \in Seq(Call(n)), NEW i \in 1..Len(q)
    PROVE  /\ [q EXCEPT ![i].up = TRUE] \in Seq(Call(n))
           /\ Len([q EXCEPT ![i].up = TRUE]) = Len(q)
           /\ \A k \in 1..Len(q) :
                /\ [q EXCEPT ![i].up = TRUE][k].by = q[k].by
                /\ [q EXCEPT ![i].up = TRUE][k].op = q[k].op
                /\ k # i => [q EXCEPT ![i].up = TRUE][k] = q[k]
           /\ [q EXCEPT ![i].up = TRUE][i].up = TRUE
  <1>1. q[i] \in Call(n)
    OBVIOUS
  <1>2. /\ [q[i] EXCEPT !.up = TRUE] \in Call(n)
        /\ [q[i] EXCEPT !.up = TRUE].by = q[i].by
        /\ [q[i] EXCEPT !.up = TRUE].op = q[i].op
        /\ [q[i] EXCEPT !.up = TRUE].up = TRUE
    BY <1>1 DEF Call
  <1>3. [q EXCEPT ![i].up = TRUE] = [q EXCEPT ![i] = [q[i] EXCEPT !.up = TRUE]]
    OBVIOUS
  <1> DEFINE r == [q[i] EXCEPT !.up = TRUE]
  <1>4. r \in Call(n) /\ r.by = q[i].by /\ r.op = q[i].op /\ r.up = TRUE
    BY <1>2
  <1> HIDE DEF r
  <1>5. /\ [q EXCEPT ![i] = r] \in Seq(Call(n)) /\ Len([q EXCEPT ![i] = r]) = Len(q)
        /\ \A k \in 1..Len(q) : [q EXCEPT ![i] = r][k] = IF k = i THEN r ELSE q[k]
    BY <1>4
  <1> QED
    BY <1>3, <1>4, <1>5 DEF r

-----------------------------------------------------------------------------
(* Types *)

\* The handler replies: its client is idle or gone, the others are untouched.
LEMMA Replied ==
    ASSUME ServerTypes, Asking, NEW c \in Clients, Reply(c)
    PROVE  /\ client' \in [Clients -> Busy \cup {"away", "idle"}]
           /\ asks' \in [Clients -> Actions \cup {None}]
           /\ answer' \in [Clients -> Answer \cup {None}]
           /\ Asking'
           /\ client'[c] \in {"idle", "away"} /\ answer'[c] = None
           /\ \A d \in Clients \ {c} :
                client'[d] = client[d] /\ asks'[d] = asks[d] /\ answer'[d] = answer[d]
  BY DEF ServerTypes, Asking, Reply, Busy

\* The next state of client c, and nothing else of the server's.
LEMMA Moved ==
    ASSUME ServerTypes, Asking, NEW c \in Clients, NEW s \in Busy \cup {"away", "idle"}, At(c, s),
           UNCHANGED asks, s \in Busy \ {"gate"} => asks[c] \in Actions \ {"open_gate"}
    PROVE  client' \in [Clients -> Busy \cup {"away", "idle"}] /\ Asking'
  BY DEF ServerTypes, Asking, At, Busy

\* open() returns: the queue is one shorter, a client that waited gets its reply.
LEMMA Returned ==
    ASSUME Types, NEW i \in DOMAIN opening, Return(i)
    PROVE  /\ opening' \in Seq(Call(Len(openers))) /\ Len(opening') = Len(opening) - 1
           /\ \A k \in 1..Len(opening') :
                opening'[k] = IF k < i THEN opening[k] ELSE opening[k + 1]
           /\ client' \in [Clients -> Busy \cup {"away", "idle"}]
           /\ asks' \in [Clients -> Actions \cup {None}]
           /\ answer' \in [Clients -> Answer \cup {None}]
           /\ Asking'
           /\ poller' \in {"none", "off", "on", "api", "tell", "deny", "open", "dead"}
           /\ poller' # "none" => poller # "none"
           /\ poller' = "tell" => poller = "tell"
           /\ \A d \in Clients :
                \/ client'[d] = client[d] /\ asks'[d] = asks[d] /\ answer'[d] = answer[d]
                \/ client'[d] \in {"idle", "away"} /\ answer'[d] = None
  <1>1. /\ opening \in Seq(Call(Len(openers))) /\ i \in 1..Len(opening)
    BY DEF Types, RelayTypes
  <1>2. /\ opening' \in Seq(Call(Len(openers))) /\ Len(opening') = Len(opening) - 1
        /\ \A k \in 1..(Len(opening) - 1) :
             opening'[k] = IF k < i THEN opening[k] ELSE opening[k + 1]
    BY <1>1, Without DEF Return
  <1>3. CASE opening[i].by \in Clients
    <2>1. Reply(opening[i].by)
      BY <1>3 DEF Return
    <2> QED
      BY <1>2, <1>3, <2>1, Replied DEF Return, Types, PollerTypes
  <1>4. CASE opening[i].by \notin Clients
    BY <1>2, <1>4 DEF Return, Types, PollerTypes, ServerTypes, Asking
  <1> QED
    BY <1>3, <1>4

\* The states the process starts in.
LEMMA InitTypes == Init => Types
  <1> SUFFICES ASSUME Init PROVE Types
    OBVIOUS
  <1>1. ServerTypes /\ Asking
    BY DEF Init, ServerTypes, Asking, Busy
  <1>2. SerialTypes
    BY DEF Init, SerialTypes
  <1>3. OpenerTypes /\ Wired
    <2>1. CASE openers = <<>>
      <3>1. Len(openers) = 0 /\ openers \in Seq(GateRows)
        BY <2>1
      <3> QED
        BY <3>1 DEF Init, OpenerTypes, Wired
    <2>2. CASE openers = <<row>>
      <3>1. row \in GateRows
        BY DEF Init
      <3>2. Len(openers) = 1 /\ openers \in Seq(GateRows)
        BY <2>2, <3>1
      <3> QED
        BY <3>2 DEF Init, OpenerTypes, Wired
    <2> QED
      BY <2>1, <2>2 DEF Init
  <1>4. RelayTypes
    BY DEF Init, RelayTypes
  <1>5. PollerTypes /\ RestTypes
    BY BoothAssumption DEF Init, PollerTypes, RestTypes
  <1> QED
    BY <1>1, <1>2, <1>3, <1>4, <1>5 DEF Types

\* The clients' steps keep the types.
LEMMA ClientTypes ==
    ASSUME Types, NEW c \in Clients,
           \/ Connect(c) \/ Disconnect(c) \/ (\E a \in Actions : Ask(c, a))
           \/ ClientStep(c) \/ IoError(c)
    PROVE  Types'
  <1> USE DEF Types
  <1>1. CASE Connect(c) \/ Disconnect(c)
    <2>1. client' \in [Clients -> Busy \cup {"away", "idle"}] /\ Asking'
      BY <1>1, Moved DEF Connect, Disconnect, Busy
    <2> QED
      BY <1>1, <2>1 DEF Connect, Disconnect, ServerTypes, SerialTypes, OpenerTypes, RelayTypes,
         PollerTypes, RestTypes, Wired, serialVars, openerVars, relayVars, pollerVars, history
  <1>2. ASSUME NEW a \in Actions, Ask(c, a) PROVE Types'
    <2>1. /\ client' \in [Clients -> Busy \cup {"away", "idle"}]
          /\ asks' \in [Clients -> Actions \cup {None}] /\ Asking'
      BY <1>2 DEF Ask, At, ServerTypes, Asking, Busy
    <2>2. opening' \in Seq(Call(Len(openers)))
      <3>1. CASE a = "open_gate"
        <4>1. wsOpener \in 1..Len(openers)
          BY <1>2, <3>1 DEF Ask, OpenerTypes
        <4>2. [by |-> c, op |-> wsOpener, up |-> FALSE] \in Call(Len(openers))
          BY <4>1 DEF Call, Callers
        <4> QED
          BY <1>2, <3>1, <4>2 DEF Ask, CallOpen, RelayTypes
      <3>2. CASE a # "open_gate"
        BY <1>2, <3>2 DEF Ask, RelayTypes
      <3> QED
        BY <3>1, <3>2
    <2>3. inputs' \in 0..MaxInputs
      BY <1>2, BoothAssumption DEF Ask, Input, RestTypes
    <2> QED
      BY <1>2, <2>1, <2>2, <2>3 DEF Ask, ServerTypes, SerialTypes, OpenerTypes, RelayTypes,
         PollerTypes, RestTypes, Wired, serialVars, openerVars, pollerVars
  <1>3. CASE Conclude(c)
    <2>1. /\ client' \in [Clients -> Busy \cup {"away", "idle"}]
          /\ asks' \in [Clients -> Actions \cup {None}]
          /\ answer' \in [Clients -> Answer \cup {None}]
          /\ Asking'
      BY <1>3, Replied DEF Conclude
    <2>2. opening' \in Seq(Call(Len(openers))) /\ posts' \in Nat
      <3>1. CASE wsOpener # 0
        <4>1. wsOpener \in 1..Len(openers)
          BY <3>1 DEF OpenerTypes
        <4>2. [by |-> "pay", op |-> wsOpener, up |-> FALSE] \in Call(Len(openers))
          BY <4>1 DEF Call, Callers
        <4>3. Append(opening, [by |-> "pay", op |-> wsOpener, up |-> FALSE])
                \in Seq(Call(Len(openers)))
          BY <4>2 DEF RelayTypes
        <4>4. posts' \in {posts, posts + 1}
          BY <1>3 DEF Conclude
        <4>5. opening' \in {opening, Append(opening, [by |-> "pay", op |-> wsOpener, up |-> FALSE])}
          BY <1>3 DEF Conclude, CallOpen
        <4>6. posts' \in Nat
          BY <4>4 DEF ServerTypes
        <4> QED
          BY <4>3, <4>5, <4>6 DEF RelayTypes
      <3>2. CASE wsOpener = 0
        BY <1>3, <3>2 DEF Conclude, RelayTypes, ServerTypes
      <3> QED
        BY <3>1, <3>2
    <2> QED
      BY <1>3, <2>1, <2>2 DEF Conclude, ServerTypes, SerialTypes, OpenerTypes, RelayTypes,
         PollerTypes, RestTypes, Wired, serialVars, openerVars, pollerVars, history
  <1>4. CASE Claim(c) \/ Write(c) \/ Read(c) \/ IoError(c)
    <2>0. Dev(c) \in Devices /\ client[c] \in Busy
      BY <1>4 DEF Dev, Device, Devices, Claim, Write, Read, IoError, OnWire, Busy
    <2>a. asks[c] \in Actions \ {"open_gate"}
      BY <1>4, <2>0 DEF Asking, Claim, Write, Read, IoError, OnWire
    <2>1. /\ client' \in [Clients -> Busy \cup {"away", "idle"}]
          /\ asks' \in [Clients -> Actions \cup {None}]
          /\ answer' \in [Clients -> Answer \cup {None}]
          /\ Asking'
      <3>1. CASE Reply(c)
        BY <3>1, Replied
      <3>2. CASE \E s \in Busy \ {"gate"} : At(c, s) /\ UNCHANGED asks
                                     /\ answer' \in [Clients -> Answer \cup {None}]
        BY <2>a, <3>2, Moved DEF ServerTypes
      <3>3. Reply(c) \/ \E s \in Busy \ {"gate"} : At(c, s) /\ UNCHANGED asks
                                     /\ answer' \in [Clients -> Answer \cup {None}]
        BY <1>4 DEF Claim, Write, Read, IoError, Finish, Busy, ServerTypes, SerialTypes
      <3> QED
        BY <3>1, <3>2, <3>3
    <2>2. holder' \in [Devices -> Clients \cup {None}] /\ port' \subseteq Devices
      BY <1>4, <2>0 DEF Claim, Write, Read, IoError, Finish, Release, SerialTypes
    <2>3. reader' \in Seq(ReaderAction)
      <3>1. CASE Write(c) /\ Dev(c) # "receipt_printer"
        <4>1. asks[c] \in ReaderAction
          BY <2>a, <3>1, BoothAssumption DEF Dev, Device, ReaderAction, AllActions
        <4> QED
          BY <3>1, <4>1 DEF Write, SerialTypes
      <3>2. CASE ~(Write(c) /\ Dev(c) # "receipt_printer")
        BY <1>4, <3>2 DEF Claim, Write, Read, IoError, SerialTypes
      <3> QED
        BY <3>1, <3>2
    <2>4. buffer' \in Answer \cup {None} /\ posts' = posts
      BY <1>4 DEF Claim, Write, Read, IoError, SerialTypes
    <2>5. UNCHANGED <<openerVars, relayVars, pollerVars, row, history>>
      BY <1>4 DEF Claim, Write, Read, IoError
    <2> QED
      BY <2>1, <2>2, <2>3, <2>4, <2>5 DEF ServerTypes, SerialTypes, OpenerTypes, RelayTypes,
         PollerTypes, RestTypes, Wired, openerVars, relayVars, pollerVars, history
  <1> QED
    BY <1>1, <1>2, <1>3, <1>4 DEF ClientStep

\* A queue of calls of n openers is one of more openers.
LEMMA MoreOpeners ==
    ASSUME NEW n \in Nat, NEW m \in Nat, n <= m, NEW q \in Seq(Call(n))
    PROVE  q \in Seq(Call(m))
  <1>1. Call(n) \subseteq Call(m)
    BY DEF Call
  <1>2. \A k \in 1..Len(q) : q[k] \in Call(m)
    BY <1>1
  <1> QED
    BY <1>2

\* The steps of the reader, the relay, the poller, the refresher and the process
\* keep the types.
LEMMA OtherTypes ==
    ASSUME Types,
           \/ Post \/ ReaderAnswers
           \/ (\E i \in DOMAIN opening : Raise(i) \/ Lower(i))
           \/ (\E k \in BoothCards : Tap(k))
           \/ PollerStep \/ CooldownOver \/ Unplug
           \/ (\E r \in GateRows : Edit(r))
           \/ Refresh \/ Crash \/ UNCHANGED vars
    PROVE  Types'
  <1> USE DEF Types
  <1>1. CASE Post
    <2>1. posts' \in Nat /\ booked' \in Nat
      BY <1>1 DEF Post, ServerTypes, RestTypes
    <2> QED
      BY <1>1, <2>1 DEF Post, ServerTypes, SerialTypes, OpenerTypes, RelayTypes, PollerTypes,
         RestTypes, Asking, Wired, serialVars, openerVars, relayVars, pollerVars
  <1>2. CASE ReaderAnswers
    <2>1. reader \in Seq(ReaderAction) /\ reader # <<>>
      BY <1>2 DEF ReaderAnswers, SerialTypes
    <2>2. reader[1] \in ReaderAction /\ Tail(reader) \in Seq(ReaderAction)
      BY <2>1
    <2>3. PICK s \in Statuses :
             /\ buffer' = IF "emoney_reader" \in port /\ buffer = None
                          THEN [to |-> reader[1], status |-> s] ELSE buffer
             /\ due' = IF reader[1] = "emoney_deduct" /\ s = "SUCCESS"
                       THEN [due EXCEPT !["pay"] = @ + 1] ELSE due
      BY <1>2 DEF ReaderAnswers
    <2>4. buffer' \in Answer \cup {None}
      BY <2>2, <2>3 DEF Answer, SerialTypes
    <2>5. due' \in [{"pay", "card"} -> Nat]
      BY <2>3 DEF RestTypes
    <2> QED
      BY <1>2, <2>2, <2>4, <2>5 DEF ReaderAnswers, ServerTypes, SerialTypes, OpenerTypes, RelayTypes,
         PollerTypes, RestTypes, Asking, Wired, serverVars, openerVars, relayVars, pollerVars
  <1>3. ASSUME NEW i \in DOMAIN opening, Raise(i) \/ Lower(i) PROVE Types'
    <2>1. /\ UNCHANGED <<posts, serialVars, openerVars, last, taps, audience, row, inputs, due, booked>>
          /\ barrier' \in {"up", "down"}
      BY <1>3 DEF Raise, Lower, RelayTypes, history
    <2>2. opened' \in [{"pay", "card"} -> Nat]
      BY <1>3 DEF Raise, Lower, RestTypes, history
    <2>3. CASE Return(i)
      BY <2>1, <2>2, <2>3, Returned DEF ServerTypes, SerialTypes, OpenerTypes, RelayTypes,
         PollerTypes, RestTypes, Wired, serialVars, openerVars
    <2>4. CASE opening' = [opening EXCEPT ![i].up = TRUE] /\ UNCHANGED <<client, asks, answer, poller>>
      <3>1. opening \in Seq(Call(Len(openers))) /\ Len(openers) \in Nat /\ i \in 1..Len(opening)
        BY DEF RelayTypes, OpenerTypes
      <3>2. opening' \in Seq(Call(Len(openers)))
        BY <2>4, <3>1, CallRaised
      <3> QED
        BY <2>1, <2>2, <2>4, <3>2 DEF ServerTypes, SerialTypes, OpenerTypes, RelayTypes,
           PollerTypes, RestTypes, Asking, Wired, serialVars, openerVars
    <2> QED
      BY <1>3, <2>3, <2>4 DEF Raise, Lower
  <1>4. ASSUME NEW k \in BoothCards, Tap(k) PROVE Types'
    <2>1. taps' \in Seq(BoothCards) /\ inputs' \in 0..MaxInputs
      BY <1>4, BoothAssumption DEF Tap, Input, PollerTypes, RestTypes
    <2> QED
      BY <1>4, <2>1 DEF Tap, ServerTypes, SerialTypes, OpenerTypes, RelayTypes, PollerTypes,
         RestTypes, Asking, Wired, serverVars, serialVars, openerVars, relayVars
  <1>5. CASE TakeTap \/ CooldownOver \/ Plug \/ Unplug \/ Supervise
    <2>1. /\ poller' \in {"none", "off", "on", "api", "tell", "deny", "open", "dead"}
          /\ poller' # "none" => poller # "none"
      BY <1>5 DEF TakeTap, CooldownOver, Plug, Unplug, Supervise, PollerTypes
    <2>2. taps' \in Seq(BoothCards) /\ last' \in BoothCards \cup {None}
      <3>1. <<>> \in Seq(BoothCards)
        OBVIOUS
      <3>2. CASE TakeTap
        <4>1. taps \in Seq(BoothCards) /\ taps # <<>>
          BY <3>2 DEF TakeTap, PollerTypes
        <4>2. taps[1] \in BoothCards /\ Tail(taps) \in Seq(BoothCards)
          BY <4>1
        <4> QED
          BY <3>2, <4>2 DEF TakeTap, PollerTypes
      <3> QED
        BY <1>5, <3>1, <3>2 DEF CooldownOver, Plug, Unplug, Supervise, PollerTypes
    <2>3. UNCHANGED <<serverVars, serialVars, openerVars, relayVars, audience, row, history>>
      BY <1>5 DEF TakeTap, CooldownOver, Plug, Unplug, Supervise
    <2> QED
      BY <2>1, <2>2, <2>3 DEF ServerTypes, SerialTypes, OpenerTypes, RelayTypes, PollerTypes,
         RestTypes, Asking, Wired, serverVars, serialVars, openerVars, relayVars, history
  <1>6. CASE Settle
    <2>1. due' \in [{"pay", "card"} -> Nat]
      BY <1>6 DEF Settle, RestTypes
    <2> QED
      BY <1>6, <2>1 DEF Settle, Connected, ServerTypes, SerialTypes, OpenerTypes, RelayTypes,
         PollerTypes, RestTypes, Asking, Wired, serverVars, serialVars, openerVars, relayVars
  <1>7. CASE Told
    <2>1. opening' \in Seq(Call(Len(openers)))
      <3>1. pollOpener \in 1..Len(openers)
        BY <1>7 DEF Told, Wired, OpenerTypes
      <3>2. [by |-> "card", op |-> pollOpener, up |-> FALSE] \in Call(Len(openers))
        BY <3>1 DEF Call, Callers
      <3>3. Append(opening, [by |-> "card", op |-> pollOpener, up |-> FALSE])
              \in Seq(Call(Len(openers)))
        BY <3>2 DEF RelayTypes
      <3> QED
        BY <1>7, <3>3 DEF Told, CallOpen, RelayTypes
    <2>2. taps' \in Seq(BoothCards)
      <3>1. <<>> \in Seq(BoothCards)
        OBVIOUS
      <3> QED
        BY <1>7, <3>1 DEF Told, PollerTypes
    <2> QED
      BY <1>7, <2>1, <2>2 DEF Told, ServerTypes, SerialTypes, OpenerTypes, RelayTypes,
         PollerTypes, RestTypes, Asking, Wired, serverVars, serialVars, openerVars, history
  <1>8. ASSUME NEW r \in GateRows, Edit(r) PROVE Types'
    <2>1. inputs' \in 0..MaxInputs
      BY <1>8, BoothAssumption DEF Edit, Input, RestTypes
    <2> QED
      BY <1>8, <2>1 DEF Edit, ServerTypes, SerialTypes, OpenerTypes, RelayTypes, PollerTypes,
         RestTypes, Asking, Wired, serverVars, serialVars, openerVars, relayVars, pollerVars
  <1>9. CASE Refresh
    <2>1. CASE Stale
      <3>1. /\ openers' = Append(openers, row) /\ live' = Len(openers') /\ wsOpener' = live'
        BY <1>9, <2>1 DEF Refresh
      <3>2. /\ openers' \in Seq(GateRows) /\ Len(openers') = Len(openers) + 1
            /\ Len(openers) \in Nat
        BY <3>1 DEF OpenerTypes, RestTypes
      <3>3. /\ poller' \in {poller, "off"} /\ pollOpener' \in {pollOpener, live'}
            /\ poller' # "none" => pollOpener' = live'
        BY <1>9, <2>1 DEF Refresh, Rewired
      <3>4. OpenerTypes' /\ Wired'
        BY <3>1, <3>2, <3>3 DEF OpenerTypes, Wired
      <3>5. opening' \in Seq(Call(Len(openers')))
        <4>1. opening' = opening /\ opening \in Seq(Call(Len(openers)))
          BY <1>9 DEF Refresh, relayVars, RelayTypes
        <4> QED
          BY <3>2, <4>1, MoreOpeners
      <3>6. RelayTypes'
        BY <1>9, <3>5 DEF Refresh, relayVars, RelayTypes
      <3> QED
        BY <1>9, <3>3, <3>4, <3>6 DEF Refresh, ServerTypes, SerialTypes, PollerTypes,
           RestTypes, Asking, serverVars, serialVars, history
    <2>2. CASE ~Stale
      <3>1. /\ UNCHANGED <<openers, live, wsOpener>> /\ poller' = "off" /\ pollOpener' = live
            /\ live # 0
        BY <1>9, <2>2 DEF Refresh, Stale
      <3> QED
        BY <1>9, <3>1 DEF Refresh, ServerTypes, SerialTypes, OpenerTypes, RelayTypes, PollerTypes,
           RestTypes, Asking, Wired, serverVars, serialVars, relayVars, history
    <2> QED
      BY <2>1, <2>2
  <1>10. CASE Crash
    <2>1. PICK f \in BOOLEAN : Boot(row, f)
      BY <1>10 DEF Crash
    <2>2. row \in GateRows /\ inputs' \in 0..MaxInputs
      BY <1>10, BoothAssumption DEF Crash, Input, RestTypes
    <2>3. /\ openers' \in Seq(GateRows)
          /\ Len(openers') = IF f THEN 1 ELSE 0
      <3>1. CASE f
        BY <2>1, <2>2, <3>1 DEF Boot
      <3>2. CASE ~f
        BY <2>1, <3>2 DEF Boot
      <3> QED
        BY <3>1, <3>2
    <2>4. OpenerTypes' /\ Wired'
      BY <2>1, <2>3 DEF Boot, OpenerTypes, Wired
    <2>5. ServerTypes' /\ Asking'
      BY <2>1 DEF Boot, ServerTypes, Asking, Busy
    <2>6. SerialTypes'
      BY <1>10, <2>1 DEF Boot, Crash, PortsAtStart, SerialTypes
    <2>7. RelayTypes'
      <3>1. <<>> \in Seq(Call(Len(openers')))
        OBVIOUS
      <3> QED
        BY <1>10, <2>1, <3>1 DEF Boot, Crash, RelayTypes
    <2>8. PollerTypes'
      BY <2>1 DEF Boot, PollerTypes
    <2> QED
      BY <1>10, <2>2, <2>4, <2>5, <2>6, <2>7, <2>8 DEF Crash, RestTypes
  <1>11. CASE UNCHANGED vars
    BY <1>11 DEF vars, ServerTypes, SerialTypes, OpenerTypes, RelayTypes, PollerTypes, RestTypes,
       Asking, Wired, serverVars, serialVars, openerVars, relayVars, pollerVars, history
  <1> QED
    BY <1>1, <1>2, <1>3, <1>4, <1>5, <1>6, <1>7, <1>8, <1>9, <1>10, <1>11 DEF PollerStep

\* Every step keeps the types.
LEMMA StepTypes == Types /\ [Next]_vars => Types'
  BY ClientTypes, OtherTypes DEF Next

\* The states of the bridge have their types, for any number of clients, requests and
\* openers: no exchange without a request, no call of an opener that does not exist
\* (websocket_server.py, serial_manager.py, main.py).
THEOREM BoothTypes == Spec => []TypeOK
  <1>1. Types => TypeOK
    <2> SUFFICES ASSUME Types PROVE TypeOK
      OBVIOUS
    <2>1. opening \in Seq([by : Callers, op : DOMAIN openers, up : BOOLEAN])
      <3>1. DOMAIN openers = 1..Len(openers)
        BY DEF Types, OpenerTypes
      <3> QED
        BY <3>1 DEF Types, RelayTypes, Call
    <2> QED
      BY <2>1 DEF Types, ServerTypes, SerialTypes, OpenerTypes, RelayTypes, PollerTypes, RestTypes,
         TypeOK
  <1> QED
    BY <1>1, InitTypes, StepTypes, PTL DEF Spec

-----------------------------------------------------------------------------
(* The wire of a device *)

\* Whoever is on the wire keeps holding the lock, whatever the others do.
LEMMA HoldingStep == Types /\ Holding /\ [Next]_vars => Holding'
  <1> SUFFICES ASSUME Types, Holding, [Next]_vars PROVE Holding'
    OBVIOUS
  <1> USE BoothAssumption DEF Holding, OnWire
  <1>0. /\ ServerTypes /\ Asking
        /\ holder \in [Devices -> Clients \cup {None}] /\ \A c \in Clients : Dev(c) \in Devices
    BY DEF Types, SerialTypes, Dev, Device, Devices
  <1>1. ASSUME UNCHANGED holder,
               \A d \in Clients : client'[d] \in OnWire => client[d] \in OnWire /\ asks'[d] = asks[d]
        PROVE  Holding'
    BY <1>1 DEF Dev
  <1>2. ASSUME NEW c \in Clients, Release(c), client'[c] \notin OnWire, client[c] \in OnWire,
               \A d \in Clients \ {c} : client'[d] = client[d] /\ asks'[d] = asks[d]
        PROVE  Holding'
    BY <1>0, <1>2 DEF Release, Dev
  <1>3. ASSUME NEW c \in Clients, Claim(c) PROVE Holding'
    <2>1. CASE Reply(c) /\ UNCHANGED holder
      BY <1>0, <1>1, <2>1, Replied
    <2>2. CASE At(c, "write") /\ holder' = [holder EXCEPT ![Dev(c)] = c] /\ UNCHANGED asks
      BY <1>0, <1>3, <2>2 DEF Claim, At, ServerTypes, Dev
    <2> QED
      BY <1>3, <2>1, <2>2 DEF Claim
  <1>4. ASSUME NEW c \in Clients, Write(c) \/ Read(c) \/ IoError(c) PROVE Holding'
    <2>0. client[c] \in OnWire
      BY <1>4 DEF Write, Read, IoError
    <2>1. CASE Finish(c)
      <3>1. /\ Release(c) /\ client'[c] \notin OnWire
            /\ \A d \in Clients \ {c} : client'[d] = client[d] /\ asks'[d] = asks[d]
        BY <1>0, <2>1, Replied DEF Finish
      <3> QED
        BY <1>2, <2>0, <3>1
    <2>2. CASE At(c, "got") /\ Release(c) /\ UNCHANGED asks
      <3>1. /\ client'[c] \notin OnWire
            /\ \A d \in Clients \ {c} : client'[d] = client[d] /\ asks'[d] = asks[d]
        BY <1>0, <2>2 DEF At, ServerTypes
      <3> QED
        BY <1>2, <2>0, <2>2, <3>1
    <2>3. CASE (\E s : At(c, s)) /\ UNCHANGED <<holder, asks>>
      <3>1. \A d \in Clients : client'[d] \in OnWire => client[d] \in OnWire /\ asks'[d] = asks[d]
        BY <1>0, <2>0, <2>3 DEF At, ServerTypes
      <3> QED
        BY <1>1, <2>3, <3>1
    <2> QED
      BY <1>4, <2>1, <2>2, <2>3 DEF Write, Read, IoError
  <1>5. ASSUME NEW c \in Clients, Conclude(c) PROVE Holding'
    <2>1. UNCHANGED holder /\ Reply(c)
      BY <1>5 DEF Conclude, serialVars
    <2> QED
      BY <1>0, <1>1, <2>1, Replied
  <1>6. ASSUME NEW c \in Clients, Connect(c) \/ Disconnect(c) \/ \E a \in Actions : Ask(c, a)
        PROVE  Holding'
    <2>1. UNCHANGED holder
      BY <1>6 DEF Connect, Disconnect, Ask, serialVars
    <2>2. \A d \in Clients : client'[d] \in OnWire => client[d] \in OnWire /\ asks'[d] = asks[d]
      BY <1>0, <1>6 DEF Connect, Disconnect, Ask, At, ServerTypes
    <2> QED
      BY <1>1, <2>1, <2>2
  <1>7. ASSUME NEW i \in DOMAIN opening, Raise(i) \/ Lower(i) PROVE Holding'
    <2>1. UNCHANGED holder
      BY <1>7 DEF Raise, Lower, serialVars
    <2>2. Return(i) \/ UNCHANGED <<client, asks, answer>>
      BY <1>7 DEF Raise, Lower
    <2>3. \A d \in Clients : client'[d] \in OnWire => client[d] \in OnWire /\ asks'[d] = asks[d]
      BY <2>2, Returned
    <2> QED
      BY <1>1, <2>1, <2>3
  <1>8. CASE Crash
    <2>1. \A d \in Clients : client'[d] = "away"
      BY <1>8 DEF Crash, Boot
    <2> QED
      BY <2>1
  <1>9. CASE UNCHANGED <<client, asks, holder>>
    BY <1>1, <1>9
  <1>10. \/ (\E c \in Clients : Claim(c) \/ Write(c) \/ Read(c) \/ IoError(c) \/ Conclude(c)
               \/ Connect(c) \/ Disconnect(c) \/ \E a \in Actions : Ask(c, a))
         \/ (\E i \in DOMAIN opening : Raise(i) \/ Lower(i))
         \/ Crash \/ UNCHANGED <<client, asks, holder>>
    BY DEF Next, ClientStep, PollerStep, Post, ReaderAnswers, Tap, TakeTap, Settle, Told, Plug,
       Supervise, CooldownOver, Unplug, Edit, Refresh, vars, serverVars, serialVars
  <1> QED
    BY <1>3, <1>4, <1>5, <1>6, <1>7, <1>8, <1>9, <1>10

\* Two threads are never on the wire of the same device, whatever errors, reconnects,
\* crashes and disconnects happen: what is read between a reset and a release is
\* the answer to nobody else's frame in the meantime (serial_manager.py send).
THEOREM WireExclusive == Spec => []OneExchange
  <1>1. Init => Holding
    BY DEF Init, Holding, OnWire
  <1>2. Types /\ Holding => OneExchange
    BY BoothAssumption DEF Holding, OneExchange
  <1> QED
    BY <1>1, <1>2, InitTypes, StepTypes, HoldingStep, PTL DEF Spec

-----------------------------------------------------------------------------
(* The relay *)

\* What the steps do to the queue of calls: they append a call that has not raised
\* the barrier, raise it for one, take one out, or start anew.
QueueStep ==
    \/ UNCHANGED <<opening, barrier>> /\ openers' \in {openers, Append(openers, row)}
    \/ /\ UNCHANGED <<barrier, openers>>
       /\ \E w \in Callers, o \in 1..Len(openers) : CallOpen(w, o)
    \/ \E i \in DOMAIN opening : Raise(i) \/ Lower(i)
    \/ opening' = <<>>

\* Every step is one of these.
LEMMA QueueFrame ==
    ASSUME Types, [Next]_vars
    PROVE  QueueStep
  <1> USE DEF QueueStep
  <1>0. /\ Len(openers) \in Nat /\ wsOpener \in 0..Len(openers) /\ pollOpener \in 0..Len(openers)
    BY DEF Types, OpenerTypes
  <1>1. ASSUME NEW c \in Clients,
               \/ Connect(c) \/ Disconnect(c) \/ Claim(c) \/ Write(c) \/ Read(c) \/ IoError(c)
        PROVE  QueueStep
    BY <1>1 DEF Connect, Disconnect, Claim, Write, Read, IoError, relayVars, openerVars
  <1>2. ASSUME NEW c \in Clients, NEW a \in Actions, Ask(c, a) PROVE QueueStep
    <2>1. UNCHANGED <<barrier, openers>>
      BY <1>2 DEF Ask, openerVars
    <2>2. UNCHANGED opening \/ (wsOpener # 0 /\ CallOpen(c, wsOpener))
      BY <1>2 DEF Ask
    <2>3. c \in Callers
      BY DEF Callers
    <2>4. wsOpener # 0 => wsOpener \in 1..Len(openers)
      BY <1>0
    <2> QED
      BY <2>1, <2>2, <2>3, <2>4
  <1>3. ASSUME NEW c \in Clients, Conclude(c) PROVE QueueStep
    <2>1. UNCHANGED <<barrier, openers>>
      BY <1>3 DEF Conclude, openerVars
    <2>2. UNCHANGED opening \/ (wsOpener # 0 /\ CallOpen("pay", wsOpener))
      BY <1>3 DEF Conclude
    <2>3. "pay" \in Callers
      BY DEF Callers
    <2>4. wsOpener # 0 => wsOpener \in 1..Len(openers)
      BY <1>0
    <2> QED
      BY <2>1, <2>2, <2>3, <2>4
  <1>4. CASE Told
    <2>1. pollOpener \in 1..Len(openers)
      BY <1>0, <1>4 DEF Told, Types, Wired
    <2>2. UNCHANGED <<barrier, openers>>
      BY <1>4 DEF Told, openerVars
    <2>3. UNCHANGED opening \/ CallOpen("card", pollOpener)
      BY <1>4 DEF Told
    <2>4. "card" \in Callers
      BY DEF Callers
    <2> QED
      BY <2>1, <2>2, <2>3, <2>4
  <1>5. CASE Crash
    BY <1>5 DEF Crash, Boot
  <1>6. CASE Refresh
    BY <1>6 DEF Refresh, relayVars
  <1> QED
    BY <1>1, <1>2, <1>3, <1>4, <1>5, <1>6 DEF Next, ClientStep, PollerStep, Post, ReaderAnswers, Tap,
       TakeTap, Settle, Plug, Supervise, CooldownOver, Unplug, Edit, vars, relayVars, openerVars

\* What a call of open() does to the queue, by what it leaves there.
LEMMA RelayStep ==
    ASSUME Types, NEW i \in DOMAIN opening, Raise(i) \/ Lower(i)
    PROVE  /\ UNCHANGED openers
           /\ \/ Return(i)
              \/ /\ Raise(i) /\ opening' = [opening EXCEPT ![i].up = TRUE] /\ barrier' = "up"
                 /\ UNCHANGED <<client, asks, answer, poller>>
           /\ barrier' = "down" => barrier = "down" \/ opening[i].up
           /\ Raise(i) => HasLock(i) /\ ~opening[i].up
  BY DEF Raise, Lower, openerVars, Types, RelayTypes

\* The order of arrival decides about an opener's lock.
LEMMA LockStep == Types /\ UpHasLock /\ [Next]_vars => UpHasLock'
  <1> SUFFICES ASSUME Types, UpHasLock, [Next]_vars PROVE UpHasLock'
    OBVIOUS
  <1>0. opening \in Seq(Call(Len(openers))) /\ DOMAIN opening = 1..Len(opening)
    BY DEF Types, RelayTypes
  <1> DEFINE Locked(q) ==
               \A k \in 1..Len(q) : q[k].up => \A j \in 1..(k - 1) : q[j].op # q[k].op
  <1>1. Locked(opening)
    BY <1>0 DEF UpHasLock, HasLock
  <1>2. opening' \in Seq(Call(Len(openers'))) /\ DOMAIN opening' = 1..Len(opening')
    BY StepTypes DEF Types, RelayTypes
  <1>3. SUFFICES Locked(opening')
    BY <1>2 DEF UpHasLock, HasLock
  <1>4. CASE UNCHANGED opening
    BY <1>1, <1>4
  <1>5. CASE opening' = <<>>
    BY <1>5
  <1>6. ASSUME NEW w \in Callers, NEW o \in 1..Len(openers), CallOpen(w, o) PROVE Locked(opening')
    <2>1. /\ Len(opening') = Len(opening) + 1
          /\ \A k \in 1..Len(opening) : opening'[k] = opening[k]
          /\ opening'[Len(opening) + 1] = [by |-> w, op |-> o, up |-> FALSE]
      BY <1>0, <1>6 DEF CallOpen
    <2> QED
      BY <1>0, <1>1, <2>1
  <1>7. ASSUME NEW i \in DOMAIN opening, Raise(i) \/ Lower(i) PROVE Locked(opening')
    <2>1. CASE Return(i)
      <3>1. /\ Len(opening') = Len(opening) - 1
            /\ \A k \in 1..Len(opening') :
                 opening'[k] = IF k < i THEN opening[k] ELSE opening[k + 1]
        BY <2>1, Returned
      <3> SUFFICES ASSUME NEW k \in 1..Len(opening'), opening'[k].up, NEW j \in 1..(k - 1)
                   PROVE  opening'[j].op # opening'[k].op
        OBVIOUS
      <3>2. /\ j \in 1..Len(opening') /\ j \in 1..Len(opening) /\ j + 1 \in 1..Len(opening)
            /\ k \in 1..Len(opening) /\ k + 1 \in 1..Len(opening) /\ i \in 1..Len(opening)
        BY <1>0, <3>1
      <3>3. CASE k < i
        BY <1>1, <3>1, <3>2, <3>3
      <3>4. CASE ~(k < i)
        <4>1. opening'[k] = opening[k + 1] /\ opening[k + 1].up
          BY <3>1, <3>4
        <4>2. \A n \in 1..k : opening[n].op # opening[k + 1].op
          BY <1>1, <3>2, <4>1
        <4>3. opening'[j] = opening[j] \/ opening'[j] = opening[j + 1]
          BY <3>1, <3>2
        <4> QED
          BY <3>2, <4>1, <4>2, <4>3
      <3> QED
        BY <3>3, <3>4
    <2>2. CASE Raise(i) /\ opening' = [opening EXCEPT ![i].up = TRUE]
      <3>1. /\ Len(opening') = Len(opening)
            /\ \A k \in 1..Len(opening) :
                 opening'[k].op = opening[k].op /\ (k # i => opening'[k] = opening[k])
        BY <1>0, <2>2, CallRaised DEF Types, OpenerTypes
      <3>2. \A j \in 1..(i - 1) : opening[j].op # opening[i].op
        BY <2>2 DEF Raise, HasLock
      <3> QED
        BY <1>0, <1>1, <3>1, <3>2
    <2> QED
      BY <1>7, <2>1, <2>2, RelayStep
  <1> QED
    BY <1>4, <1>5, <1>6, <1>7, QueueFrame DEF QueueStep

\* With one opener the close command of a call finds no other between open and
\* close.
LEMMA UncutStep == Types /\ UpHasLock /\ Uncut /\ [Next]_vars => Uncut'
  <1> SUFFICES ASSUME Types, UpHasLock, Uncut, [Next]_vars, Len(openers') = 1,
                      NEW k \in DOMAIN opening', opening'[k].up
               PROVE  barrier' = "up"
    BY DEF Uncut
  <1>0. /\ opening \in Seq(Call(Len(openers))) /\ DOMAIN opening = 1..Len(opening)
        /\ openers \in Seq(GateRows) /\ Len(openers) \in Nat /\ barrier \in {"up", "down"}
        /\ row \in GateRows
    BY DEF Types, RelayTypes, OpenerTypes, RestTypes
  <1>1. opening' \in Seq(Call(Len(openers'))) /\ k \in 1..Len(opening') /\ barrier' \in {"up", "down"}
    BY StepTypes DEF Types, RelayTypes
  <1>2. CASE UNCHANGED <<opening, barrier>> /\ openers' \in {openers, Append(openers, row)}
    <2>1. k \in 1..Len(opening) /\ opening[k] \in Call(Len(openers))
      BY <1>0, <1>1, <1>2
    <2>2. Len(openers) # 0
      BY <2>1 DEF Call
    <2>3. Len(openers) = 1
      BY <1>0, <1>2, <2>2
    <2> QED
      BY <1>0, <1>2, <2>1, <2>3 DEF Uncut
  <1>3. CASE opening' = <<>>
    BY <1>1, <1>3
  <1>4. ASSUME NEW w \in Callers, NEW o \in 1..Len(openers), CallOpen(w, o),
               UNCHANGED <<barrier, openers>>
        PROVE  barrier' = "up"
    <2>1. /\ Len(opening') = Len(opening) + 1
          /\ \A j \in 1..Len(opening) : opening'[j] = opening[j]
          /\ opening'[Len(opening) + 1] = [by |-> w, op |-> o, up |-> FALSE]
      BY <1>0, <1>4 DEF CallOpen
    <2>2. k \in 1..Len(opening) /\ opening[k].up
      BY <1>0, <1>1, <2>1
    <2> QED
      BY <1>0, <1>4, <2>2 DEF Uncut
  <1>5. ASSUME NEW i \in DOMAIN opening, Raise(i) \/ Lower(i) PROVE barrier' = "up"
    <2>1. Len(openers) = 1
      BY <1>5, RelayStep
    <2>2. CASE Return(i)
      <3>1. PICK n \in 1..Len(opening) : n # i /\ opening'[k] = opening[n]
        <4>1. /\ Len(opening') = Len(opening) - 1
              /\ opening'[k] = IF k < i THEN opening[k] ELSE opening[k + 1]
          BY <1>1, <2>2, Returned
        <4> QED
          BY <1>0, <1>1, <4>1
      <3>2. opening[n].up /\ barrier = "up"
        BY <1>0, <2>1, <3>1 DEF Uncut
      <3>3. opening[n] \in Call(1) /\ opening[i] \in Call(1)
        BY <1>0, <2>1
      <3>4. opening[n].op = 1 /\ opening[i].op = 1
        BY <3>3 DEF Call
      <3>5. HasLock(n)
        BY <1>0, <3>2 DEF UpHasLock
      <3>6. ~opening[i].up
        <4>1. opening[i].up => HasLock(i)
          BY DEF UpHasLock
        <4> QED
          BY <1>0, <3>1, <3>4, <3>5, <4>1 DEF HasLock
      <3> QED
        BY <1>1, <1>5, <3>2, <3>6, RelayStep
    <2> QED
      BY <1>5, <2>2, RelayStep
  <1> QED
    BY <1>2, <1>3, <1>4, <1>5, QueueFrame DEF QueueStep

\* The POS, the member reader and the heartbeat name the same opener whenever one is
\* replaced or a poller started; and as long as the process has built one opener, no
\* close command cuts another caller's opening short (main.py _refresh_gate_config,
\* gate_opener.py open).
THEOREM OneCycle == Spec => []CycleWhole
  <1>1. Init => UpHasLock /\ Uncut
    BY DEF Init, UpHasLock, Uncut
  <1>2. Types /\ Uncut => CycleWhole
    BY DEF Types, Wired, Uncut, CycleWhole
  <1> QED
    BY <1>1, <1>2, InitTypes, StepTypes, LockStep, UncutStep, PTL DEF Spec

-----------------------------------------------------------------------------
(* Openings and what entitles to them *)

\* The calls of w that have not raised the barrier yet.
Waiting(q, w) == {k \in 1..Len(q) : q[k].by = w /\ ~q[k].up}

\* An answer that raises the barrier if a deduction's thread reads it.
Paid(x) == x # None /\ x.to = "emoney_deduct" /\ x.status = "SUCCESS"

\* The handlers with such an answer in hand.
Holders == {c \in Clients : Paid(answer[c])}

\* Every charge is behind one of: an opening, a call that waits, an answer in a
\* handler's hands, an answer in the port's buffer; and every recorded member exit
\* behind an opening, a call that waits, or the poller's broadcast.
PayBacked ==
    opened["pay"] + Cardinality(Waiting(opening, "pay")) + Cardinality(Holders)
        + (IF Paid(buffer) THEN 1 ELSE 0) <= due["pay"]

CardBacked ==
    opened["card"] + Cardinality(Waiting(opening, "card"))
        + (IF poller = "tell" THEN 1 ELSE 0) <= due["card"]

\* The calls that wait are finitely many.
LEMMA WaitingFinite ==
    ASSUME NEW n \in Nat, NEW q \in Seq(Call(n)), NEW w
    PROVE  IsFiniteSet(Waiting(q, w)) /\ Cardinality(Waiting(q, w)) \in Nat
  <1>1. IsFiniteSet(1..Len(q))
    BY FS_Interval
  <1>2. Waiting(q, w) \in SUBSET (1..Len(q))
    BY DEF Waiting
  <1>3. IsFiniteSet(Waiting(q, w))
    BY <1>1, <1>2, FS_Subset
  <1> QED
    BY <1>3, FS_CardinalityType

\* One more call of v is one more call of v that waits, and of nobody else.
LEMMA WaitingAppended ==
    ASSUME NEW n \in Nat, NEW q \in Seq(Call(n)), NEW v, NEW o, NEW w
    PROVE  Cardinality(Waiting(Append(q, [by |-> v, op |-> o, up |-> FALSE]), w))
             = Cardinality(Waiting(q, w)) + (IF v = w THEN 1 ELSE 0)
  <1> DEFINE r == [by |-> v, op |-> o, up |-> FALSE]
             t == Append(q, r)
  <1>1. r.by = v /\ ~r.up
    OBVIOUS
  <1>2. /\ Len(t) = Len(q) + 1 /\ Len(q) \in Nat
        /\ \A k \in 1..Len(q) : t[k] = q[k]
        /\ t[Len(q) + 1] = r
    OBVIOUS
  <1> HIDE DEF r, t
  <1>3. CASE v = w
    <2>1. Waiting(t, w) = Waiting(q, w) \cup {Len(q) + 1}
      BY <1>1, <1>2, <1>3 DEF Waiting
    <2>2. Len(q) + 1 \notin Waiting(q, w)
      BY <1>2 DEF Waiting
    <2> QED
      BY <1>3, <2>1, <2>2, WaitingFinite, FS_AddElement DEF t, r
  <1>4. CASE v # w
    <2>1. Waiting(t, w) = Waiting(q, w)
      BY <1>1, <1>2, <1>4 DEF Waiting
    <2> QED
      BY <1>4, <2>1, WaitingFinite DEF t, r
  <1> QED
    BY <1>3, <1>4

\* Without the i-th call, at most those calls of w wait that are not the i-th.
LEMMA WaitingReturned ==
    ASSUME NEW n \in Nat, NEW q \in Seq(Call(n)), NEW i \in 1..Len(q), NEW t \in Seq(Call(n)),
           Len(t) = Len(q) - 1,
           \A k \in 1..Len(t) : t[k] = IF k < i THEN q[k] ELSE q[k + 1],
           NEW w
    PROVE  Cardinality(Waiting(t, w))
             <= Cardinality(Waiting(q, w)) - (IF i \in Waiting(q, w) THEN 1 ELSE 0)
  <1> DEFINE S == Waiting(t, w)
             T == Waiting(q, w) \ {i}
             f == [k \in S |-> IF k < i THEN k ELSE k + 1]
  <1>1. IsFiniteSet(T) /\ Cardinality(T) = Cardinality(Waiting(q, w))
                                             - (IF i \in Waiting(q, w) THEN 1 ELSE 0)
    <2>1. IsFiniteSet(Waiting(q, w)) /\ Cardinality(Waiting(q, w)) \in Nat
      BY WaitingFinite
    <2>2. /\ IsFiniteSet(Waiting(q, w) \ {i})
          /\ Cardinality(Waiting(q, w) \ {i}) = IF i \in Waiting(q, w) THEN Cardinality(Waiting(q, w)) - 1
                                                ELSE Cardinality(Waiting(q, w))
      BY <2>1, FS_RemoveElement
    <2> QED
      BY <2>1, <2>2
  <1>2. ASSUME NEW k \in S PROVE f[k] \in T
    <2>1. k \in 1..Len(t) /\ t[k].by = w /\ ~t[k].up
      BY DEF Waiting
    <2>2. Len(q) \in Nat /\ i \in Nat /\ k \in Nat /\ Len(t) = Len(q) - 1
      BY <2>1
    <2>3. CASE k < i
      <3>1. f[k] = k /\ t[k] = q[k] /\ k \in 1..Len(q) /\ k # i
        BY <2>1, <2>2, <2>3
      <3> QED
        BY <2>1, <3>1 DEF Waiting
    <2>4. CASE ~(k < i)
      <3>1. f[k] = k + 1 /\ t[k] = q[k + 1] /\ k + 1 \in 1..Len(q) /\ k + 1 # i
        BY <2>1, <2>2, <2>4
      <3> QED
        BY <2>1, <3>1 DEF Waiting
    <2> QED
      BY <2>3, <2>4
  <1>3. \A k, j \in S : f[k] = f[j] => k = j
    BY DEF Waiting
  <1>4. f \in Injection(S, T)
    BY <1>2, <1>3 DEF Injection, IsInjective
  <1>5. Cardinality(S) <= Cardinality(T)
    <2> HIDE DEF S, T, f
    <2> QED
      BY <1>1, <1>4, FS_Injection
  <1> QED
    BY <1>1, <1>5

\* The call that raises the barrier waits no more.
LEMMA WaitingRaised ==
    ASSUME NEW n \in Nat, NEW q \in Seq(Call(n)), NEW i \in 1..Len(q), NEW w
    PROVE  Cardinality(Waiting([q EXCEPT ![i].up = TRUE], w))
             = Cardinality(Waiting(q, w)) - (IF i \in Waiting(q, w) THEN 1 ELSE 0)
  <1> DEFINE t == [q EXCEPT ![i].up = TRUE]
  <1>1. /\ Len(t) = Len(q) /\ t[i].up = TRUE
        /\ \A k \in 1..Len(q) : k # i => t[k] = q[k]
    BY CallRaised
  <1> HIDE DEF t
  <1>2. Waiting(t, w) = Waiting(q, w) \ {i}
    BY <1>1 DEF Waiting
  <1>3. IsFiniteSet(Waiting(q, w)) /\ Cardinality(Waiting(q, w)) \in Nat
    BY WaitingFinite
  <1>4. Cardinality(Waiting(q, w) \ {i}) = IF i \in Waiting(q, w) THEN Cardinality(Waiting(q, w)) - 1
                                           ELSE Cardinality(Waiting(q, w))
    BY <1>3, FS_RemoveElement
  <1>5. Cardinality(Waiting(t, w))
          = Cardinality(Waiting(q, w)) - (IF i \in Waiting(q, w) THEN 1 ELSE 0)
    BY <1>2, <1>3, <1>4
  <1> QED
    BY <1>5 DEF t

\* What a call of open() does to the calls that wait and to the openings counted.
LEMMA RelayCounts ==
    ASSUME Types, NEW i \in DOMAIN opening, Raise(i) \/ Lower(i), NEW w \in {"pay", "card"}
    PROVE  opened'[w] + Cardinality(Waiting(opening', w))
             <= opened[w] + Cardinality(Waiting(opening, w))
  <1>0. /\ opening \in Seq(Call(Len(openers))) /\ i \in 1..Len(opening) /\ Len(openers) \in Nat
        /\ opened \in [{"pay", "card"} -> Nat]
    BY DEF Types, RelayTypes, OpenerTypes, RestTypes
  <1> DEFINE n == Cardinality(Waiting(opening, w))
             m == Cardinality(Waiting(opening', w))
  <1>1. opening' \in Seq(Call(Len(openers)))
    <2>1. CASE Return(i)
      BY <2>1, Returned
    <2>2. CASE opening' = [opening EXCEPT ![i].up = TRUE]
      BY <1>0, <2>2, CallRaised
    <2> QED
      BY <2>1, <2>2, RelayStep
  <1>2. n \in Nat /\ m \in Nat
    BY <1>0, <1>1, WaitingFinite
  <1>3. m <= n - (IF i \in Waiting(opening, w) THEN 1 ELSE 0)
    <2>1. CASE Return(i)
      <3>1. /\ Len(opening') = Len(opening) - 1
            /\ \A k \in 1..Len(opening') :
                 opening'[k] = IF k < i THEN opening[k] ELSE opening[k + 1]
        BY <2>1, Returned
      <3> QED
        BY <1>0, <1>1, <3>1, WaitingReturned
    <2>2. CASE opening' = [opening EXCEPT ![i].up = TRUE]
      <3>1. m = n - (IF i \in Waiting(opening, w) THEN 1 ELSE 0)
        BY <1>0, <2>2, WaitingRaised
      <3> QED
        BY <1>2, <3>1
    <2> QED
      BY <2>1, <2>2, RelayStep
  <1>4. opened' = opened \/ (/\ opening[i].by \notin Clients /\ ~opening[i].up
                             /\ opened' = [opened EXCEPT ![opening[i].by] = @ + 1])
    BY DEF Raise, Lower, history
  <1>5. opened'[w] <= opened[w] + (IF i \in Waiting(opening, w) THEN 1 ELSE 0)
    <2>1. CASE opened' = opened
      BY <1>0, <2>1
    <2>2. CASE opening[i].by # w /\ opened' = [opened EXCEPT ![opening[i].by] = @ + 1]
      BY <1>0, <2>2
    <2>3. CASE /\ opening[i].by = w /\ ~opening[i].up
               /\ opened' = [opened EXCEPT ![opening[i].by] = @ + 1]
      <3>1. i \in Waiting(opening, w)
        BY <1>0, <2>3 DEF Waiting
      <3> QED
        BY <1>0, <2>3, <3>1
    <2> QED
      BY <1>4, <2>1, <2>2, <2>3
  <1>6. opened[w] \in Nat /\ opened'[w] \in Nat
    BY <1>0, StepTypes DEF Next, Types, RestTypes
  <1> HIDE DEF n, m
  <1>7. opened'[w] + m <= opened[w] + n
    BY <1>2, <1>3, <1>5, <1>6
  <1> QED
    BY <1>7 DEF n, m

\* Nobody but a paid deduction's handler calls open() for "pay", and nobody but the
\* poller for "card".
LEMMA OtherCalls ==
    ASSUME Types, NEW v \in Callers, NEW o \in 1..Len(openers), CallOpen(v, o),
           NEW w \in {"pay", "card"}
    PROVE  Cardinality(Waiting(opening', w))
             = Cardinality(Waiting(opening, w)) + (IF v = w THEN 1 ELSE 0)
  BY WaitingAppended DEF CallOpen, Types, RelayTypes, OpenerTypes

\* Whatever becomes of a handler, it comes by a paid answer only by reading one.
LEMMA HoldersFinite ==
    /\ IsFiniteSet(Holders) /\ Cardinality(Holders) \in Nat
    /\ \A S \in SUBSET Holders : IsFiniteSet(S) /\ Cardinality(S) <= Cardinality(Holders)
  <1>1. Holders \in SUBSET Clients
    BY DEF Holders
  <1>2. IsFiniteSet(Holders)
    BY <1>1, BoothAssumption, FS_Subset
  <1> QED
    BY <1>2, FS_CardinalityType, FS_Subset

\* Every recorded member exit backs one opening.
LEMMA CardStep == Types /\ CardBacked /\ [Next]_vars => CardBacked'
  <1> SUFFICES ASSUME Types, CardBacked, [Next]_vars PROVE CardBacked'
    OBVIOUS
  <1> DEFINE n == Cardinality(Waiting(opening, "card"))
             m == Cardinality(Waiting(opening', "card"))
             t == IF poller = "tell" THEN 1 ELSE 0
             u == IF poller' = "tell" THEN 1 ELSE 0
  <1>0. /\ opened["card"] \in Nat /\ due["card"] \in Nat
        /\ opened'["card"] \in Nat /\ due'["card"] \in Nat
    BY StepTypes DEF Types, RestTypes
  <1>1. n \in Nat /\ m \in Nat
    BY StepTypes, WaitingFinite DEF Types, RelayTypes, OpenerTypes
  <1>2. opened["card"] + n + t <= due["card"]
    BY DEF CardBacked
  <1>3. SUFFICES opened'["card"] + m + u <= due'["card"]
    BY DEF CardBacked
  <1>4. CASE UNCHANGED <<opening, opened, due>> /\ (poller' = "tell" => poller = "tell")
    BY <1>0, <1>1, <1>2, <1>4
  <1>5. ASSUME NEW c \in Clients, NEW o \in 1..Len(openers), CallOpen(c, o) \/ CallOpen("pay", o),
               UNCHANGED <<poller, opened, due>>
        PROVE  opened'["card"] + m + u <= due'["card"]
    <2>1. m = n
      BY <1>1, <1>5, OtherCalls, BoothAssumption DEF Callers
    <2> QED
      BY <1>0, <1>1, <1>2, <1>5, <2>1
  <1>6. ASSUME NEW i \in DOMAIN opening, Raise(i) \/ Lower(i)
        PROVE  opened'["card"] + m + u <= due'["card"]
    <2>1. opened'["card"] + m <= opened["card"] + n
      BY <1>6, RelayCounts
    <2>2. poller' = "tell" => poller = "tell"
      BY <1>6, RelayStep, Returned
    <2>3. due' = due
      BY <1>6 DEF Raise, Lower, history
    <2>4. u <= t /\ t \in Nat /\ u \in Nat
      BY <2>2
    <2> HIDE DEF n, m, t, u
    <2> QED
      BY <1>0, <1>1, <1>2, <2>1, <2>3, <2>4
  <1>7. CASE Told
    <2>1. pollOpener \in 1..Len(openers) /\ "card" \in Callers
      BY <1>7 DEF Told, Types, Wired, OpenerTypes, Callers
    <2>2. UNCHANGED <<opened, due>> /\ poller' # "tell"
      BY <1>7 DEF Told, history
    <2>3. CASE poller = "tell" /\ CallOpen("card", pollOpener)
      <3>1. m = n + 1
        BY <1>1, <2>1, <2>3, OtherCalls
      <3> QED
        BY <1>0, <1>1, <1>2, <2>2, <2>3, <3>1
    <2>4. CASE UNCHANGED opening
      BY <1>4, <2>2, <2>4
    <2> QED
      BY <1>7, <2>3, <2>4 DEF Told
  <1>8. CASE Settle
    <2>1. UNCHANGED <<opening, opened>> /\ poller = "api"
      BY <1>8 DEF Settle, relayVars
    <2>2. \/ due'["card"] = due["card"] + 1
          \/ due'["card"] = due["card"] /\ poller' = "deny"
      BY <1>8 DEF Settle, Types, RestTypes
    <2> QED
      BY <1>0, <1>1, <1>2, <2>1, <2>2
  <1>9. CASE ReaderAnswers
    <2>1. due'["card"] = due["card"]
      BY <1>9 DEF ReaderAnswers, Types, RestTypes
    <2>2. UNCHANGED <<opening, opened, poller>>
      BY <1>9 DEF ReaderAnswers, relayVars, pollerVars
    <2> QED
      BY <1>0, <1>1, <1>2, <2>1, <2>2
  <1>10. CASE Crash
    <2>1. opening' = <<>> /\ poller' # "tell" /\ UNCHANGED <<opened, due>>
      BY <1>10 DEF Crash, Boot
    <2>2. Waiting(opening', "card") = {}
      BY <2>1 DEF Waiting
    <2>3. m = 0
      BY <2>2, FS_EmptySet
    <2> QED
      BY <1>0, <1>1, <1>2, <2>1, <2>3
  <1>11. ASSUME NEW c \in Clients, NEW a \in Actions, Ask(c, a)
         PROVE  opened'["card"] + m + u <= due'["card"]
    <2>1. UNCHANGED <<poller, opened, due>>
      BY <1>11 DEF Ask, pollerVars
    <2>2. UNCHANGED opening \/ (wsOpener # 0 /\ CallOpen(c, wsOpener))
      BY <1>11 DEF Ask
    <2>3. wsOpener # 0 => wsOpener \in 1..Len(openers)
      BY DEF Types, OpenerTypes
    <2> QED
      BY <1>4, <1>5, <2>1, <2>2, <2>3
  <1>12. ASSUME NEW c \in Clients, Conclude(c) PROVE opened'["card"] + m + u <= due'["card"]
    <2>1. UNCHANGED <<poller, opened, due>>
      BY <1>12 DEF Conclude, pollerVars, history
    <2>2. UNCHANGED opening \/ (wsOpener # 0 /\ CallOpen("pay", wsOpener))
      BY <1>12 DEF Conclude
    <2>3. wsOpener # 0 => wsOpener \in 1..Len(openers)
      BY DEF Types, OpenerTypes
    <2> QED
      BY <1>4, <1>5, <2>1, <2>2, <2>3
  <1>13. CASE Refresh
    <2>1. UNCHANGED <<opening, opened, due>> /\ (poller' = "tell" => poller = "tell")
      BY <1>13 DEF Refresh, relayVars, history
    <2> QED
      BY <1>4, <2>1
  <1>14. CASE \E c \in Clients : \/ Connect(c) \/ Disconnect(c) \/ Claim(c) \/ Write(c) \/ Read(c)
                                 \/ IoError(c)
    <2>1. UNCHANGED <<opening, opened, due, poller>>
      BY <1>14 DEF Connect, Disconnect, Claim, Write, Read, IoError, relayVars, pollerVars, history
    <2> QED
      BY <1>4, <2>1
  <1>15. CASE \/ Post \/ TakeTap \/ Plug \/ Supervise \/ CooldownOver \/ Unplug
              \/ (\E k \in BoothCards : Tap(k)) \/ (\E r \in GateRows : Edit(r)) \/ UNCHANGED vars
    <2>1. UNCHANGED <<opening, opened, due>> /\ (poller' = "tell" => poller = "tell")
      BY <1>15 DEF Post, TakeTap, Plug, Supervise, CooldownOver, Unplug, Tap, Edit, vars, relayVars,
         pollerVars, history
    <2> QED
      BY <1>4, <2>1
  <1> QED
    BY <1>6, <1>7, <1>8, <1>9, <1>10, <1>11, <1>12, <1>13, <1>14, <1>15
       DEF Next, ClientStep, PollerStep

\* A step that neither counts nor calls: no handler comes by a paid answer.
PayQuiet ==
    /\ UNCHANGED <<opening, opened, due>> /\ (Paid(buffer') => Paid(buffer))
    /\ \A c \in Clients : answer'[c] \in {answer[c], None}

\* Every charge backs one opening.
LEMMA PayStep == Types /\ PayBacked /\ [Next]_vars => PayBacked'
  <1> SUFFICES ASSUME Types, PayBacked, [Next]_vars PROVE PayBacked'
    OBVIOUS
  <1> DEFINE n == Cardinality(Waiting(opening, "pay"))
             m == Cardinality(Waiting(opening', "pay"))
             h == Cardinality(Holders)
             g == Cardinality(Holders')
             t == IF Paid(buffer) THEN 1 ELSE 0
             u == IF Paid(buffer') THEN 1 ELSE 0
             Goal == opened'["pay"] + m + g + u <= due'["pay"]
  <1>0. /\ opened["pay"] \in Nat /\ due["pay"] \in Nat
        /\ opened'["pay"] \in Nat /\ due'["pay"] \in Nat
    BY StepTypes DEF Types, RestTypes
  <1>1. n \in Nat /\ m \in Nat
    BY StepTypes, WaitingFinite DEF Types, RelayTypes, OpenerTypes
  <1>2. opened["pay"] + n + h + t <= due["pay"]
    BY DEF PayBacked
  <1>3. SUFFICES Goal
    BY DEF PayBacked
  <1>4. h \in Nat /\ t \in Nat /\ u \in Nat
    BY HoldersFinite
  <1>5. ASSUME \A c \in Clients : answer'[c] \in {answer[c], None} PROVE g \in Nat /\ g <= h
    <2>1. Holders' \in SUBSET Holders
      BY <1>5 DEF Holders, Paid
    <2> QED
      BY <2>1, HoldersFinite, FS_CardinalityType
  <1>6. ASSUME PayQuiet PROVE Goal
    <2>1. g \in Nat /\ g <= h /\ m = n /\ u <= t
      BY <1>5, <1>6 DEF PayQuiet
    <2>2. opened'["pay"] = opened["pay"] /\ due'["pay"] = due["pay"]
      BY <1>6 DEF PayQuiet
    <2> HIDE DEF n, m, h, g, t, u
    <2> QED
      BY <1>0, <1>1, <1>2, <1>4, <2>1, <2>2
  <1>7. ASSUME NEW c \in Clients, Read(c) PROVE Goal
    <2>1. UNCHANGED <<opening, opened, due>> /\ buffer' = None
      BY <1>7 DEF Read, relayVars, history
    <2>2. answer' = [answer EXCEPT ![c] = buffer] /\ answer \in [Clients -> Answer \cup {None}]
      BY <1>7 DEF Read, Types, ServerTypes
    <2>3. Holders' \subseteq Holders \cup (IF Paid(buffer) THEN {c} ELSE {})
      BY <2>2 DEF Holders
    <2>4. g \in Nat /\ g <= h + t
      <3>1. CASE Paid(buffer)
        <4>1. Holders' \in SUBSET (Holders \cup {c})
          BY <2>3, <3>1
        <4>2. IsFiniteSet(Holders \cup {c}) /\ Cardinality(Holders \cup {c}) <= h + 1
          BY <1>4, HoldersFinite, FS_AddElement
        <4>3. IsFiniteSet(Holders') /\ g <= Cardinality(Holders \cup {c})
          BY <4>1, <4>2, FS_Subset
        <4>4. g \in Nat /\ Cardinality(Holders \cup {c}) \in Nat
          BY <4>2, <4>3, FS_CardinalityType
        <4> QED
          BY <1>4, <3>1, <4>2, <4>3, <4>4
      <3>2. CASE ~Paid(buffer)
        <4>1. Holders' \in SUBSET Holders
          BY <2>3, <3>2
        <4> QED
          BY <1>4, <3>2, <4>1, HoldersFinite, FS_CardinalityType
      <3> QED
        BY <3>1, <3>2
    <2>5. u = 0 /\ m = n
      BY <2>1 DEF Paid
    <2>6. opened'["pay"] = opened["pay"] /\ due'["pay"] = due["pay"]
      BY <2>1
    <2> HIDE DEF n, m, h, g, t, u
    <2> QED
      BY <1>0, <1>1, <1>2, <1>4, <2>4, <2>5, <2>6 DEF Goal
  <1>8. ASSUME NEW c \in Clients, Conclude(c) PROVE Goal
    <2>1. UNCHANGED <<opened, due, buffer>> /\ Reply(c)
      BY <1>8 DEF Conclude, history, serialVars
    <2>2. /\ answer'[c] = None /\ \A d \in Clients \ {c} : answer'[d] = answer[d]
      BY <2>1, Replied DEF Types
    <2>3. CASE UNCHANGED opening
      BY <1>6, <2>1, <2>2, <2>3 DEF PayQuiet
    <2>4. CASE Paid(answer[c]) /\ wsOpener # 0 /\ CallOpen("pay", wsOpener)
      <3>1. wsOpener \in 1..Len(openers) /\ "pay" \in Callers
        BY <2>4 DEF Types, OpenerTypes, Callers
      <3>2. m = n + 1
        BY <1>1, <2>4, <3>1, OtherCalls
      <3>3. Holders' = Holders \ {c} /\ c \in Holders
        BY <2>2, <2>4 DEF Holders, Paid
      <3>4. g = h - 1
        BY <3>3, HoldersFinite, FS_RemoveElement
      <3>5. u = t /\ opened'["pay"] = opened["pay"] /\ due'["pay"] = due["pay"]
        BY <2>1
      <3> HIDE DEF n, m, h, g, t, u
      <3> QED
        BY <1>0, <1>1, <1>2, <1>4, <3>2, <3>4, <3>5
    <2>5. \/ UNCHANGED opening
          \/ /\ asks[c] = "emoney_deduct" /\ Verdict(answer[c]) = "SUCCESS"
             /\ wsOpener # 0 /\ CallOpen("pay", wsOpener)
      BY <1>8 DEF Conclude
    <2>6. Verdict(answer[c]) = "SUCCESS" => Paid(answer[c])
      BY DEF Verdict, Paid
    <2> QED
      BY <2>3, <2>4, <2>5, <2>6
  <1>9. ASSUME NEW v \in Callers \ {"pay"}, NEW o \in 1..Len(openers), CallOpen(v, o),
               UNCHANGED <<answer, buffer, opened, due>>
        PROVE  Goal
    <2>1. m = n
      BY <1>1, <1>9, OtherCalls
    <2>2. g \in Nat /\ g <= h /\ u = t
      BY <1>5, <1>9
    <2>3. opened'["pay"] = opened["pay"] /\ due'["pay"] = due["pay"]
      BY <1>9
    <2> HIDE DEF n, m, h, g, t, u
    <2> QED
      BY <1>0, <1>1, <1>2, <1>4, <2>1, <2>2, <2>3
  <1>10. ASSUME NEW c \in Clients, NEW a \in Actions, Ask(c, a) PROVE Goal
    <2>1. UNCHANGED <<answer, buffer, opened, due>>
      BY <1>10 DEF Ask, serialVars
    <2>2. UNCHANGED opening \/ (wsOpener # 0 /\ CallOpen(c, wsOpener))
      BY <1>10 DEF Ask
    <2>3. wsOpener # 0 => wsOpener \in 1..Len(openers)
      BY DEF Types, OpenerTypes
    <2>4. c \in Callers \ {"pay"}
      BY BoothAssumption DEF Callers
    <2> QED
      BY <1>6, <1>9, <2>1, <2>2, <2>3, <2>4 DEF PayQuiet
  <1>11. CASE Told
    <2>1. pollOpener \in 1..Len(openers) /\ "card" \in Callers \ {"pay"}
      BY <1>11 DEF Told, Types, Wired, OpenerTypes, Callers
    <2>2. UNCHANGED <<answer, buffer, opened, due>>
      BY <1>11 DEF Told, history, serverVars, serialVars
    <2>3. UNCHANGED opening \/ CallOpen("card", pollOpener)
      BY <1>11 DEF Told
    <2> QED
      BY <1>6, <1>9, <2>1, <2>2, <2>3 DEF PayQuiet
  <1>12. ASSUME NEW i \in DOMAIN opening, Raise(i) \/ Lower(i) PROVE Goal
    <2>1. opened'["pay"] + m <= opened["pay"] + n
      BY <1>12, RelayCounts
    <2>2. \A c \in Clients : answer'[c] \in {answer[c], None}
      BY <1>12, RelayStep, Returned
    <2>3. due' = due /\ buffer' = buffer
      BY <1>12 DEF Raise, Lower, history, serialVars
    <2>4. g \in Nat /\ g <= h /\ u = t /\ due'["pay"] = due["pay"]
      BY <1>5, <2>2, <2>3
    <2> HIDE DEF n, m, h, g, t, u
    <2> QED
      BY <1>0, <1>1, <1>2, <1>4, <2>1, <2>4
  <1>13. CASE ReaderAnswers
    <2>1. UNCHANGED <<opening, opened, answer>>
      BY <1>13 DEF ReaderAnswers, relayVars, serverVars
    <2>2. g = h /\ m = n /\ opened'["pay"] = opened["pay"]
      BY <2>1 DEF Holders
    <2>3. PICK s \in Statuses :
            /\ buffer' = IF "emoney_reader" \in port /\ buffer = None
                         THEN [to |-> reader[1], status |-> s] ELSE buffer
            /\ due' = IF reader[1] = "emoney_deduct" /\ s = "SUCCESS"
                      THEN [due EXCEPT !["pay"] = @ + 1] ELSE due
      BY <1>13 DEF ReaderAnswers
    <2>4. due'["pay"] = due["pay"] + (IF reader[1] = "emoney_deduct" /\ s = "SUCCESS" THEN 1 ELSE 0)
      BY <1>0, <2>3 DEF Types, RestTypes
    <2>5. Paid([to |-> reader[1], status |-> s]) => reader[1] = "emoney_deduct" /\ s = "SUCCESS"
      BY DEF Paid
    <2>6. u <= t + (IF reader[1] = "emoney_deduct" /\ s = "SUCCESS" THEN 1 ELSE 0)
      BY <2>3, <2>5
    <2>7. due'["pay"] - u >= due["pay"] - t
      BY <1>0, <1>4, <2>4, <2>6
    <2> HIDE DEF n, m, h, g, t, u
    <2> QED
      BY <1>0, <1>1, <1>2, <1>4, <2>2, <2>7
  <1>14. CASE Crash
    <2>1. opening' = <<>> /\ buffer' = None /\ UNCHANGED <<opened, due>>
      BY <1>14 DEF Crash, Boot
    <2>2. Waiting(opening', "pay") = {}
      BY <2>1 DEF Waiting
    <2>3. Holders' = {}
      BY <1>14 DEF Crash, Boot, Holders, Paid
    <2>4. m = 0 /\ g = 0 /\ u = 0
      BY <2>1, <2>2, <2>3, FS_EmptySet DEF Paid
    <2>5. opened'["pay"] = opened["pay"] /\ due'["pay"] = due["pay"]
      BY <2>1
    <2> HIDE DEF n, m, h, g, t, u
    <2> QED
      BY <1>0, <1>1, <1>2, <1>4, <2>4, <2>5
  <1>15. CASE Settle
    <2>1. due'["pay"] = due["pay"]
      BY <1>15 DEF Settle, Types, RestTypes
    <2>2. UNCHANGED <<opening, opened, answer, buffer>>
      BY <1>15 DEF Settle, relayVars, serverVars, serialVars
    <2>3. g = h /\ m = n /\ u = t /\ opened'["pay"] = opened["pay"]
      BY <2>2 DEF Holders
    <2> HIDE DEF n, m, h, g, t, u
    <2> QED
      BY <1>0, <1>1, <1>2, <1>4, <2>1, <2>3
  <1>16. ASSUME NEW c \in Clients,
                \/ Connect(c) \/ Disconnect(c) \/ Claim(c) \/ Write(c) \/ IoError(c)
         PROVE  Goal
    <2>1. UNCHANGED <<opening, opened, due>> /\ buffer' \in {buffer, None}
      BY <1>16 DEF Connect, Disconnect, Claim, Write, IoError, relayVars, history, serialVars
    <2>2. UNCHANGED answer \/ Reply(c)
      BY <1>16 DEF Connect, Disconnect, Claim, Write, IoError, Finish
    <2>3. \A d \in Clients : answer'[d] \in {answer[d], None}
      BY <2>2, Replied DEF Types
    <2> QED
      BY <1>6, <2>1, <2>3 DEF PayQuiet, Paid
  <1>17. CASE \/ Post \/ TakeTap \/ Plug \/ Supervise \/ CooldownOver \/ Unplug \/ Refresh
              \/ (\E k \in BoothCards : Tap(k)) \/ (\E r \in GateRows : Edit(r)) \/ UNCHANGED vars
    <2>1. UNCHANGED <<opening, opened, due, answer, buffer>>
      BY <1>17 DEF Post, TakeTap, Plug, Supervise, CooldownOver, Unplug, Refresh, Tap, Edit, vars,
         relayVars, serverVars, serialVars, history
    <2> QED
      BY <1>6, <2>1 DEF PayQuiet
  <1> QED
    BY <1>7, <1>8, <1>10, <1>11, <1>12, <1>13, <1>14, <1>15, <1>16, <1>17
       DEF Next, ClientStep, PollerStep

\* The booth raises the barrier by itself at most once per charged card and once per
\* recorded member exit, for any number of clients, requests and taps, with answers
\* that come late or are read by another caller, frames written twice, openers that
\* refuse, and crashes (websocket_server.py _process_message, serial_manager.py send,
\* omnikey_poller.py _handle_card).
THEOREM EveryOpeningEarned == Spec => []OpensEarned
  <1>1. Init => PayBacked /\ CardBacked
    <2> SUFFICES ASSUME Init PROVE PayBacked /\ CardBacked
      OBVIOUS
    <2>1. Waiting(opening, "pay") = {} /\ Waiting(opening, "card") = {}
      BY DEF Init, Waiting
    <2>2. Holders = {} /\ ~Paid(buffer)
      BY DEF Init, Holders, Paid
    <2>3. poller # "tell" /\ opened["pay"] = 0 /\ opened["card"] = 0 /\ due["pay"] = 0 /\ due["card"] = 0
      BY DEF Init
    <2> QED
      BY <2>1, <2>2, <2>3, FS_EmptySet DEF PayBacked, CardBacked
  <1>2. Types /\ PayBacked /\ CardBacked => OpensEarned
    <2> SUFFICES ASSUME Types, PayBacked, CardBacked
                 PROVE  opened["pay"] <= due["pay"] /\ opened["card"] <= due["card"]
      BY DEF OpensEarned
    <2>1. /\ Cardinality(Waiting(opening, "pay")) \in Nat /\ Cardinality(Waiting(opening, "card")) \in Nat
          /\ Cardinality(Holders) \in Nat
      BY WaitingFinite, HoldersFinite DEF Types, RelayTypes, OpenerTypes
    <2>2. /\ opened["pay"] \in Nat /\ due["pay"] \in Nat /\ opened["card"] \in Nat /\ due["card"] \in Nat
      BY DEF Types, RestTypes
    <2> QED
      BY <2>1, <2>2 DEF PayBacked, CardBacked
  <1> QED
    BY <1>1, <1>2, InitTypes, StepTypes, PayStep, CardStep, PTL DEF Spec

=============================================================================
