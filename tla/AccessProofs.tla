---------------------------- MODULE AccessProofs ----------------------------
(***************************************************************************)
(* Proofs about what the API's clients may do and get to know: the token   *)
(* pairs of signed-in browsers (Auth), the limiters in front of the API    *)
(* (RateLimit) and the events a browser is sent (EventLog), for any number *)
(* of browsers and of requests handled at a time, and any lifetimes,       *)
(* limits, windows and lengths.                                            *)
(***************************************************************************)
EXTENDS Auth, RateLimit, EventLog, RulesProofs

-----------------------------------------------------------------------------
(* Token pairs *)

PairRow == [by : Browsers, at : 0..MaxClock]

ActRow(n) == [op : {"idle", "refresh", "logout"}, at : {"none", "checked", "revoked", "access"},
              pair : 0..n, by : Browsers \cup {"nobody"}]

AuthTypes ==
    /\ clock \in 0..MaxClock
    /\ pair \in Seq(PairRow) /\ Len(pair) <= MaxTokens
    /\ deny \in [TokenKinds \X (1..Len(pair)) -> Nat]
    /\ cookie \in [Browsers -> 0..Len(pair)]
    /\ act \in [AuthRequests -> ActRow(Len(pair))]
    /\ spent \subseteq TokenKinds \X (1..Len(pair))
    /\ out \subseteq Browsers /\ tangled \subseteq Browsers

\* A request in flight is a browser's and carries a pair.
ActsSound ==
    \A q \in AuthRequests : \/ act[q] = Idle
                            \/ act[q].by \in Browsers /\ act[q].pair \in 1..Len(pair)
                                 /\ act[q].at \in {"checked", "revoked", "access"}

\* An entry of the denylist lives exactly as long as its token.
DenyExact == \A t \in TokenKinds \X (1..Len(pair)) : deny[t] = 0 \/ deny[t] = Expiry(t)

\* A revoked token is in the denylist or has expired.
SpentDead == \A t \in spent : deny[t] = Expiry(t) \/ Expiry(t) <= clock

\* A browser without overlapping requests and lost answers: its one request in flight
\* carries its cookies' pair, revoked if it says so; no other refresh token of it
\* works; and signed out it has no cookies.
Straight(b) ==
    /\ \A p, q \in AuthRequests : act[p].by = b /\ act[q].by = b => p = q
    /\ \A q \in AuthRequests : act[q].by = b =>
         /\ act[q].pair = cookie[b]
         /\ act[q].at = "revoked" => <<"refresh", cookie[b]>> \in spent
    /\ \A i \in 1..Len(pair) : pair[i].by = b /\ Accepted(<<"refresh", i>>) => i = cookie[b]
    /\ b \in out => cookie[b] = 0

AuthInv ==
    /\ AuthTypes /\ ActsSound /\ DenyExact /\ SpentDead
    /\ \A b \in Browsers \ tangled : Straight(b)

-----------------------------------------------------------------------------
(* Revocation *)

\* The lifetimes are numbers, and a token expires after it is issued.
LEMMA ExpiryNat ==
    ASSUME AuthTypes, NEW t \in TokenKinds \X (1..Len(pair))
    PROVE  /\ t[2] \in 1..Len(pair) /\ pair[t[2]].at \in 0..MaxClock /\ Life(t[1]) \in Nat
           /\ Expiry(t) \in Nat /\ Expiry(t) > 0
           /\ Expiry(t) <= MaxClock + AccessLife + RefreshLife
  <1>1. t[2] \in 1..Len(pair) /\ pair \in Seq(PairRow)
    BY DEF AuthTypes
  <1>2. pair[t[2]] \in PairRow
    BY <1>1
  <1>3. pair[t[2]].at \in 0..MaxClock
    BY <1>2 DEF PairRow
  <1>4. Life(t[1]) \in Nat /\ Life(t[1]) > 0 /\ Life(t[1]) <= AccessLife + RefreshLife
    BY AuthAssumption DEF Life
  <1> QED
    BY <1>1, <1>3, <1>4, AuthAssumption DEF Expiry

\* A revoked token is not accepted.
LEMMA DeadNotAccepted ==
    ASSUME AuthTypes, SpentDead, NEW t \in spent
    PROVE  ~Accepted(t)
  <1>1. t \in TokenKinds \X (1..Len(pair))
    BY DEF AuthTypes
  <1>2. Expiry(t) \in Nat /\ clock \in Nat /\ deny[t] \in Nat
    BY <1>1, ExpiryNat, AuthAssumption DEF AuthTypes
  <1>3. deny[t] = Expiry(t) \/ Expiry(t) <= clock
    BY DEF SpentDead
  <1> QED
    BY <1>2, <1>3 DEF Accepted, Decodes, Revoked

\* What a revocation does: the token is in the denylist until it expires, or has; the
\* others' entries stay; no token is accepted that was not, and this one is not.
LEMMA Revocation ==
    ASSUME AuthInv, NEW t \in TokenKinds \X (1..Len(pair)), Revoke(t), UNCHANGED <<clock, pair>>
    PROVE  /\ deny' \in [TokenKinds \X (1..Len(pair)) -> Nat]
           /\ spent' = spent \cup {t} /\ spent' \subseteq TokenKinds \X (1..Len(pair))
           /\ DenyExact' /\ SpentDead' /\ ~Accepted(t)'
           /\ \A u \in TokenKinds \X (1..Len(pair)) : Accepted(u)' => Accepted(u)
  <1> DEFINE T == TokenKinds \X (1..Len(pair))
  <1>0. /\ deny \in [T -> Nat] /\ clock \in Nat /\ spent \subseteq T /\ AuthTypes
        /\ DenyExact /\ SpentDead
    BY AuthAssumption DEF AuthInv, AuthTypes
  <1>1. \A u \in T : Expiry(u) \in Nat /\ Expiry(u) > 0 /\ Expiry(u)' = Expiry(u)
    BY <1>0, ExpiryNat DEF Expiry
  <1>2. spent' = spent \cup {t}
    BY DEF Revoke
  <1>3. CASE clock < Expiry(t)
    <2>1. Ttl(t) > 0 /\ clock + Ttl(t) = Expiry(t)
      BY <1>0, <1>1, <1>3 DEF Ttl, Decodes
    <2>2. deny' = [deny EXCEPT ![t] = Expiry(t)]
      BY <2>1 DEF Revoke
    <2>3. deny'[t] = Expiry(t) /\ \A u \in T : u # t => deny'[u] = deny[u]
      BY <1>0, <2>2
    <2>4. deny' \in [T -> Nat]
      BY <1>0, <1>1, <2>2
    <2>5. DenyExact'
      BY <1>0, <1>1, <2>3 DEF DenyExact
    <2>6. SpentDead'
      BY <1>0, <1>1, <1>2, <2>3 DEF SpentDead
    <2>7. ~Accepted(t)'
      BY <1>0, <1>1, <1>3, <2>3 DEF Accepted, Decodes, Revoked
    <2>8. ASSUME NEW u \in T, Accepted(u)' PROVE Accepted(u)
      BY <1>0, <1>1, <2>3, <2>7, <2>8 DEF Accepted, Decodes, Revoked
    <2> QED
      BY <1>0, <1>2, <2>4, <2>5, <2>6, <2>7, <2>8
  <1>4. CASE ~(clock < Expiry(t))
    <2>1. deny' = deny
      BY <1>0, <1>4 DEF Revoke, Ttl, Decodes
    <2>2. DenyExact'
      BY <1>0, <1>1, <2>1 DEF DenyExact
    <2>3. SpentDead'
      BY <1>0, <1>1, <1>2, <1>4, <2>1 DEF SpentDead
    <2>4. ~Accepted(t)'
      BY <1>0, <1>1, <1>4 DEF Accepted, Decodes
    <2>5. ASSUME NEW u \in T, Accepted(u)' PROVE Accepted(u)
      BY <1>1, <2>1, <2>5 DEF Accepted, Decodes, Revoked
    <2> QED
      BY <1>0, <1>2, <2>1, <2>2, <2>3, <2>4, <2>5
  <1> QED
    BY <1>3, <1>4

-----------------------------------------------------------------------------
(* New pairs, and requests *)

\* What a new pair adds: itself; the tokens there were are what they were.
LEMMA Issued ==
    ASSUME AuthInv, NEW b \in Browsers, NEW came \in BOOLEAN, Issue(b, came), UNCHANGED <<clock, spent>>
    PROVE  /\ pair' \in Seq(PairRow) /\ Len(pair') = Len(pair) + 1 /\ Len(pair') <= MaxTokens
           /\ pair'[Len(pair) + 1].by = b
           /\ \A i \in 1..Len(pair) : pair'[i] = pair[i]
           /\ deny' \in [TokenKinds \X (1..Len(pair')) -> Nat]
           /\ cookie' \in [Browsers -> 0..Len(pair')]
           /\ came => cookie'[b] = Len(pair) + 1
           /\ \A c \in Browsers : c # b => cookie'[c] = cookie[c]
           /\ DenyExact' /\ SpentDead' /\ spent' \subseteq TokenKinds \X (1..Len(pair'))
           /\ \A i \in 1..Len(pair) : Accepted(<<"refresh", i>>)' => Accepted(<<"refresh", i>>)
  <1> DEFINE n == Len(pair)
             T == TokenKinds \X (1..n)
             U == TokenKinds \X (1..(n + 1))
  <1>0. /\ pair \in Seq(PairRow) /\ n \in Nat /\ deny \in [T -> Nat] /\ clock \in 0..MaxClock
        /\ cookie \in [Browsers -> 0..n] /\ spent \subseteq T /\ AuthTypes /\ DenyExact /\ SpentDead
        /\ MaxTokens \in Nat
    BY AuthAssumption DEF AuthInv, AuthTypes
  <1>1. n < MaxTokens /\ pair' = Append(pair, [by |-> b, at |-> clock])
    BY DEF Issue
  <1>2. [by |-> b, at |-> clock] \in PairRow
    BY <1>0 DEF PairRow
  <1>3. /\ pair' \in Seq(PairRow) /\ Len(pair') = n + 1 /\ n + 1 <= MaxTokens
        /\ pair'[n + 1] = [by |-> b, at |-> clock] /\ \A i \in 1..n : pair'[i] = pair[i]
    BY <1>0, <1>1, <1>2
  <1>4. T \subseteq U
    BY <1>0
  <1>5. deny' = [t \in U |-> IF t \in T THEN deny[t] ELSE 0]
    BY <1>0 DEF Issue
  <1>6. deny' \in [U -> Nat] /\ \A t \in U : deny'[t] = IF t \in T THEN deny[t] ELSE 0
    BY <1>0, <1>5
  <1>7. /\ cookie' \in [Browsers -> 0..(n + 1)] /\ (came => cookie'[b] = n + 1)
        /\ \A c \in Browsers : c # b => cookie'[c] = cookie[c]
    BY <1>0 DEF Issue
  <1>8. \A t \in T : Expiry(t)' = Expiry(t) /\ deny'[t] = deny[t] /\ t[2] \in 1..n
    BY <1>3, <1>4, <1>6 DEF Expiry
  <1>9. DenyExact'
    BY <1>0, <1>3, <1>6, <1>8 DEF DenyExact
  <1>10. SpentDead' /\ spent' \subseteq U
    BY <1>0, <1>4, <1>8 DEF SpentDead
  <1>11. ASSUME NEW i \in 1..n, Accepted(<<"refresh", i>>)' PROVE Accepted(<<"refresh", i>>)
    <2>1. <<"refresh", i>> \in T
      BY DEF TokenKinds
    <2> QED
      BY <1>8, <1>11, <2>1 DEF Accepted, Decodes, Revoked
  <1> QED
    BY <1>3, <1>6, <1>7, <1>9, <1>10, <1>11

\* A request that starts: its slot is its browser's now, and a browser that had one in
\* flight counts as tangled.
LEMMA Entered ==
    ASSUME AuthInv, NEW q \in AuthRequests, NEW b \in Browsers, cookie[b] # 0,
           NEW op \in {"refresh", "logout"}, NEW at \in {"checked", "access"}, Enter(q, b, op, at),
           UNCHANGED <<pair, cookie, out, clock>>, spent \subseteq spent',
           \A i \in 1..Len(pair) : Accepted(<<"refresh", i>>)' => Accepted(<<"refresh", i>>)
    PROVE  /\ act' \in [AuthRequests -> ActRow(Len(pair))] /\ ActsSound' /\ tangled' \subseteq Browsers
           /\ \A c \in Browsers \ tangled' : Straight(c)'
  <1> DEFINE r == [op |-> op, at |-> at, pair |-> cookie[b], by |-> b]
  <1>0. /\ act \in [AuthRequests -> ActRow(Len(pair))] /\ cookie \in [Browsers -> 0..Len(pair)]
        /\ tangled \subseteq Browsers /\ ActsSound
    BY DEF AuthInv, AuthTypes
  <1>1. /\ r \in ActRow(Len(pair)) /\ r.by = b /\ r.pair = cookie[b] /\ r.at = at
        /\ r.pair \in 1..Len(pair)
    BY <1>0 DEF ActRow
  <1>2. act' = [act EXCEPT ![q] = r] /\ act[q] = Idle
    BY DEF Enter
  <1> HIDE DEF r
  <1>3. act'[q] = r /\ \A p \in AuthRequests \ {q} : act'[p] = act[p]
    BY <1>0, <1>2
  <1>4. act' \in [AuthRequests -> ActRow(Len(pair))]
    BY <1>0, <1>1, <1>2
  <1>5. ActsSound'
    BY <1>0, <1>1, <1>3 DEF ActsSound
  <1>6. /\ tangled' \subseteq Browsers /\ tangled \subseteq tangled'
        /\ b \notin tangled' => \A p \in AuthRequests : act[p].by # b
    BY <1>0 DEF Enter, Busy
  <1>7. ASSUME NEW c \in Browsers \ tangled' PROVE Straight(c)'
    <2>1. Straight(c)
      BY <1>6 DEF AuthInv
    <2>2. \A p, s \in AuthRequests : act'[p].by = c /\ act'[s].by = c => p = s
      BY <1>1, <1>3, <1>6, <2>1 DEF Straight
    <2>3. \A p \in AuthRequests : act'[p].by = c =>
            /\ act'[p].pair = cookie[c]
            /\ act'[p].at = "revoked" => <<"refresh", cookie[c]>> \in spent'
      BY <1>1, <1>3, <2>1 DEF Straight
    <2> QED
      BY <2>1, <2>2, <2>3 DEF Straight
  <1> QED
    BY <1>4, <1>5, <1>6, <1>7

-----------------------------------------------------------------------------
(* The steps *)

\* login.
LEMMA LoginStep ==
    ASSUME AuthInv, NEW b \in Browsers, Login(b)
    PROVE  AuthInv'
  <1>0. /\ act \in [AuthRequests -> ActRow(Len(pair))] /\ Len(pair) \in Nat /\ out \subseteq Browsers
        /\ pair \in Seq(PairRow)
    BY DEF AuthInv, AuthTypes
  <1>1. /\ ~Busy(b) /\ cookie[b] = 0 /\ Issue(b, TRUE) /\ out' = out \ {b}
        /\ UNCHANGED <<clock, act, spent, tangled>>
    BY DEF Login
  <1>2. /\ pair' \in Seq(PairRow) /\ Len(pair') = Len(pair) + 1 /\ Len(pair') <= MaxTokens
        /\ pair'[Len(pair) + 1].by = b
        /\ \A i \in 1..Len(pair) : pair'[i] = pair[i]
        /\ deny' \in [TokenKinds \X (1..Len(pair')) -> Nat]
        /\ cookie' \in [Browsers -> 0..Len(pair')]
        /\ cookie'[b] = Len(pair) + 1
        /\ \A c \in Browsers : c # b => cookie'[c] = cookie[c]
        /\ DenyExact' /\ SpentDead' /\ spent' \subseteq TokenKinds \X (1..Len(pair'))
        /\ \A i \in 1..Len(pair) : Accepted(<<"refresh", i>>)' => Accepted(<<"refresh", i>>)
    BY <1>1, Issued
  <1>3. act' \in [AuthRequests -> ActRow(Len(pair'))] /\ 1..Len(pair) \subseteq 1..Len(pair')
    <2>1. 0..Len(pair) \subseteq 0..Len(pair')
      BY <1>0, <1>2
    <2>2. ActRow(Len(pair)) \subseteq ActRow(Len(pair'))
      BY <2>1 DEF ActRow
    <2> QED
      BY <1>0, <1>1, <1>2, <2>2
  <1>4. AuthTypes'
    BY <1>0, <1>1, <1>2, <1>3 DEF AuthInv, AuthTypes
  <1>5. ActsSound'
    BY <1>1, <1>3 DEF AuthInv, ActsSound
  <1>6. \A i \in 1..Len(pair') : i \in 1..Len(pair) \/ i = Len(pair) + 1
    BY <1>0, <1>2
  <1>7. ASSUME NEW c \in Browsers \ tangled PROVE Straight(c)'
    <2>1. Straight(c)
      BY DEF AuthInv
    <2>2. CASE c = b
      <3>1. \A p \in AuthRequests : act'[p].by # c
        BY <1>1, <2>2 DEF Busy
      <3>2. ASSUME NEW i \in 1..Len(pair'), pair'[i].by = c, Accepted(<<"refresh", i>>)'
            PROVE  i = cookie'[c]
        <4>1. CASE i \in 1..Len(pair)
          <5>1. i = cookie[c]
            BY <1>2, <2>1, <3>2, <4>1 DEF Straight
          <5> QED
            BY <1>0, <1>1, <2>2, <4>1, <5>1
        <4> QED
          BY <1>2, <1>6, <2>2, <4>1
      <3>3. c \notin out'
        BY <1>1, <2>2
      <3> QED
        BY <3>1, <3>2, <3>3 DEF Straight
    <2>3. CASE c # b
      <3>1. cookie'[c] = cookie[c]
        BY <1>2, <2>3
      <3>2. ASSUME NEW i \in 1..Len(pair'), pair'[i].by = c, Accepted(<<"refresh", i>>)'
            PROVE  i = cookie'[c]
        <4>1. i \in 1..Len(pair)
          BY <1>2, <1>6, <2>3, <3>2
        <4> QED
          BY <1>2, <2>1, <3>1, <3>2, <4>1 DEF Straight
      <3> QED
        BY <1>1, <2>1, <3>1, <3>2 DEF Straight
    <2> QED
      BY <2>2, <2>3
  <1> QED
    BY <1>1, <1>2, <1>4, <1>5, <1>7 DEF AuthInv

\* refresh reads the denylist.
LEMMA CheckStep ==
    ASSUME AuthInv, NEW q \in AuthRequests, NEW b \in Browsers, RefreshCheck(q, b)
    PROVE  AuthInv'
  <1>1. /\ cookie[b] # 0 /\ Enter(q, b, "refresh", "checked")
        /\ UNCHANGED <<clock, pair, deny, cookie, spent, out>>
    BY DEF RefreshCheck
  <1>2. \A i \in 1..Len(pair) : Accepted(<<"refresh", i>>)' => Accepted(<<"refresh", i>>)
    BY <1>1 DEF Accepted, Decodes, Revoked, Expiry
  <1>3. /\ act' \in [AuthRequests -> ActRow(Len(pair))] /\ ActsSound' /\ tangled' \subseteq Browsers
        /\ \A c \in Browsers \ tangled' : Straight(c)'
    BY <1>1, <1>2, Entered
  <1>4. AuthTypes'
    BY <1>1, <1>3 DEF AuthInv, AuthTypes
  <1>5. DenyExact' /\ SpentDead'
    BY <1>1 DEF AuthInv, DenyExact, SpentDead, Expiry
  <1> QED
    BY <1>3, <1>4, <1>5 DEF AuthInv

\* logout revokes the access token.
LEMMA AccessStep ==
    ASSUME AuthInv, NEW q \in AuthRequests, NEW b \in Browsers, LogoutAccess(q, b)
    PROVE  AuthInv'
  <1>0. cookie[b] \in 0..Len(pair) /\ Len(pair) \in Nat
    BY DEF AuthInv, AuthTypes
  <1>1. /\ cookie[b] # 0 /\ Revoke(<<"access", cookie[b]>>) /\ Enter(q, b, "logout", "access")
        /\ UNCHANGED <<clock, pair, cookie, out>>
    BY DEF LogoutAccess
  <1>2. <<"access", cookie[b]>> \in TokenKinds \X (1..Len(pair))
    BY <1>0, <1>1 DEF TokenKinds
  <1>3. /\ deny' \in [TokenKinds \X (1..Len(pair)) -> Nat]
        /\ spent \subseteq spent' /\ spent' \subseteq TokenKinds \X (1..Len(pair))
        /\ DenyExact' /\ SpentDead'
        /\ \A u \in TokenKinds \X (1..Len(pair)) : Accepted(u)' => Accepted(u)
    BY <1>1, <1>2, Revocation
  <1>4. \A i \in 1..Len(pair) : Accepted(<<"refresh", i>>)' => Accepted(<<"refresh", i>>)
    <2> SUFFICES ASSUME NEW i \in 1..Len(pair)
                 PROVE  Accepted(<<"refresh", i>>)' => Accepted(<<"refresh", i>>)
      OBVIOUS
    <2>1. <<"refresh", i>> \in TokenKinds \X (1..Len(pair))
      BY DEF TokenKinds
    <2> QED
      BY <1>3, <2>1
  <1>5. /\ act' \in [AuthRequests -> ActRow(Len(pair))] /\ ActsSound' /\ tangled' \subseteq Browsers
        /\ \A c \in Browsers \ tangled' : Straight(c)'
    BY <1>1, <1>3, <1>4, Entered
  <1>6. AuthTypes'
    BY <1>1, <1>3, <1>5 DEF AuthInv, AuthTypes
  <1> QED
    BY <1>3, <1>5, <1>6 DEF AuthInv

\* refresh revokes the old token.
LEMMA RevokeStep ==
    ASSUME AuthInv, NEW q \in AuthRequests, RefreshRevoke(q)
    PROVE  AuthInv'
  <1> DEFINE r == act[q]
             v == [r EXCEPT !.at = "revoked"]
  <1>0. act \in [AuthRequests -> ActRow(Len(pair))] /\ r \in ActRow(Len(pair))
    BY DEF AuthInv, AuthTypes
  <1>1. /\ r.at = "checked" /\ Revoke(<<"refresh", r.pair>>)
        /\ act' = [act EXCEPT ![q].at = "revoked"] /\ UNCHANGED <<clock, pair, cookie, out, tangled>>
    BY DEF RefreshRevoke
  <1>2. r.by \in Browsers /\ r.pair \in 1..Len(pair)
    BY <1>1 DEF AuthInv, ActsSound, Idle
  <1>3. <<"refresh", r.pair>> \in TokenKinds \X (1..Len(pair))
    BY <1>2 DEF TokenKinds
  <1>4. /\ deny' \in [TokenKinds \X (1..Len(pair)) -> Nat] /\ <<"refresh", r.pair>> \in spent'
        /\ spent \subseteq spent' /\ spent' \subseteq TokenKinds \X (1..Len(pair))
        /\ DenyExact' /\ SpentDead'
        /\ \A u \in TokenKinds \X (1..Len(pair)) : Accepted(u)' => Accepted(u)
    BY <1>1, <1>3, Revocation
  <1>5. v \in ActRow(Len(pair)) /\ v.by = r.by /\ v.pair = r.pair /\ v.at = "revoked"
    BY <1>0 DEF ActRow
  <1>6. act' = [act EXCEPT ![q] = v]
    BY <1>1
  <1> HIDE DEF v
  <1>7. act'[q] = v /\ \A p \in AuthRequests \ {q} : act'[p] = act[p]
    BY <1>0, <1>6
  <1>8. AuthTypes'
    <2>1. act' \in [AuthRequests -> ActRow(Len(pair))]
      BY <1>0, <1>5, <1>6
    <2> QED
      BY <1>1, <1>4, <2>1 DEF AuthInv, AuthTypes
  <1>9. ActsSound'
    BY <1>1, <1>2, <1>5, <1>7 DEF AuthInv, ActsSound
  <1>10. ASSUME NEW c \in Browsers \ tangled PROVE Straight(c)'
    <2>1. Straight(c)
      BY DEF AuthInv
    <2>2. \A p, s \in AuthRequests : act'[p].by = c /\ act'[s].by = c => p = s
      BY <1>5, <1>7, <2>1 DEF Straight
    <2>3. ASSUME NEW p \in AuthRequests, act'[p].by = c
          PROVE  /\ act'[p].pair = cookie'[c]
                 /\ act'[p].at = "revoked" => <<"refresh", cookie'[c]>> \in spent'
      <3>1. CASE p = q
        <4>1. r.by = c /\ r.pair = cookie[c]
          BY <1>5, <1>7, <2>1, <2>3, <3>1 DEF Straight
        <4> QED
          BY <1>1, <1>4, <1>5, <1>7, <3>1, <4>1
      <3>2. CASE p # q
        BY <1>1, <1>4, <1>7, <2>1, <2>3, <3>2 DEF Straight
      <3> QED
        BY <3>1, <3>2
    <2>4. ASSUME NEW i \in 1..Len(pair), pair[i].by = c, Accepted(<<"refresh", i>>)'
          PROVE  i = cookie[c]
      <3>1. <<"refresh", i>> \in TokenKinds \X (1..Len(pair))
        BY DEF TokenKinds
      <3> QED
        BY <1>4, <2>1, <2>4, <3>1 DEF Straight
    <2> QED
      BY <1>1, <2>1, <2>2, <2>3, <2>4 DEF Straight
  <1> QED
    BY <1>1, <1>4, <1>8, <1>9, <1>10 DEF AuthInv

\* refresh issues the new pair.
LEMMA IssueStep ==
    ASSUME AuthInv, NEW q \in AuthRequests, RefreshIssue(q)
    PROVE  AuthInv'
  <1> DEFINE b == act[q].by
  <1>0. /\ act \in [AuthRequests -> ActRow(Len(pair))] /\ Len(pair) \in Nat /\ pair \in Seq(PairRow)
        /\ tangled \subseteq Browsers
    BY DEF AuthInv, AuthTypes
  <1>1. act[q].at = "revoked" /\ act' = [act EXCEPT ![q] = Idle] /\ UNCHANGED <<clock, spent, out>>
    BY DEF RefreshIssue
  <1>2. PICK came \in BOOLEAN : /\ Issue(b, came)
                               /\ tangled' = IF came THEN tangled ELSE tangled \cup {b}
    BY DEF RefreshIssue
  <1>3. b \in Browsers /\ act[q].pair \in 1..Len(pair)
    BY <1>1 DEF AuthInv, ActsSound, Idle
  <1>4. /\ pair' \in Seq(PairRow) /\ Len(pair') = Len(pair) + 1 /\ Len(pair') <= MaxTokens
        /\ pair'[Len(pair) + 1].by = b
        /\ \A i \in 1..Len(pair) : pair'[i] = pair[i]
        /\ deny' \in [TokenKinds \X (1..Len(pair')) -> Nat]
        /\ cookie' \in [Browsers -> 0..Len(pair')]
        /\ (came => cookie'[b] = Len(pair) + 1)
        /\ \A c \in Browsers : c # b => cookie'[c] = cookie[c]
        /\ DenyExact' /\ SpentDead' /\ spent' \subseteq TokenKinds \X (1..Len(pair'))
        /\ \A i \in 1..Len(pair) : Accepted(<<"refresh", i>>)' => Accepted(<<"refresh", i>>)
    BY <1>1, <1>2, <1>3, Issued
  <1>5. Idle \in ActRow(Len(pair')) /\ Idle.by = "nobody"
    BY <1>0, <1>4 DEF Idle, ActRow
  <1>6. act'[q] = Idle /\ \A p \in AuthRequests \ {q} : act'[p] = act[p]
    BY <1>0, <1>1
  <1>7. act' \in [AuthRequests -> ActRow(Len(pair'))] /\ 1..Len(pair) \subseteq 1..Len(pair')
    <2>1. 0..Len(pair) \subseteq 0..Len(pair')
      BY <1>0, <1>4
    <2>2. ActRow(Len(pair)) \subseteq ActRow(Len(pair'))
      BY <2>1 DEF ActRow
    <2> QED
      BY <1>0, <1>1, <1>4, <1>5, <2>2
  <1>8. tangled' \subseteq Browsers /\ tangled \subseteq tangled'
    BY <1>0, <1>2, <1>3
  <1>9. AuthTypes'
    BY <1>1, <1>4, <1>7, <1>8 DEF AuthInv, AuthTypes
  <1>10. ActsSound'
    BY <1>6, <1>7 DEF AuthInv, ActsSound
  <1>11. \A i \in 1..Len(pair') : i \in 1..Len(pair) \/ i = Len(pair) + 1
    BY <1>0, <1>4
  <1>12. ASSUME NEW c \in Browsers \ tangled' PROVE Straight(c)'
    <2>1. Straight(c)
      BY <1>8 DEF AuthInv
    <2>2. \A p \in AuthRequests : act'[p].by = c => p # q /\ act'[p] = act[p]
      BY <1>5, <1>6, AuthAssumption
    <2>3. CASE c = b
      <3>1. came /\ cookie'[c] = Len(pair) + 1
        BY <1>2, <1>4, <1>12, <2>3
      <3>2. \A p \in AuthRequests : act'[p].by # c
        BY <2>1, <2>2, <2>3 DEF Straight
      <3>3. cookie[c] = act[q].pair /\ <<"refresh", cookie[c]>> \in spent
        BY <1>1, <2>1, <2>3 DEF Straight
      <3>4. ~Accepted(<<"refresh", cookie[c]>>)
        BY <3>3, DeadNotAccepted DEF AuthInv
      <3>5. ASSUME NEW i \in 1..Len(pair'), pair'[i].by = c, Accepted(<<"refresh", i>>)'
            PROVE  i = cookie'[c]
        <4>1. CASE i \in 1..Len(pair)
          BY <1>4, <2>1, <3>4, <3>5, <4>1 DEF Straight
        <4> QED
          BY <1>11, <3>1, <4>1
      <3>6. c \notin out'
        BY <1>0, <1>1, <1>3, <2>1, <3>3 DEF Straight
      <3> QED
        BY <3>2, <3>5, <3>6 DEF Straight
    <2>4. CASE c # b
      <3>1. cookie'[c] = cookie[c]
        BY <1>4, <2>4
      <3>2. ASSUME NEW i \in 1..Len(pair'), pair'[i].by = c, Accepted(<<"refresh", i>>)'
            PROVE  i = cookie'[c]
        <4>1. i \in 1..Len(pair)
          BY <1>4, <1>11, <2>4, <3>2
        <4> QED
          BY <1>4, <2>1, <3>1, <3>2, <4>1 DEF Straight
      <3> QED
        BY <1>1, <2>1, <2>2, <3>1, <3>2 DEF Straight
    <2> QED
      BY <2>3, <2>4
  <1> QED
    BY <1>4, <1>9, <1>10, <1>12 DEF AuthInv

\* logout revokes the refresh token and clears the cookies.
LEMMA LogoutStep ==
    ASSUME AuthInv, NEW q \in AuthRequests, LogoutRefresh(q)
    PROVE  AuthInv'
  <1> DEFINE b == act[q].by
             t == <<"refresh", act[q].pair>>
  <1>0. /\ act \in [AuthRequests -> ActRow(Len(pair))] /\ Len(pair) \in Nat
        /\ cookie \in [Browsers -> 0..Len(pair)] /\ out \subseteq Browsers
    BY DEF AuthInv, AuthTypes
  <1>1. /\ act[q].at = "access" /\ Revoke(t) /\ cookie' = [cookie EXCEPT ![b] = 0]
        /\ out' = out \cup {b} /\ act' = [act EXCEPT ![q] = Idle] /\ UNCHANGED <<clock, pair, tangled>>
    BY DEF LogoutRefresh
  <1>2. b \in Browsers /\ act[q].pair \in 1..Len(pair)
    BY <1>1 DEF AuthInv, ActsSound, Idle
  <1>3. t \in TokenKinds \X (1..Len(pair))
    BY <1>2 DEF TokenKinds
  <1>4. /\ deny' \in [TokenKinds \X (1..Len(pair)) -> Nat]
        /\ spent \subseteq spent' /\ spent' \subseteq TokenKinds \X (1..Len(pair))
        /\ DenyExact' /\ SpentDead'
        /\ \A u \in TokenKinds \X (1..Len(pair)) : Accepted(u)' => Accepted(u)
    BY <1>1, <1>3, Revocation
  <1>5. Idle \in ActRow(Len(pair)) /\ Idle.by = "nobody"
    BY <1>0 DEF Idle, ActRow
  <1>6. act'[q] = Idle /\ \A p \in AuthRequests \ {q} : act'[p] = act[p]
    BY <1>0, <1>1
  <1>7. AuthTypes'
    <2>1. act' \in [AuthRequests -> ActRow(Len(pair))]
      BY <1>0, <1>1, <1>5
    <2>2. cookie' \in [Browsers -> 0..Len(pair)] /\ out' \subseteq Browsers
      BY <1>0, <1>1, <1>2
    <2> QED
      BY <1>1, <1>4, <2>1, <2>2 DEF AuthInv, AuthTypes
  <1>8. ActsSound'
    BY <1>1, <1>6 DEF AuthInv, ActsSound
  <1>9. ASSUME NEW c \in Browsers \ tangled PROVE Straight(c)'
    <2>1. Straight(c)
      BY DEF AuthInv
    <2>2. \A p \in AuthRequests : act'[p].by = c => p # q /\ act'[p] = act[p]
      BY <1>5, <1>6, AuthAssumption
    <2>3. ASSUME NEW i \in 1..Len(pair), pair[i].by = c, Accepted(<<"refresh", i>>)'
          PROVE  i = cookie[c]
      <3>1. <<"refresh", i>> \in TokenKinds \X (1..Len(pair))
        BY DEF TokenKinds
      <3> QED
        BY <1>4, <2>1, <2>3, <3>1 DEF Straight
    <2>4. CASE c = b
      <3>1. cookie'[c] = 0 /\ cookie[c] = act[q].pair
        BY <1>0, <1>1, <1>2, <2>1, <2>4 DEF Straight
      <3>2. \A p \in AuthRequests : act'[p].by # c
        BY <2>1, <2>2, <2>4 DEF Straight
      <3>3. ASSUME NEW i \in 1..Len(pair), pair[i].by = c, Accepted(<<"refresh", i>>)' PROVE FALSE
        <4>0. i = act[q].pair
          BY <2>3, <3>1, <3>3
        <4>1. Revoke(<<"refresh", i>>) /\ <<"refresh", i>> \in TokenKinds \X (1..Len(pair))
          BY <1>1, <1>3, <4>0
        <4>2. ~Accepted(<<"refresh", i>>)'
          BY <1>1, <4>1, Revocation
        <4> QED
          BY <3>3, <4>2
      <3> QED
        BY <1>1, <3>1, <3>2, <3>3 DEF Straight
    <2>5. CASE c # b
      <3>1. cookie'[c] = cookie[c] /\ (c \in out' => c \in out)
        BY <1>0, <1>1, <2>5
      <3> QED
        BY <1>1, <1>4, <2>1, <2>2, <2>3, <3>1 DEF Straight
    <2> QED
      BY <2>4, <2>5
  <1> QED
    BY <1>1, <1>4, <1>7, <1>8, <1>9 DEF AuthInv

\* A second passes: an entry of the denylist goes only when its token does.
LEMMA SecondStep ==
    ASSUME AuthInv, Second
    PROVE  AuthInv'
  <1>0. AuthTypes /\ clock \in Nat /\ deny \in [TokenKinds \X (1..Len(pair)) -> Nat] /\ MaxClock \in Nat
    BY AuthAssumption DEF AuthInv, AuthTypes
  <1>1. clock < MaxClock /\ clock' = clock + 1 /\ UNCHANGED <<pair, deny, cookie, act, spent, out, tangled>>
    BY DEF Second
  <1>2. \A t \in TokenKinds \X (1..Len(pair)) :
          Expiry(t) \in Nat /\ Expiry(t)' = Expiry(t) /\ deny[t] \in Nat
    BY <1>0, <1>1, ExpiryNat DEF Expiry
  <1>3. clock' \in 0..MaxClock
    BY <1>0, <1>1
  <1>4. AuthTypes'
    BY <1>1, <1>3 DEF AuthInv, AuthTypes
  <1>5. DenyExact' /\ ActsSound'
    BY <1>1, <1>2 DEF AuthInv, DenyExact, ActsSound
  <1>6. SpentDead'
    <2> SUFFICES ASSUME NEW t \in spent PROVE deny[t] = Expiry(t) \/ Expiry(t) <= clock'
      BY <1>0, <1>1, <1>2 DEF SpentDead, AuthTypes
    <2>1. t \in TokenKinds \X (1..Len(pair))
      BY <1>0 DEF AuthTypes
    <2> QED
      BY <1>0, <1>1, <1>2, <2>1 DEF AuthInv, SpentDead
  <1>7. ASSUME NEW t \in TokenKinds \X (1..Len(pair)), Accepted(t)' PROVE Accepted(t)
    <2>1. clock' < Expiry(t) /\ ~(clock' < deny[t])
      BY <1>1, <1>2, <1>7 DEF Accepted, Decodes, Revoked
    <2>2. deny[t] = 0 \/ deny[t] = Expiry(t)
      BY DEF AuthInv, DenyExact
    <2> QED
      BY <1>0, <1>1, <1>2, <2>1, <2>2 DEF Accepted, Decodes, Revoked
  <1>8. ASSUME NEW c \in Browsers \ tangled PROVE Straight(c)'
    <2>1. Straight(c)
      BY DEF AuthInv
    <2>2. ASSUME NEW i \in 1..Len(pair), pair[i].by = c, Accepted(<<"refresh", i>>)'
          PROVE  i = cookie[c]
      <3>1. <<"refresh", i>> \in TokenKinds \X (1..Len(pair))
        BY DEF TokenKinds
      <3> QED
        BY <1>7, <2>1, <2>2, <3>1 DEF Straight
    <2> QED
      BY <1>1, <2>1, <2>2 DEF Straight
  <1> QED
    BY <1>1, <1>4, <1>5, <1>6, <1>8 DEF AuthInv

\* The invariant of the token pairs.
LEMMA AuthInvariant == AuthSpec => []AuthInv
  <1>1. AuthInit => AuthInv
    <2> SUFFICES ASSUME AuthInit PROVE AuthInv
      OBVIOUS
    <2>1. pair = <<>> /\ pair \in Seq(PairRow) /\ Len(pair) = 0 /\ 1..Len(pair) = {}
      BY DEF AuthInit
    <2>2. deny = <<>> /\ <<>> \in [{} -> Nat]
      BY DEF AuthInit
    <2>3. TokenKinds \X (1..Len(pair)) = {}
      BY <2>1
    <2>4. \A q \in AuthRequests : act[q] = Idle
      BY DEF AuthInit
    <2>5. act \in [AuthRequests -> ActRow(Len(pair))]
      BY <2>1 DEF AuthInit, Idle, ActRow
    <2>6. cookie \in [Browsers -> 0..Len(pair)] /\ clock \in 0..MaxClock /\ Len(pair) <= MaxTokens
      BY <2>1, AuthAssumption DEF AuthInit
    <2>7. AuthTypes
      BY <2>1, <2>2, <2>3, <2>5, <2>6 DEF AuthInit, AuthTypes
    <2>8. ActsSound /\ DenyExact /\ SpentDead
      BY <2>3, <2>4 DEF AuthInit, ActsSound, DenyExact, SpentDead
    <2>9. \A b \in Browsers : Straight(b)
      BY <2>1, <2>4, AuthAssumption DEF AuthInit, Straight, Idle
    <2> QED
      BY <2>7, <2>8, <2>9 DEF AuthInv
  <1>2. AuthInv /\ [AuthNext]_authVars => AuthInv'
    <2> SUFFICES ASSUME AuthInv, [AuthNext]_authVars PROVE AuthInv'
      OBVIOUS
    <2>1. CASE UNCHANGED authVars
      BY <2>1 DEF authVars, AuthInv, AuthTypes, ActsSound, DenyExact, SpentDead, Straight, Accepted,
         Decodes, Revoked, Expiry
    <2> QED
      BY <2>1, LoginStep, CheckStep, AccessStep, RevokeStep, IssueStep, LogoutStep, SecondStep
         DEF AuthNext
  <1> QED
    BY <1>1, <1>2, PTL DEF AuthSpec

-----------------------------------------------------------------------------
(* What the tokens promise *)

\* A revoked token is never accepted again, whatever the lifetimes: its denylist entry
\* lives exactly as long as it would have (services/auth.py _revoke_token).
THEOREM RevokedStays == AuthSpec => []RevokedForGood
  <1>1. AuthInv => RevokedForGood
    BY DeadNotAccepted DEF AuthInv, RevokedForGood
  <1> QED
    BY <1>1, AuthInvariant, PTL

\* A browser whose requests do not overlap and whose answers arrive has one working
\* refresh token at most, and none once it is signed out (services/auth.py
\* refresh_tokens, routes/auth.py logout).
THEOREM RefreshUnique == AuthSpec => []OneRefreshToken
  <1>1. AuthInv => OneRefreshToken
    <2> SUFFICES ASSUME AuthInv, NEW b \in Browsers \ tangled
                 PROVE  Cardinality({i \in DOMAIN pair : pair[i].by = b /\ Accepted(<<"refresh", i>>)})
                          <= (IF b \in out THEN 0 ELSE 1)
      BY DEF OneRefreshToken
    <2> DEFINE L == {i \in DOMAIN pair : pair[i].by = b /\ Accepted(<<"refresh", i>>)}
    <2>1. Straight(b) /\ DOMAIN pair = 1..Len(pair) /\ Len(pair) \in Nat
      BY DEF AuthInv, AuthTypes
    <2>2. \A i \in L : i = cookie[b] /\ i # 0
      BY <2>1 DEF Straight
    <2>3. b \in out => L = {}
      BY <2>1, <2>2 DEF Straight
    <2>4. L = {} \/ L = {cookie[b]}
      BY <2>2
    <2> HIDE DEF L
    <2>5. Cardinality({}) = 0 /\ Cardinality({cookie[b]}) = 1
      BY FS_EmptySet, FS_Singleton
    <2>6. Cardinality(L) <= (IF b \in out THEN 0 ELSE 1)
      BY <2>3, <2>4, <2>5
    <2> QED
      BY <2>6 DEF L
  <1> QED
    BY <1>1, AuthInvariant, PTL

\* The pairs, the denylist, the cookies and the requests have their types
\* (services/auth.py, routes/auth.py).
THEOREM AuthTyped == AuthSpec => []AuthTypeOK
  <1>1. AuthInv => AuthTypeOK
    <2> SUFFICES ASSUME AuthInv PROVE AuthTypeOK
      OBVIOUS
    <2>1. AuthTypes /\ DenyExact /\ DOMAIN pair = 1..Len(pair)
      BY DEF AuthInv, AuthTypes
    <2>2. ASSUME NEW t \in Tokens PROVE deny[t] \in 0..(MaxClock + AccessLife + RefreshLife)
      <3>1. t \in TokenKinds \X (1..Len(pair))
        BY <2>1 DEF Tokens
      <3> QED
        BY <2>1, <3>1, ExpiryNat, AuthAssumption DEF DenyExact
    <2> QED
      BY <2>1, <2>2 DEF AuthTypes, AuthTypeOK, PairRow, ActRow, Tokens
  <1> QED
    BY <1>1, AuthInvariant, PTL

-----------------------------------------------------------------------------
(* The sliding windows *)

AdmittedRow == [at : Nat, by : {"redis", "memory", "nobody"}]

RateTypes ==
    /\ time \in Nat
    /\ wait \in [Slots -> {"free", "trim", "count", "add"}]
    /\ stamp \in [Slots -> Nat] /\ admitted \in Seq(AdmittedRow)
    /\ IsFiniteSet(entries) /\ IsFiniteSet(bucket)
    /\ \A q \in Slots : stamp[q] <= time
    /\ \A k \in DOMAIN admitted : admitted[k].at <= time

\* The window that ends at end, what was let through in it, and the requests in
\* flight that fall into it: all of them, and those that have counted.
Within(t, end) == t <= end /\ t > end - Window
Passed(l, end) == {k \in DOMAIN admitted : admitted[k].by = l /\ Within(admitted[k].at, end)}
Flying(end)    == {q \in Slots : wait[q] # "free" /\ Within(stamp[q], end)}
Adding(end)    == {q \in Slots : wait[q] = "add" /\ Within(stamp[q], end)}

\* A set of entries that has all that limiter l let through in the window.
Names(l, end, es) == \A k \in Passed(l, end) : <<k, admitted[k].at>> \in es

\* Before a later request trims the set, it holds all that was let through in the
\* window: whoever counted last saw all but those that had counted and not added.
Early(end) ==
    /\ Names("redis", end, entries)
    /\ Cardinality(Passed("redis", end)) + Cardinality(Adding(end)) <= MaxRequests + Cardinality(Slots) - 1

\* After that, only requests that were in flight already can still fall into it.
Late(end) ==
    /\ end < time
    /\ Cardinality(Passed("redis", end)) + Cardinality(Flying(end)) <= MaxRequests + 2 * Cardinality(Slots) - 2

\* The list in memory holds what it let through in the window that ends now, and is
\* looked at and added to in one step.
MemoryRight ==
    /\ \A k \in DOMAIN admitted :
         admitted[k].by = "memory" /\ admitted[k].at > time - Window => <<k, admitted[k].at>> \in bucket
    /\ \A end \in Nat : Cardinality(Passed("memory", end)) <= MaxRequests

RateInv == RateTypes /\ MemoryRight /\ \A end \in Nat : Early(end) \/ Late(end)

\* The time of a request let through is a time.
LEMMA StampNat ==
    ASSUME RateTypes, NEW k \in DOMAIN admitted
    PROVE  admitted[k].at \in Nat
  <1>1. admitted[k] \in AdmittedRow
    BY DEF RateTypes
  <1> QED
    BY <1>1 DEF AdmittedRow

\* The sets that are counted are finite, and those of requests no larger than Slots.
LEMMA Finite ==
    ASSUME RateTypes, NEW l, NEW end \in Nat
    PROVE  /\ IsFiniteSet(Passed(l, end)) /\ Cardinality(Passed(l, end)) \in Nat
           /\ IsFiniteSet(Flying(end)) /\ Cardinality(Flying(end)) \in Nat
           /\ Cardinality(Flying(end)) <= Cardinality(Slots)
           /\ IsFiniteSet(Adding(end)) /\ Cardinality(Adding(end)) \in Nat
           /\ Cardinality(Adding(end)) <= Cardinality(Slots)
           /\ Adding(end) \subseteq Flying(end)
           /\ Cardinality(Slots) \in Nat /\ Cardinality(Slots) >= 1
           /\ MaxRequests \in Nat /\ Window \in Nat
  <1>1. Passed(l, end) \subseteq 1..Len(admitted) /\ Len(admitted) \in Nat
    BY DEF RateTypes, Passed
  <1>2. IsFiniteSet(1..Len(admitted))
    BY <1>1, FS_Interval
  <1>3. IsFiniteSet(Passed(l, end)) /\ Cardinality(Passed(l, end)) \in Nat
    BY <1>1, <1>2, FS_Subset, FS_CardinalityType
  <1>4. Flying(end) \subseteq Slots /\ Adding(end) \subseteq Slots /\ Adding(end) \subseteq Flying(end)
    BY DEF Flying, Adding
  <1>5. Cardinality(Slots) \in Nat /\ Cardinality(Slots) # 0
    BY RateLimitAssumption, FS_CardinalityType, FS_EmptySet
  <1>6. /\ IsFiniteSet(Flying(end)) /\ Cardinality(Flying(end)) \in Nat
        /\ Cardinality(Flying(end)) <= Cardinality(Slots)
        /\ IsFiniteSet(Adding(end)) /\ Cardinality(Adding(end)) \in Nat
        /\ Cardinality(Adding(end)) <= Cardinality(Slots)
    BY <1>4, RateLimitAssumption, FS_Subset, FS_CardinalityType
  <1>7. Cardinality(Slots) >= 1
    BY <1>5
  <1> QED
    BY <1>3, <1>4, <1>5, <1>6, <1>7, RateLimitAssumption

\* A set of entries that names every request of a window is no smaller than it.
LEMMA NamesAll ==
    ASSUME RateTypes, NEW l, NEW end \in Nat, NEW es, IsFiniteSet(es), Names(l, end, es)
    PROVE  Cardinality(Passed(l, end)) <= Cardinality(es)
  <1> DEFINE f == [k \in Passed(l, end) |-> <<k, admitted[k].at>>]
  <1>1. f \in Injection(Passed(l, end), es)
    BY DEF Injection, IsInjective, Names
  <1> QED
    BY <1>1, FS_Injection

\* What one more request that is let through adds to the windows it falls into.
LEMMA OneMore ==
    ASSUME RateTypes, NEW x \in AdmittedRow, admitted' = Append(admitted, x),
           NEW l, NEW end \in Nat
    PROVE  /\ x.by = l /\ Within(x.at, end) =>
                 Cardinality(Passed(l, end)') = Cardinality(Passed(l, end)) + 1
           /\ ~(x.by = l /\ Within(x.at, end)) => Passed(l, end)' = Passed(l, end)
           /\ \A k \in Passed(l, end)' :
                 \/ k \in Passed(l, end) /\ admitted'[k] = admitted[k]
                 \/ k = Len(admitted) + 1 /\ admitted'[k] = x
  <1> DEFINE n == Len(admitted) + 1
  <1>1. /\ admitted \in Seq(AdmittedRow) /\ Len(admitted) \in Nat
        /\ Len(admitted') = n /\ admitted'[n] = x
        /\ \A k \in 1..Len(admitted) : admitted'[k] = admitted[k]
    BY DEF RateTypes
  <1>2. DOMAIN admitted = 1..Len(admitted) /\ DOMAIN admitted' = 1..n
    BY <1>1
  <1>3. \A k \in 1..n : k \in 1..Len(admitted) \/ k = n
    BY <1>1
  <1>4. n \notin 1..Len(admitted) /\ n \in 1..n /\ \A k \in 1..Len(admitted) : k \in 1..n
    BY <1>1
  <1>5. Passed(l, end)' = {k \in 1..n : admitted'[k].by = l /\ Within(admitted'[k].at, end)}
    BY <1>2 DEF Passed, Within
  <1>6. Passed(l, end) = {k \in 1..Len(admitted) : admitted[k].by = l /\ Within(admitted[k].at, end)}
    BY <1>2 DEF Passed
  <1> HIDE DEF n
  <1>7. x.by = l /\ Within(x.at, end) => Passed(l, end)' = Passed(l, end) \cup {n}
    BY <1>1, <1>3, <1>4, <1>5, <1>6
  <1>8. ~(x.by = l /\ Within(x.at, end)) => Passed(l, end)' = Passed(l, end)
    BY <1>1, <1>3, <1>4, <1>5, <1>6
  <1>9. n \notin Passed(l, end)
    BY <1>4, <1>6
  <1>10. Cardinality(Passed(l, end) \cup {n}) = Cardinality(Passed(l, end)) + 1
    BY <1>9, Finite, FS_AddElement
  <1>11. \A k \in Passed(l, end)' :
            \/ k \in Passed(l, end) /\ admitted'[k] = admitted[k]
            \/ k = n /\ admitted'[k] = x
    BY <1>1, <1>3, <1>5, <1>6
  <1> QED
    BY <1>7, <1>8, <1>10, <1>11 DEF n

\* What a request's move adds to, or takes from, those in flight.
LEMMA OneMoves ==
    ASSUME RateTypes, NEW q \in Slots, NEW w, wait' = [wait EXCEPT ![q] = w], stamp' = stamp,
           NEW end \in Nat
    PROVE  /\ Adding(end)' = IF w = "add" /\ Within(stamp[q], end) THEN Adding(end) \cup {q}
                             ELSE Adding(end) \ {q}
           /\ Flying(end)' = IF w # "free" /\ Within(stamp[q], end) THEN Flying(end) \cup {q}
                             ELSE Flying(end) \ {q}
  <1>1. wait'[q] = w /\ \A p \in Slots \ {q} : wait'[p] = wait[p]
    BY DEF RateTypes
  <1> QED
    BY <1>1 DEF Adding, Flying, Within

\* A window that is over stays so: nobody falls into it any more.
LEMMA StaysLate ==
    ASSUME RateTypes, NEW end \in Nat, Late(end), time' \in Nat, time' >= time,
           Passed("redis", end)' = Passed("redis", end), Flying(end)' \subseteq Flying(end)
    PROVE  Late(end)'
  <1>1. /\ IsFiniteSet(Flying(end)) /\ Cardinality(Flying(end)) \in Nat
        /\ Cardinality(Passed("redis", end)) \in Nat
        /\ Cardinality(Slots) \in Nat /\ MaxRequests \in Nat /\ time \in Nat
    BY Finite DEF RateTypes
  <1>2. Cardinality(Flying(end)') <= Cardinality(Flying(end)) /\ Cardinality(Flying(end)') \in Nat
    BY <1>1, FS_Subset, FS_CardinalityType
  <1>3. end < time'
    BY <1>1 DEF Late
  <1> QED
    BY <1>1, <1>2, <1>3 DEF Late

\* A step that lets no request of the window through by Redis, drops no entry, and
\* puts no request into the window keeps its bound.
LEMMA Undisturbed ==
    ASSUME RateTypes, NEW end \in Nat, Early(end) \/ Late(end), time' \in Nat, time' >= time,
           Passed("redis", end)' = Passed("redis", end),
           Names("redis", end, entries) => Names("redis", end, entries)',
           Adding(end)' \subseteq Adding(end), Late(end) => Flying(end)' \subseteq Flying(end)
    PROVE  Early(end)' \/ Late(end)'
  <1>1. /\ IsFiniteSet(Adding(end)) /\ Cardinality(Adding(end)) \in Nat
        /\ Cardinality(Passed("redis", end)) \in Nat
        /\ Cardinality(Slots) \in Nat /\ MaxRequests \in Nat
    BY Finite
  <1>2. CASE Early(end)
    <2>1. Cardinality(Adding(end)') <= Cardinality(Adding(end)) /\ Cardinality(Adding(end)') \in Nat
      BY <1>1, FS_Subset, FS_CardinalityType
    <2> QED
      BY <1>1, <1>2, <2>1 DEF Early
  <1>3. CASE Late(end)
    BY <1>3, StaysLate
  <1> QED
    BY <1>2, <1>3

\* At first nothing was let through.
LEMMA InitRate == RateInit => RateInv
  <1> SUFFICES ASSUME RateInit PROVE RateInv
    OBVIOUS
  <1>1. /\ time = 0 /\ entries = {} /\ bucket = {} /\ admitted = <<>>
        /\ wait = [q \in Slots |-> "free"] /\ stamp = [q \in Slots |-> 0]
    BY DEF RateInit
  <1>2. IsFiniteSet(entries) /\ IsFiniteSet(bucket)
    BY <1>1, FS_EmptySet
  <1>3. admitted \in Seq(AdmittedRow) /\ DOMAIN admitted = {}
    BY <1>1
  <1>4. RateTypes
    BY <1>1, <1>2, <1>3 DEF RateTypes
  <1>5. \A l, end : Passed(l, end) = {} /\ Adding(end) = {}
    BY <1>1, <1>3 DEF Passed, Adding
  <1>6. Cardinality({}) = 0
    BY FS_EmptySet
  <1>7. MemoryRight
    <2>1. \A end \in Nat : Cardinality(Passed("memory", end)) = 0
      BY <1>5, <1>6
    <2>2. 0 <= MaxRequests
      BY RateLimitAssumption
    <2> QED
      BY <1>3, <2>1, <2>2 DEF MemoryRight
  <1>8. ASSUME NEW end \in Nat PROVE Early(end)
    <2>1. Cardinality(Slots) \in Nat /\ Cardinality(Slots) >= 1 /\ MaxRequests \in Nat
      BY <1>4, Finite
    <2>2. Cardinality(Passed("redis", end)) = 0 /\ Cardinality(Adding(end)) = 0
      BY <1>5, <1>6
    <2>3. Names("redis", end, entries)
      BY <1>5 DEF Names
    <2> QED
      BY <2>1, <2>2, <2>3 DEF Early
  <1> QED
    BY <1>4, <1>7, <1>8 DEF RateInv

\* A request arrives: it falls into windows that end now or later.
LEMMA ArriveRate ==
    ASSUME RateInv, NEW q \in Slots, Arrive(q)
    PROVE  RateInv'
  <1>0. RateTypes
    BY DEF RateInv
  <1>1. /\ wait[q] = "free" /\ wait' = [wait EXCEPT ![q] = "trim"] /\ stamp' = [stamp EXCEPT ![q] = time]
        /\ UNCHANGED <<time, entries, bucket, admitted>>
    BY DEF Arrive
  <1>2. RateTypes'
    BY <1>0, <1>1 DEF RateTypes
  <1>3. MemoryRight'
    BY <1>1 DEF RateInv, MemoryRight, Passed, Within
  <1>4. /\ wait'[q] = "trim" /\ stamp'[q] = time
        /\ \A p \in Slots \ {q} : wait'[p] = wait[p] /\ stamp'[p] = stamp[p]
    BY <1>0, <1>1 DEF RateTypes
  <1>5. ASSUME NEW end \in Nat PROVE Early(end)' \/ Late(end)'
    <2>1. Passed("redis", end)' = Passed("redis", end)
      BY <1>1 DEF Passed, Within
    <2>2. Names("redis", end, entries) => Names("redis", end, entries)'
      BY <1>1, <2>1 DEF Names
    <2>3. Adding(end)' \subseteq Adding(end)
      BY <1>1, <1>4 DEF Adding, Within
    <2>4. Late(end) => Flying(end)' \subseteq Flying(end)
      <3> SUFFICES ASSUME Late(end), NEW p \in Flying(end)' PROVE p \in Flying(end)
        OBVIOUS
      <3>1. p # q
        BY <1>0, <1>4 DEF Late, Flying, Within, RateTypes
      <3> QED
        BY <1>4, <3>1 DEF Flying, Within
    <2>5. time' \in Nat /\ time' >= time
      BY <1>0, <1>1 DEF RateTypes
    <2> QED
      BY <1>0, <2>1, <2>2, <2>3, <2>4, <2>5, Undisturbed DEF RateInv
  <1> QED
    BY <1>2, <1>3, <1>5 DEF RateInv

\* zremrangebyscore: an entry of a window goes only if the window is over for the
\* request that trims, and then no later one falls into it.
LEMMA TrimRate ==
    ASSUME RateInv, NEW q \in Slots, Trim(q)
    PROVE  RateInv'
  <1>0. RateTypes
    BY DEF RateInv
  <1>1. /\ wait[q] = "trim" /\ entries' = Recent(entries, stamp[q])
        /\ wait' = [wait EXCEPT ![q] = "count"] /\ UNCHANGED <<time, bucket, stamp, admitted>>
    BY DEF Trim
  <1>2. entries' \subseteq entries
    BY <1>1 DEF Recent
  <1>3. RateTypes'
    <2>1. IsFiniteSet(entries')
      BY <1>0, <1>2, FS_Subset DEF RateTypes
    <2> QED
      BY <1>0, <1>1, <2>1 DEF RateTypes
  <1>4. MemoryRight'
    BY <1>1 DEF RateInv, MemoryRight, Passed, Within
  <1>5. ASSUME NEW end \in Nat PROVE Early(end)' \/ Late(end)'
    <2>1. Passed("redis", end)' = Passed("redis", end)
      BY <1>1 DEF Passed, Within
    <2>2. Adding(end)' \subseteq Adding(end) /\ Flying(end)' \subseteq Flying(end)
      <3>1. wait'[q] = "count" /\ \A p \in Slots \ {q} : wait'[p] = wait[p]
        BY <1>0, <1>1 DEF RateTypes
      <3> QED
        BY <1>1, <3>1 DEF Adding, Flying, Within
    <2>3. time' \in Nat /\ time' >= time
      BY <1>0, <1>1 DEF RateTypes
    <2>4. CASE Names("redis", end, entries) => Names("redis", end, entries)'
      BY <1>0, <2>1, <2>2, <2>3, <2>4, Undisturbed DEF RateInv
    <2>5. CASE Names("redis", end, entries) /\ ~Names("redis", end, entries)'
      <3>1. PICK k \in Passed("redis", end) :
              <<k, admitted[k].at>> \in entries /\ <<k, admitted[k].at>> \notin entries'
        BY <1>1, <2>1, <2>5 DEF Names
      <3>2. admitted[k] \in AdmittedRow /\ Within(admitted[k].at, end)
        BY <1>0, <3>1 DEF Passed, RateTypes
      <3>3. ~(admitted[k].at > stamp[q] - Window)
        BY <1>1, <3>1 DEF Recent
      <3>4. stamp[q] > end /\ time > end
        BY <1>0, <3>2, <3>3, RateLimitAssumption DEF Within, AdmittedRow, RateTypes
      <3>5. CASE Late(end)
        BY <1>0, <2>1, <2>2, <2>3, <3>5, StaysLate
      <3>6. CASE Early(end)
        <4>1. q \notin Flying(end)'
          BY <1>0, <1>1, <3>4 DEF Flying, Within, RateTypes
        <4>2. Flying(end)' \subseteq Slots \ {q}
          BY <4>1 DEF Flying
        <4>3. Cardinality(Slots \ {q}) = Cardinality(Slots) - 1 /\ IsFiniteSet(Slots \ {q})
          BY RateLimitAssumption, FS_RemoveElement
        <4>4. /\ Cardinality(Flying(end)') <= Cardinality(Slots) - 1
          BY <4>2, <4>3, FS_Subset
        <4>5. /\ Cardinality(Flying(end)') \in Nat /\ Cardinality(Passed("redis", end)) \in Nat
              /\ Cardinality(Slots) \in Nat /\ MaxRequests \in Nat
          BY <1>0, <4>2, <4>3, Finite, FS_Subset, FS_CardinalityType
        <4>6. Cardinality(Passed("redis", end)) <= MaxRequests + Cardinality(Slots) - 1
          <5>1. Cardinality(Adding(end)) \in Nat /\ Cardinality(Passed("redis", end)) \in Nat
            BY <1>0, Finite
          <5> QED
            BY <3>6, <4>5, <5>1 DEF Early
        <4>7. end < time'
          BY <1>1, <3>4
        <4> QED
          BY <2>1, <4>4, <4>5, <4>6, <4>7 DEF Late
      <3> QED
        BY <3>5, <3>6 DEF RateInv
    <2> QED
      BY <2>4, <2>5
  <1> QED
    BY <1>3, <1>4, <1>5 DEF RateInv

\* zcard: a request that is let through has seen fewer than the limit; of those it
\* has not seen each is in flight.
LEMMA CountRate ==
    ASSUME RateInv, NEW q \in Slots, Count(q)
    PROVE  RateInv'
  <1>0. RateTypes /\ time \in Nat
    BY DEF RateInv, RateTypes
  <1>1. wait[q] = "count" /\ UNCHANGED <<time, entries, bucket, stamp, admitted>>
    BY DEF Count
  <1>2. PICK w \in {"free", "add"} : wait' = [wait EXCEPT ![q] = w] /\ (w = "add" => ~Full(entries))
    BY DEF Count
  <1>3. RateTypes'
    BY <1>0, <1>1, <1>2 DEF RateTypes
  <1>4. MemoryRight'
    BY <1>1 DEF RateInv, MemoryRight, Passed, Within
  <1>5. ASSUME NEW end \in Nat PROVE Early(end)' \/ Late(end)'
    <2>1. /\ Passed("redis", end)' = Passed("redis", end)
          /\ Names("redis", end, entries) => Names("redis", end, entries)'
      BY <1>1 DEF Passed, Within, Names
    <2>2. wait'[q] = w /\ \A p \in Slots \ {q} : wait'[p] = wait[p]
      BY <1>0, <1>2 DEF RateTypes
    <2>3. Flying(end)' \subseteq Flying(end)
      BY <1>1, <2>2 DEF Flying, Within
    <2>4. time' \in Nat /\ time' >= time
      BY <1>0, <1>1
    <2>5. CASE w = "free"
      <3>1. Adding(end)' \subseteq Adding(end)
        BY <1>1, <2>2, <2>5 DEF Adding, Within
      <3> QED
        BY <1>0, <2>1, <2>3, <2>4, <3>1, Undisturbed DEF RateInv
    <2>6. CASE Late(end)
      BY <1>0, <2>1, <2>3, <2>4, <2>6, StaysLate
    <2>7. CASE w = "add" /\ Early(end)
      <3>1. Cardinality(Passed("redis", end)) <= Cardinality(entries)
        BY <1>0, <2>7, NamesAll DEF Early, RateTypes
      <3>2. Cardinality(entries) < MaxRequests /\ Cardinality(entries) \in Nat
        <4>1. Cardinality(entries) \in Nat
          BY <1>0, FS_CardinalityType DEF RateTypes
        <4> QED
          BY <1>2, <2>7, <4>1, RateLimitAssumption DEF Full
      <3>3. /\ Cardinality(Adding(end)') <= Cardinality(Slots) /\ Cardinality(Adding(end)') \in Nat
        <4>1. Adding(end)' \subseteq Slots
          BY DEF Adding
        <4> QED
          BY <4>1, RateLimitAssumption, FS_Subset, FS_CardinalityType
      <3>4. /\ Cardinality(Passed("redis", end)) \in Nat /\ Cardinality(Slots) \in Nat
            /\ MaxRequests \in Nat
        BY <1>0, Finite
      <3>5. Cardinality(Passed("redis", end)) + Cardinality(Adding(end)')
               <= MaxRequests + Cardinality(Slots) - 1
        BY <3>1, <3>2, <3>3, <3>4
      <3> QED
        BY <2>1, <2>7, <3>5 DEF Early
    <2> QED
      BY <1>2, <2>5, <2>6, <2>7 DEF RateInv
  <1> QED
    BY <1>3, <1>4, <1>5 DEF RateInv

\* zadd: the request moves from those that have counted to those let through.
LEMMA AddRate ==
    ASSUME RateInv, NEW q \in Slots, Add(q)
    PROVE  RateInv'
  <1>0. RateTypes /\ time \in Nat
    BY DEF RateInv, RateTypes
  <1>1. /\ wait[q] = "add" /\ wait' = [wait EXCEPT ![q] = "free"]
        /\ entries' = entries \cup {<<Len(admitted) + 1, stamp[q]>>}
        /\ UNCHANGED <<time, bucket, stamp>>
    BY DEF Add
  <1>2. PICK x \in AdmittedRow : /\ admitted' = Append(admitted, x)
                                 /\ x.by = "redis" /\ x.at = stamp[q]
    <2>1. [at |-> stamp[q], by |-> "redis"] \in AdmittedRow
      BY <1>0 DEF AdmittedRow, RateTypes
    <2> QED
      BY <2>1 DEF Add, Admit
  <1>3. /\ admitted' \in Seq(AdmittedRow)
        /\ \A k \in DOMAIN admitted' : admitted'[k] = x \/ (k \in DOMAIN admitted /\ admitted'[k] = admitted[k])
    BY <1>0, <1>2 DEF RateTypes
  <1>4. RateTypes'
    <2>1. IsFiniteSet(entries')
      BY <1>0, <1>1, FS_AddElement DEF RateTypes
    <2>2. \A k \in DOMAIN admitted' : admitted'[k].at <= time
      BY <1>0, <1>2, <1>3 DEF RateTypes
    <2> QED
      BY <1>0, <1>1, <1>3, <2>1, <2>2 DEF RateTypes
  <1>5. MemoryRight'
    <2>1. \A end \in Nat : Passed("memory", end)' = Passed("memory", end)
      BY <1>0, <1>2, OneMore
    <2> QED
      BY <1>1, <1>2, <1>3, <2>1 DEF RateInv, MemoryRight
  <1>6. ASSUME NEW end \in Nat PROVE Early(end)' \/ Late(end)'
    <2>1. Names("redis", end, entries) => Names("redis", end, entries)'
      <3> SUFFICES ASSUME Names("redis", end, entries), NEW k \in Passed("redis", end)'
                   PROVE  <<k, admitted'[k].at>> \in entries'
        BY DEF Names
      <3>1. CASE k \in Passed("redis", end) /\ admitted'[k] = admitted[k]
        BY <1>1, <3>1 DEF Names
      <3>2. CASE k = Len(admitted) + 1 /\ admitted'[k] = x
        BY <1>1, <1>2, <3>2
      <3>3. \/ k \in Passed("redis", end) /\ admitted'[k] = admitted[k]
            \/ k = Len(admitted) + 1 /\ admitted'[k] = x
        BY <1>0, <1>2, OneMore
      <3> QED
        BY <3>1, <3>2, <3>3
    <2>2. Adding(end)' = Adding(end) \ {q} /\ Flying(end)' = Flying(end) \ {q}
      BY <1>0, <1>1, OneMoves
    <2>3. CASE ~Within(stamp[q], end)
      <3>1. Passed("redis", end)' = Passed("redis", end)
        BY <1>0, <1>2, <2>3, OneMore
      <3>2. time' \in Nat /\ time' >= time
        BY <1>0, <1>1
      <3>3. Adding(end)' \subseteq Adding(end) /\ Flying(end)' \subseteq Flying(end)
        BY <2>2
      <3> QED
        BY <1>0, <2>1, <3>1, <3>2, <3>3, Undisturbed DEF RateInv
    <2>4. CASE Within(stamp[q], end)
      <3>1. Cardinality(Passed("redis", end)') = Cardinality(Passed("redis", end)) + 1
        BY <1>0, <1>2, <2>4, OneMore
      <3>2. q \in Adding(end) /\ q \in Flying(end)
        BY <1>1, <2>4 DEF Adding, Flying
      <3>3. /\ IsFiniteSet(Adding(end)) /\ IsFiniteSet(Flying(end))
            /\ Cardinality(Adding(end)) \in Nat /\ Cardinality(Flying(end)) \in Nat
            /\ Cardinality(Passed("redis", end)) \in Nat
            /\ Cardinality(Slots) \in Nat /\ MaxRequests \in Nat
        BY <1>0, Finite
      <3>4. /\ Cardinality(Adding(end)') = Cardinality(Adding(end)) - 1
            /\ Cardinality(Flying(end)') = Cardinality(Flying(end)) - 1
        BY <2>2, <3>2, <3>3, FS_RemoveElement
      <3>5. CASE Early(end)
        BY <2>1, <3>1, <3>3, <3>4, <3>5 DEF Early
      <3>6. CASE Late(end)
        BY <1>1, <3>1, <3>3, <3>4, <3>6 DEF Late
      <3> QED
        BY <3>5, <3>6 DEF RateInv
    <2> QED
      BY <2>3, <2>4
  <1> QED
    BY <1>4, <1>5, <1>6 DEF RateInv

\* A request leaves Redis' side, to be let through by another rule or not at all.
LEMMA LeaveRedis ==
    ASSUME RateInv, NEW q \in Slots, wait' = [wait EXCEPT ![q] = "free"], UNCHANGED <<time, entries, stamp>>,
           NEW x \in AdmittedRow, admitted' = admitted \/ admitted' = Append(admitted, x), x.by # "redis",
           NEW end \in Nat
    PROVE  Early(end)' \/ Late(end)'
  <1>0. RateTypes /\ time \in Nat
    BY DEF RateInv, RateTypes
  <1>1. /\ Passed("redis", end)' = Passed("redis", end)
        /\ \A k \in Passed("redis", end) : admitted'[k] = admitted[k]
    <2>1. CASE admitted' = admitted
      BY <2>1 DEF Passed, Within
    <2>2. CASE admitted' = Append(admitted, x)
      <3>1. Passed("redis", end)' = Passed("redis", end)
        BY <1>0, <2>2, OneMore
      <3>2. \A k \in DOMAIN admitted : admitted'[k] = admitted[k]
        BY <1>0, <2>2 DEF RateTypes
      <3> QED
        BY <3>1, <3>2 DEF Passed
    <2> QED
      BY <2>1, <2>2
  <1>2. Names("redis", end, entries) => Names("redis", end, entries)'
    BY <1>1 DEF Names
  <1>3. Adding(end)' \subseteq Adding(end) /\ Flying(end)' \subseteq Flying(end)
    BY <1>0, OneMoves
  <1> QED
    BY <1>0, <1>1, <1>2, <1>3, Undisturbed DEF RateInv

\* Redis does not answer a call of the booths' limiter: the request goes through.
LEMMA FailOpenRate ==
    ASSUME RateInv, NEW q \in Slots, FailOpen(q)
    PROVE  RateInv'
  <1>0. RateTypes /\ time \in Nat
    BY DEF RateInv, RateTypes
  <1>1. wait' = [wait EXCEPT ![q] = "free"] /\ UNCHANGED <<time, entries, bucket, stamp>>
    BY DEF FailOpen
  <1>2. PICK x \in AdmittedRow : /\ admitted' = Append(admitted, x)
                                 /\ x.by = "nobody" /\ x.at = stamp[q]
    <2>1. [at |-> stamp[q], by |-> "nobody"] \in AdmittedRow
      BY <1>0 DEF AdmittedRow, RateTypes
    <2> QED
      BY <2>1 DEF FailOpen, Admit
  <1>3. /\ admitted' \in Seq(AdmittedRow)
        /\ \A k \in DOMAIN admitted' : admitted'[k] = x \/ (k \in DOMAIN admitted /\ admitted'[k] = admitted[k])
    BY <1>0, <1>2 DEF RateTypes
  <1>4. RateTypes'
    <2>2. \A k \in DOMAIN admitted' : admitted'[k].at <= time
      BY <1>0, <1>2, <1>3 DEF RateTypes
    <2> QED
      BY <1>0, <1>1, <1>3, <2>2 DEF RateTypes
  <1>5. MemoryRight'
    <2>1. \A end \in Nat : Passed("memory", end)' = Passed("memory", end)
      BY <1>0, <1>2, OneMore
    <2> QED
      BY <1>1, <1>2, <1>3, <2>1 DEF RateInv, MemoryRight
  <1>6. ASSUME NEW end \in Nat PROVE Early(end)' \/ Late(end)'
    BY <1>1, <1>2, LeaveRedis
  <1> QED
    BY <1>4, <1>5, <1>6 DEF RateInv

\* _check_limit_memory looks and adds in one step, so that no window of its own is
\* ever over the limit.
LEMMA FallbackRate ==
    ASSUME RateInv, NEW q \in Slots, Fallback(q)
    PROVE  RateInv'
  <1> DEFINE left == Recent(bucket, time)
  <1>0. RateTypes /\ time \in Nat /\ IsFiniteSet(bucket)
    BY DEF RateInv, RateTypes
  <1>1. wait' = [wait EXCEPT ![q] = "free"] /\ UNCHANGED <<time, entries, stamp>>
    BY DEF Fallback
  <1>2. PICK x \in AdmittedRow : x = [at |-> time, by |-> "memory"]
    BY <1>0 DEF AdmittedRow
  <1>3. x.at = time /\ x.by = "memory"
    BY <1>2
  <1>4. left \subseteq bucket /\ IsFiniteSet(left) /\ Cardinality(left) \in Nat
    <2>1. left \subseteq bucket
      BY DEF Recent
    <2> HIDE DEF left
    <2> QED
      BY <1>0, <2>1, FS_Subset, FS_CardinalityType
  <1>5. \A k \in DOMAIN admitted :
          admitted[k].by = "memory" /\ admitted[k].at > time - Window => <<k, admitted[k].at>> \in left
    BY DEF RateInv, MemoryRight, Recent
  <1>6. CASE Full(left)
    <2>1. bucket' = left /\ admitted' = admitted
      BY <1>6 DEF Fallback
    <2>2. RateTypes'
      BY <1>0, <1>1, <1>4, <2>1 DEF RateTypes
    <2>3. MemoryRight'
      BY <1>1, <1>5, <2>1 DEF RateInv, MemoryRight, Passed, Within
    <2>4. ASSUME NEW end \in Nat PROVE Early(end)' \/ Late(end)'
      BY <1>1, <1>3, <2>1, LeaveRedis
    <2> QED
      BY <2>2, <2>3, <2>4 DEF RateInv
  <1>7. CASE ~Full(left)
    <2>1. /\ bucket' = left \cup {<<Len(admitted) + 1, time>>}
          /\ admitted' = Append(admitted, x)
      BY <1>2, <1>7 DEF Fallback
    <2>2. /\ admitted' \in Seq(AdmittedRow)
          /\ \A k \in DOMAIN admitted' : \/ k = Len(admitted) + 1 /\ admitted'[k] = x
                                         \/ k \in DOMAIN admitted /\ admitted'[k] = admitted[k]
      BY <1>0, <2>1 DEF RateTypes
    <2>3. RateTypes'
      <3>1. IsFiniteSet(bucket')
        <4> HIDE DEF left
        <4> QED
          BY <1>4, <2>1, FS_AddElement
      <3>2. \A k \in DOMAIN admitted' : admitted'[k].at <= time
        BY <1>0, <1>3, <2>2 DEF RateTypes
      <3> QED
        BY <1>0, <1>1, <2>2, <3>1, <3>2 DEF RateTypes
    <2> HIDE DEF left
    <2>4. ASSUME NEW end \in Nat PROVE Cardinality(Passed("memory", end)') <= MaxRequests
      <3>1. CASE ~Within(x.at, end)
        <4>1. Passed("memory", end)' = Passed("memory", end)
          BY <1>0, <2>1, <3>1, OneMore
        <4> QED
          BY <4>1 DEF RateInv, MemoryRight
      <3>2. CASE Within(x.at, end)
        <4>1. Cardinality(Passed("memory", end)') = Cardinality(Passed("memory", end)) + 1
          BY <1>0, <1>3, <2>1, <3>2, OneMore
        <4>2. Names("memory", end, left)
          <5> SUFFICES ASSUME NEW k \in Passed("memory", end) PROVE <<k, admitted[k].at>> \in left
            BY DEF Names
          <5>1. k \in DOMAIN admitted /\ admitted[k].by = "memory" /\ admitted[k].at > end - Window
            BY DEF Passed, Within
          <5>2. admitted[k].at \in Nat /\ end >= time
            BY <1>0, <1>3, <3>2, <5>1, StampNat DEF Within
          <5>3. admitted[k].at > time - Window
            BY <1>0, <5>1, <5>2, RateLimitAssumption
          <5> QED
            BY <1>5, <5>1, <5>3
        <4>3. Cardinality(Passed("memory", end)) <= Cardinality(left)
          BY <1>0, <1>4, <4>2, NamesAll
        <4>4. Cardinality(left) < MaxRequests
          BY <1>4, <1>7, RateLimitAssumption DEF Full
        <4>5. Cardinality(Passed("memory", end)) \in Nat /\ MaxRequests \in Nat
          BY <1>0, Finite
        <4> QED
          BY <1>4, <4>1, <4>3, <4>4, <4>5
      <3> QED
        BY <3>1, <3>2
    <2>5. MemoryRight'
      <3>1. ASSUME NEW k \in DOMAIN admitted', admitted'[k].by = "memory",
                   admitted'[k].at > time - Window
            PROVE  <<k, admitted'[k].at>> \in bucket'
        <4>1. CASE k = Len(admitted) + 1 /\ admitted'[k] = x
          BY <1>3, <2>1, <4>1
        <4>2. CASE k \in DOMAIN admitted /\ admitted'[k] = admitted[k]
          BY <1>5, <2>1, <3>1, <4>2
        <4> QED
          BY <2>2, <4>1, <4>2
      <3> QED
        BY <1>1, <2>4, <3>1 DEF MemoryRight
    <2>6. ASSUME NEW end \in Nat PROVE Early(end)' \/ Late(end)'
      BY <1>1, <1>3, <2>1, LeaveRedis
    <2> QED
      BY <2>3, <2>5, <2>6 DEF RateInv
  <1> QED
    BY <1>6, <1>7

\* A second passes.
LEMMA TimeRate ==
    ASSUME RateInv, TimePasses
    PROVE  RateInv'
  <1>0. RateTypes /\ time \in Nat
    BY DEF RateInv, RateTypes
  <1>1. time' = time + 1 /\ UNCHANGED <<entries, bucket, wait, stamp, admitted>>
    BY DEF TimePasses
  <1>2. RateTypes'
    <2>1. \A q \in Slots : stamp[q] <= time'
      BY <1>0, <1>1 DEF RateTypes
    <2>2. \A k \in DOMAIN admitted : admitted[k].at <= time' /\ admitted[k].at \in Nat
      <3>1. \A k \in DOMAIN admitted : admitted[k].at \in Nat /\ admitted[k].at <= time
        BY <1>0, StampNat DEF RateTypes
      <3> QED
        BY <1>0, <1>1, <3>1
    <2> QED
      BY <1>0, <1>1, <2>1, <2>2 DEF RateTypes
  <1>3. MemoryRight'
    <2>1. \A k \in DOMAIN admitted : admitted[k].at > time' - Window => admitted[k].at > time - Window
      <3>1. \A k \in DOMAIN admitted : admitted[k].at \in Nat
        BY <1>0, StampNat
      <3> QED
        BY <1>0, <1>1, <3>1, RateLimitAssumption
    <2>2. \A end : Passed("memory", end)' = Passed("memory", end)
      BY <1>1 DEF Passed, Within
    <2> QED
      BY <1>1, <2>1, <2>2 DEF RateInv, MemoryRight
  <1>4. ASSUME NEW end \in Nat PROVE Early(end)' \/ Late(end)'
    <2>1. /\ Passed("redis", end)' = Passed("redis", end) /\ Adding(end)' = Adding(end)
          /\ Flying(end)' = Flying(end)
      BY <1>1 DEF Passed, Adding, Flying, Within
    <2>2. Names("redis", end, entries) => Names("redis", end, entries)'
      BY <1>1, <2>1 DEF Names
    <2>3. time' \in Nat /\ time' >= time
      BY <1>0, <1>1
    <2> QED
      BY <1>0, <2>1, <2>2, <2>3, Undisturbed DEF RateInv
  <1> QED
    BY <1>2, <1>3, <1>4 DEF RateInv

\* In no window are more requests let through by Redis than the limit and two for each
\* other request that is handled at the time, for every limit, window and number of
\* requests at a time, and in memory never more than the limit (rate_limit.py
\* _check_limit, _check_limit_memory, rate_limit_booth.py enforce_booth_rate_limit).
THEOREM WindowsHold == RateSpec => []WindowBound
  <1>1. RateInv /\ [RateNext]_rateVars => RateInv'
    <2> SUFFICES ASSUME RateInv, [RateNext]_rateVars PROVE RateInv'
      OBVIOUS
    <2>1. CASE UNCHANGED rateVars
      <3>1. UNCHANGED <<time, entries, bucket, wait, stamp, admitted>>
        BY <2>1 DEF rateVars
      <3> QED
        BY <3>1 DEF RateInv, RateTypes, MemoryRight, Early, Late, Names, Passed, Adding, Flying, Within
    <2> QED
      BY <2>1, ArriveRate, TrimRate, CountRate, AddRate, FallbackRate, FailOpenRate, TimeRate
      DEF RateNext
  <1>2. RateInv => WindowBound
    <2> SUFFICES ASSUME RateInv, NEW end \in 0..MaxTime
                 PROVE  /\ Cardinality(Passed("redis", end)) <= MaxRequests + 2 * (Cardinality(Slots) - 1)
                        /\ Cardinality(Passed("memory", end)) <= MaxRequests
      BY DEF WindowBound, Passed, Within
    <2>1. end \in Nat
      BY RateLimitAssumption
    <2>2. /\ Cardinality(Passed("redis", end)) \in Nat /\ Cardinality(Adding(end)) \in Nat
          /\ Cardinality(Flying(end)) \in Nat /\ Cardinality(Slots) \in Nat
          /\ Cardinality(Slots) >= 1 /\ MaxRequests \in Nat
      BY <2>1, Finite DEF RateInv
    <2>3. Cardinality(Passed("redis", end)) <= MaxRequests + 2 * (Cardinality(Slots) - 1)
      <3>1. CASE Early(end)
        BY <2>2, <3>1 DEF Early
      <3>2. CASE Late(end)
        BY <2>2, <3>2 DEF Late
      <3> QED
        BY <2>1, <3>1, <3>2 DEF RateInv
    <2>4. Cardinality(Passed("memory", end)) <= MaxRequests
      BY <2>1 DEF RateInv, MemoryRight
    <2> QED
      BY <2>3, <2>4
  <1> QED
    BY <1>1, <1>2, InitRate, PTL DEF RateSpec

\* Requests in flight, and the room that is left for them under the bound.
InFlight == {q \in Slots : wait[q] # "free"}
Room == Len(admitted) + Cardinality(InFlight) <= MaxAdmitted

\* The rows a sorted set or a list in memory can have.
Marks == (1..MaxAdmitted) \X (0..MaxTime)

\* The requests in flight are finitely many, and one that leaves makes room for one.
LEMMA FlightCount ==
    ASSUME RateTypeOK
    PROVE  /\ IsFiniteSet(InFlight) /\ Cardinality(InFlight) \in Nat
           /\ \A q \in InFlight : Cardinality(InFlight \ {q}) = Cardinality(InFlight) - 1
           /\ \A q \in Slots \ InFlight : Cardinality(InFlight \cup {q}) = Cardinality(InFlight) + 1
           /\ InFlight # {} => Cardinality(InFlight) >= 1
           /\ Len(admitted) \in Nat
  <1>1. IsFiniteSet(InFlight)
    BY RateLimitAssumption, FS_Subset DEF InFlight
  <1>2. Cardinality(InFlight) \in Nat /\ (InFlight # {} => Cardinality(InFlight) # 0)
    BY <1>1, FS_CardinalityType, FS_EmptySet
  <1>3. \A q \in InFlight : Cardinality(InFlight \ {q}) = Cardinality(InFlight) - 1
    BY <1>1, FS_RemoveElement
  <1>4. \A q \in Slots \ InFlight : Cardinality(InFlight \cup {q}) = Cardinality(InFlight) + 1
    BY <1>1, FS_AddElement
  <1>5. Len(admitted) \in Nat
    BY DEF RateTypeOK
  <1> QED
    BY <1>1, <1>2, <1>3, <1>4, <1>5

\* One more request is let through while there is room.
LEMMA AdmitTyped ==
    ASSUME RateTypeOK, NEW at \in 0..MaxTime, NEW by \in {"redis", "memory", "nobody"},
           admitted' = Append(admitted, [at |-> at, by |-> by]), Len(admitted) < MaxAdmitted
    PROVE  /\ admitted' \in Seq([at : 0..MaxTime, by : {"redis", "memory", "nobody"}])
           /\ Len(admitted') = Len(admitted) + 1 /\ Len(admitted') <= MaxAdmitted
           /\ <<Len(admitted) + 1, at>> \in Marks
  <1> DEFINE Item == [at : 0..MaxTime, by : {"redis", "memory", "nobody"}]
             item == [at |-> at, by |-> by]
  <1>1. item \in Item
    OBVIOUS
  <1>2. admitted \in Seq(Item) /\ Len(admitted) \in Nat
    BY DEF RateTypeOK
  <1> HIDE DEF Item, item
  <1>3. Append(admitted, item) \in Seq(Item) /\ Len(Append(admitted, item)) = Len(admitted) + 1
    BY <1>1, <1>2
  <1>4. Len(admitted) + 1 \in 1..MaxAdmitted /\ MaxAdmitted \in Nat
    BY <1>2, RateLimitAssumption
  <1> QED
    BY <1>2, <1>3, <1>4 DEF Item, item, Marks

\* The limiter's state has its type: what it counts and what it let through stay
\* within the requests that were let through, whatever fails in between
\* (rate_limit.py _check_limit, _check_limit_memory, rate_limit_booth.py
\* enforce_booth_rate_limit).
THEOREM RateTyped == RateSpec => []RateTypeOK
  <1> DEFINE Inv == RateTypeOK /\ Room
  <1>1. RateInit => Inv
    <2> SUFFICES ASSUME RateInit PROVE Inv
      OBVIOUS
    <2>1. /\ time = 0 /\ entries = {} /\ bucket = {} /\ admitted = <<>> /\ booth \in BOOLEAN
          /\ wait = [q \in Slots |-> "free"] /\ stamp = [q \in Slots |-> 0]
      BY DEF RateInit
    <2>2. admitted \in Seq([at : 0..MaxTime, by : {"redis", "memory", "nobody"}]) /\ Len(admitted) = 0
      BY <2>1
    <2>3. 0 \in 0..MaxTime /\ MaxAdmitted \in Nat
      BY RateLimitAssumption
    <2>4. RateTypeOK
      BY <2>1, <2>2, <2>3 DEF RateTypeOK
    <2>5. InFlight = {}
      BY <2>1 DEF InFlight
    <2>6. Cardinality(InFlight) = 0
      BY <2>5, FS_EmptySet
    <2> QED
      BY <2>2, <2>3, <2>4, <2>6 DEF Room
  <1>2. Inv /\ [RateNext]_rateVars => Inv'
    <2> SUFFICES ASSUME RateTypeOK, Room, [RateNext]_rateVars PROVE RateTypeOK' /\ Room'
      OBVIOUS
    <2>0. /\ MaxTime \in Nat /\ MaxAdmitted \in Nat /\ time \in 0..MaxTime
          /\ entries \subseteq Marks /\ bucket \subseteq Marks
      BY RateLimitAssumption DEF RateTypeOK, Marks
    <2>1. ASSUME NEW q \in Slots, Arrive(q) PROVE RateTypeOK' /\ Room'
      <3>1. /\ wait[q] = "free" /\ Len(admitted) + Cardinality(InFlight) < MaxAdmitted
            /\ wait' = [wait EXCEPT ![q] = "trim"] /\ stamp' = [stamp EXCEPT ![q] = time]
            /\ UNCHANGED <<booth, time, entries, bucket, admitted>>
        BY <2>1 DEF Arrive, InFlight
      <3>2. RateTypeOK'
        BY <3>1, <2>0 DEF RateTypeOK
      <3>3. InFlight' = InFlight \cup {q} /\ q \in Slots \ InFlight
        BY <3>1 DEF InFlight, RateTypeOK
      <3>4. Cardinality(InFlight') = Cardinality(InFlight) + 1
        BY <3>3, FlightCount
      <3> QED
        BY <3>1, <3>2, <3>4, <2>0, FlightCount DEF Room
    <2>2. ASSUME NEW q \in Slots, Trim(q) PROVE RateTypeOK' /\ Room'
      <3>1. /\ entries' \subseteq entries /\ wait' = [wait EXCEPT ![q] = "count"] /\ wait[q] = "trim"
            /\ UNCHANGED <<booth, time, bucket, stamp, admitted>>
        BY <2>2 DEF Trim, Recent
      <3>2. RateTypeOK'
        BY <3>1 DEF RateTypeOK
      <3>3. InFlight' = InFlight
        BY <3>1 DEF InFlight, RateTypeOK
      <3> QED
        BY <3>1, <3>2, <3>3 DEF Room
    <2>3. ASSUME NEW q \in Slots, wait[q] # "free", wait' = [wait EXCEPT ![q] = "free"]
          PROVE  /\ wait' \in [Slots -> {"free", "trim", "count", "add"}]
                 /\ Cardinality(InFlight') = Cardinality(InFlight) - 1
                 /\ Len(admitted) < MaxAdmitted
      <3>1. InFlight' = InFlight \ {q} /\ q \in InFlight
        BY <2>3 DEF InFlight, RateTypeOK
      <3>2. Cardinality(InFlight') = Cardinality(InFlight) - 1
        BY <3>1, FlightCount
      <3>3. Cardinality(InFlight) \in Nat /\ Cardinality(InFlight) >= 1 /\ Len(admitted) \in Nat
        BY <3>1, FlightCount
      <3>4. wait' \in [Slots -> {"free", "trim", "count", "add"}]
        BY <2>3 DEF RateTypeOK
      <3> QED
        BY <3>2, <3>3, <3>4, <2>0 DEF Room
    <2>4. ASSUME NEW q \in Slots, Count(q) PROVE RateTypeOK' /\ Room'
      <3>1. /\ wait[q] = "count" /\ UNCHANGED <<booth, time, entries, bucket, stamp, admitted>>
        BY <2>4 DEF Count
      <3>2. CASE wait' = [wait EXCEPT ![q] = "add"]
        <4>1. InFlight' = InFlight
          BY <3>1, <3>2 DEF InFlight, RateTypeOK
        <4>2. RateTypeOK'
          BY <3>1, <3>2 DEF RateTypeOK
        <4> QED
          BY <3>1, <4>1, <4>2 DEF Room
      <3>3. CASE wait' = [wait EXCEPT ![q] = "free"]
        <4>1. /\ wait' \in [Slots -> {"free", "trim", "count", "add"}]
              /\ Cardinality(InFlight') = Cardinality(InFlight) - 1
          BY <2>3, <3>1, <3>3
        <4>2. RateTypeOK'
          BY <3>1, <4>1 DEF RateTypeOK
        <4> QED
          BY <3>1, <4>1, <4>2, <2>0, FlightCount DEF Room
      <3> QED
        BY <2>4, <3>2, <3>3 DEF Count
    <2>5. ASSUME NEW q \in Slots, wait[q] # "free", wait' = [wait EXCEPT ![q] = "free"],
                 NEW at \in 0..MaxTime, NEW by \in {"redis", "memory", "nobody"},
                 admitted' = Append(admitted, [at |-> at, by |-> by]),
                 UNCHANGED <<booth, time, stamp>>,
                 entries' \subseteq entries \cup {<<Len(admitted) + 1, at>>},
                 bucket' \subseteq bucket \cup {<<Len(admitted) + 1, at>>}
          PROVE  RateTypeOK' /\ Room'
      <3>1. /\ wait' \in [Slots -> {"free", "trim", "count", "add"}]
            /\ Cardinality(InFlight') = Cardinality(InFlight) - 1 /\ Len(admitted) < MaxAdmitted
        BY <2>3, <2>5
      <3>2. /\ admitted' \in Seq([at : 0..MaxTime, by : {"redis", "memory", "nobody"}])
            /\ Len(admitted') = Len(admitted) + 1 /\ Len(admitted') <= MaxAdmitted
            /\ <<Len(admitted) + 1, at>> \in Marks
        BY <2>5, <3>1, AdmitTyped
      <3>3. entries' \subseteq Marks /\ bucket' \subseteq Marks
        BY <2>0, <2>5, <3>2
      <3>4. RateTypeOK'
        BY <2>5, <3>1, <3>2, <3>3 DEF RateTypeOK, Marks
      <3> QED
        BY <3>1, <3>2, <3>4, <2>0, FlightCount DEF Room
    <2>6. ASSUME NEW q \in Slots, Add(q) PROVE RateTypeOK' /\ Room'
      <3>1. stamp[q] \in 0..MaxTime
        BY DEF RateTypeOK
      <3> QED
        BY <2>5, <2>6, <3>1 DEF Add, Admit
    <2>7. ASSUME NEW q \in Slots, FailOpen(q) PROVE RateTypeOK' /\ Room'
      <3>1. stamp[q] \in 0..MaxTime
        BY DEF RateTypeOK
      <3> QED
        BY <2>5, <2>7, <3>1 DEF FailOpen, Admit
    <2>8. ASSUME NEW q \in Slots, Fallback(q) PROVE RateTypeOK' /\ Room'
      <3>1. /\ wait[q] # "free" /\ wait' = [wait EXCEPT ![q] = "free"]
            /\ UNCHANGED <<booth, time, entries, stamp>>
        BY <2>8 DEF Fallback
      <3>2. CASE bucket' = Recent(bucket, time) /\ UNCHANGED admitted
        <4>1. bucket' \subseteq bucket
          BY <3>2 DEF Recent
        <4>2. /\ wait' \in [Slots -> {"free", "trim", "count", "add"}]
              /\ Cardinality(InFlight') = Cardinality(InFlight) - 1
          BY <2>3, <3>1
        <4>3. RateTypeOK'
          BY <3>1, <3>2, <4>1, <4>2 DEF RateTypeOK
        <4> QED
          BY <3>2, <4>2, <4>3, <2>0, FlightCount DEF Room
      <3>3. CASE /\ bucket' = Recent(bucket, time) \cup {<<Len(admitted) + 1, time>>}
                 /\ admitted' = Append(admitted, [at |-> time, by |-> "memory"])
        <4>1. bucket' \subseteq bucket \cup {<<Len(admitted) + 1, time>>}
          BY <3>3 DEF Recent
        <4> QED
          BY <2>0, <2>5, <3>1, <3>3, <4>1
      <3> QED
        BY <2>8, <3>2, <3>3 DEF Fallback
    <2>9. CASE TimePasses
      <3>1. /\ time < MaxTime /\ time' = time + 1
            /\ UNCHANGED <<booth, entries, bucket, wait, stamp, admitted>>
        BY <2>9 DEF TimePasses
      <3>2. time' \in 0..MaxTime
        BY <2>0, <3>1
      <3>3. InFlight' = InFlight
        BY <3>1 DEF InFlight
      <3> QED
        BY <3>1, <3>2, <3>3 DEF RateTypeOK, Room
    <2>10. CASE UNCHANGED rateVars
      BY <2>10 DEF rateVars, RateTypeOK, Room, InFlight
    <2> QED
      BY <2>1, <2>2, <2>4, <2>6, <2>7, <2>8, <2>9, <2>10 DEF RateNext
  <1> QED
    BY <1>1, <1>2, PTL DEF RateSpec

-----------------------------------------------------------------------------
(* The event log *)

LogTypes ==
    /\ last \in Nat /\ stage \in {0, 1} /\ stage <= last
    /\ log \subseteq 1..last /\ bus \in Seq(Nat)
    /\ replay \subseteq 1..last /\ got \subseteq 1..last /\ mark \in 0..last

\* An event is in the stream, or the stream never held it or has dropped it.
Held == \A e \in 1..last : e \in log \cup excused

\* The channel keeps the order: forwarded are the first events, published the next.
Ahead == last - stage - Len(bus)

InOrder ==
    /\ Ahead \in Nat /\ forwarded = 1..Ahead
    /\ \A i \in 1..Len(bus) : bus[i] = Ahead + i

\* Up to its mark a browser has everything; beyond it, only what was forwarded live.
UpToMark ==
    /\ \A e \in 1..mark : e \in got \cup excused
    /\ \A e \in got : e <= mark \/ e \in forwarded

\* A reply that is being sent leaves no gap behind it, and the last one misses
\* nothing that was forwarded.
Replaying ==
    reply # "none" =>
        /\ \A e \in replay : e > mark
        /\ \A r \in replay : \A e \in (mark + 1)..r : e \in got \cup excused \cup replay
        /\ reply # "full" => \A e \in forwarded : e \in got \cup excused \cup replay

\* Only a connected browser is sent replies, and none once it is up to date.
Connected == (synced => online) /\ (reply # "none" => online /\ ~synced)

LogInv == LogTypes /\ Held /\ InOrder /\ UpToMark /\ Replaying /\ Connected /\ NoGap

\* Nothing has happened yet.
LEMMA InitLog == LogInit => LogInv
  <1> SUFFICES ASSUME LogInit PROVE LogInv
    OBVIOUS
  <1>1. /\ last = 0 /\ stage = 0 /\ log = {} /\ bus = <<>> /\ forwarded = {} /\ got = {} /\ mark = 0
        /\ replay = {} /\ reply = "none" /\ ~online /\ ~synced
    BY DEF LogInit
  <1>2. bus \in Seq(Nat) /\ Len(bus) = 0
    BY <1>1
  <1>3. LogTypes /\ Held
    BY <1>1, <1>2 DEF LogTypes, Held
  <1>4. InOrder
    BY <1>1, <1>2 DEF InOrder, Ahead
  <1>5. UpToMark
    BY <1>1 DEF UpToMark
  <1> QED
    BY <1>1, <1>3, <1>4, <1>5 DEF LogInv, Replaying, Connected, NoGap

\* publish_event appends to the stream before it publishes: an event that is on the
\* channel is in the stream or excused.
LEMMA PublishLog ==
    ASSUME LogInv, PublishEvent
    PROVE  LogInv'
  <1>0. LogTypes /\ Held /\ InOrder
    BY DEF LogInv
  <1>1. UNCHANGED <<forwarded, online, reply, replay, synced, got, mark>>
    BY DEF PublishEvent
  <1>2. CASE stage = 0
    <2>1. /\ last' = last + 1 /\ stage' = 1 /\ bus' = bus
      BY <1>2 DEF PublishEvent, Calls
    <2>2. /\ log' \subseteq log \cup {last'} /\ excused \subseteq excused'
          /\ log \cup {last'} \subseteq log' \cup excused'
      <3>1. \/ log' = Trimmed(log \cup {last'}) /\ excused' = excused \cup ((log \cup {last'}) \ log')
            \/ log' = log /\ excused' = excused \cup {last'}
        BY <1>2 DEF PublishEvent, Calls
      <3>2. Trimmed(log \cup {last'}) \subseteq log \cup {last'}
        BY DEF Trimmed
      <3> QED
        BY <3>1, <3>2
    <2>3. LogTypes' /\ Held'
      BY <1>0, <1>1, <1>2, <2>1, <2>2 DEF LogTypes, Held
    <2>4. Ahead' = Ahead
      BY <1>0, <1>2, <2>1 DEF Ahead, LogTypes
    <2>5. InOrder'
      BY <1>0, <1>1, <2>1, <2>4 DEF InOrder
    <2>6. UpToMark' /\ Replaying' /\ NoGap' /\ Connected'
      BY <1>0, <1>1, <2>2 DEF LogInv, UpToMark, Replaying, NoGap, Connected
    <2> QED
      BY <2>3, <2>5, <2>6 DEF LogInv
  <1>3. CASE stage = 1
    <2>1. /\ last' = last /\ stage' = 0 /\ bus' = Append(bus, last)
          /\ log' = log /\ excused' = excused
      BY <1>0, <1>3 DEF PublishEvent, Calls, LogTypes
    <2>2. Len(bus) \in Nat /\ Len(bus') = Len(bus) + 1 /\ bus' \in Seq(Nat)
      BY <1>0, <2>1 DEF LogTypes
    <2>3. /\ \A i \in 1..Len(bus) : bus'[i] = bus[i]
          /\ bus'[Len(bus) + 1] = last
      BY <1>0, <2>1 DEF LogTypes
    <2>4. Ahead' = Ahead /\ last = Ahead + (Len(bus) + 1)
      BY <1>0, <1>3, <2>1, <2>2 DEF Ahead, LogTypes
    <2>5. InOrder'
      <3>1. \A i \in 1..(Len(bus) + 1) : bus'[i] = Ahead + i
        <4> SUFFICES ASSUME NEW i \in 1..(Len(bus) + 1) PROVE bus'[i] = Ahead + i
          OBVIOUS
        <4>1. CASE i = Len(bus) + 1
          BY <2>3, <2>4, <4>1
        <4>2. CASE i # Len(bus) + 1
          <5>1. i \in 1..Len(bus)
            BY <2>2, <4>2
          <5> QED
            BY <1>0, <2>3, <5>1 DEF InOrder
        <4> QED
          BY <4>1, <4>2
      <3> QED
        BY <1>0, <1>1, <2>2, <2>4, <3>1 DEF InOrder
    <2>6. LogTypes' /\ Held'
      BY <1>0, <1>1, <2>1, <2>2 DEF LogTypes, Held
    <2>7. UpToMark' /\ Replaying' /\ NoGap' /\ Connected'
      BY <1>1, <2>1 DEF LogInv, UpToMark, Replaying, NoGap, Connected
    <2> QED
      BY <2>5, <2>6, <2>7 DEF LogInv
  <1> QED
    BY <1>0, <1>2, <1>3 DEF LogTypes

\* The broadcaster forwards the next event; a connected browser gets it, and one
\* that is up to date has everything before it.
LEMMA ForwardLog ==
    ASSUME LogInv, Forward
    PROVE  LogInv'
  <1> DEFINE n == Ahead
  <1>0. LogTypes /\ Held /\ InOrder /\ Len(bus) \in Nat /\ last \in Nat
    BY DEF LogInv, LogTypes
  <1>1. /\ bus # <<>> /\ bus' = Tail(bus) /\ forwarded' = forwarded \cup {Head(bus)}
        /\ UNCHANGED <<last, stage, log, online, reply, replay, synced, excused>>
    BY DEF Forward
  <1>2. /\ Len(bus) > 0 /\ Len(bus') = Len(bus) - 1 /\ bus' \in Seq(Nat)
        /\ \A i \in 1..Len(bus') : bus'[i] = bus[i + 1]
    BY <1>0, <1>1 DEF LogTypes
  <1>3. Head(bus) = bus[1]
    BY <1>0, <1>2 DEF LogTypes
  <1>4. Head(bus) = n + 1 /\ n \in Nat
    BY <1>0, <1>2, <1>3 DEF InOrder
  <1>5. Ahead' = n + 1
    BY <1>0, <1>1, <1>2 DEF Ahead, LogTypes
  <1>6. n + 1 \in 1..last
    <2>1. n = last - stage - Len(bus)
      BY DEF Ahead
    <2> QED
      BY <1>0, <1>2, <1>4, <2>1 DEF LogTypes
  <1>7. InOrder'
    <2>1. forwarded' = 1..(n + 1)
      BY <1>0, <1>1, <1>4 DEF InOrder
    <2>2. \A i \in 1..Len(bus') : bus'[i] = (n + 1) + i
      BY <1>0, <1>2, <1>4 DEF InOrder
    <2> QED
      BY <1>4, <1>5, <2>1, <2>2 DEF InOrder
  <1>8. CASE ~online
    <2>1. got' = got /\ mark' = mark
      BY <1>8 DEF Forward
    <2>2. reply = "none" /\ ~synced
      BY <1>8 DEF LogInv, Connected
    <2>3. LogTypes' /\ Held'
      BY <1>0, <1>1, <1>2, <2>1 DEF LogTypes, Held
    <2>4. UpToMark'
      BY <1>1, <2>1 DEF LogInv, UpToMark
    <2>5. Replaying' /\ Connected' /\ NoGap'
      BY <1>1, <1>8, <2>2 DEF Replaying, Connected, NoGap
    <2> QED
      BY <1>7, <2>3, <2>4, <2>5 DEF LogInv
  <1>9. CASE online
    <2>1. got' = got \cup {n + 1}
      BY <1>4, <1>9 DEF Forward
    <2>2. mark' = IF synced /\ n + 1 > mark THEN n + 1 ELSE mark
      BY <1>4, <1>9 DEF Forward
    <2>3. LogTypes' /\ Held'
      <3>1. mark' \in 0..last
        BY <1>0, <1>6, <2>2 DEF LogTypes
      <3>2. got' \subseteq 1..last
        BY <1>0, <1>6, <2>1 DEF LogTypes
      <3> QED
        BY <1>0, <1>1, <1>2, <3>1, <3>2 DEF LogTypes, Held
    <2>4. Connected' /\ NoGap'
      BY <1>1, <1>4, <1>9, <2>1 DEF LogInv, Connected, NoGap
    <2>5. UpToMark'
      <3>1. CASE mark' = mark
        BY <1>1, <1>4, <2>1, <3>1 DEF LogInv, UpToMark
      <3>2. CASE mark' # mark
        <4>1. synced /\ mark' = n + 1 /\ n + 1 > mark
          BY <2>2, <3>2
        <4>2. \A e \in 1..n : e \in got \cup excused
          BY <1>0, <4>1 DEF LogInv, NoGap, InOrder
        <4>3. \A e \in 1..(n + 1) : e \in got' \cup excused'
          BY <1>1, <1>4, <2>1, <4>2
        <4>4. \A e \in got' : e <= n + 1 \/ e \in forwarded'
          BY <1>0, <1>1, <1>4, <2>1, <4>1 DEF LogInv, UpToMark, LogTypes
        <4> QED
          BY <4>1, <4>3, <4>4 DEF UpToMark
      <3> QED
        BY <3>1, <3>2
    <2>6. Replaying'
      <3>1. CASE reply = "none"
        BY <1>1, <3>1 DEF Replaying
      <3>2. CASE reply # "none"
        <4>1. mark' = mark
          BY <2>2, <3>2 DEF LogInv, Connected
        <4> QED
          BY <1>1, <1>4, <2>1, <3>2, <4>1 DEF LogInv, Replaying
      <3> QED
        BY <3>1, <3>2
    <2> QED
      BY <1>7, <2>3, <2>4, <2>5, <2>6 DEF LogInv
  <1> QED
    BY <1>8, <1>9

\* What _replay_events reads: the oldest entries after the mark, all of them when
\* they are fewer than it asks for.
LEMMA ReadLog ==
    ASSUME LogInv, ReadReplay
    PROVE  LogInv'
  <1> DEFINE rest == {e \in log : e > mark}
             older(e) == {f \in rest : f < e}
  <1>0. LogTypes /\ Held /\ InOrder /\ ReplayCount \in Nat /\ last \in Nat /\ mark \in 0..last
    BY EventLogAssumption DEF LogInv, LogTypes
  <1>1. /\ online /\ ~synced
        /\ replay' = {e \in rest : Cardinality(older(e)) < ReplayCount}
        /\ reply' = IF Cardinality(rest) < ReplayCount THEN "last" ELSE "full"
        /\ UNCHANGED <<last, stage, log, bus, forwarded, online, synced, got, mark, excused>>
    BY DEF ReadReplay
  <1>2. IsFiniteSet(rest)
    <2>1. rest \subseteq 1..last
      BY <1>0 DEF LogTypes
    <2>2. IsFiniteSet(1..last)
      BY <1>0, FS_Interval
    <2> HIDE DEF rest
    <2> QED
      BY <2>1, <2>2, FS_Subset
  <1>3. \A e : IsFiniteSet(older(e)) /\ Cardinality(older(e)) \in Nat
               /\ Cardinality(older(e)) <= Cardinality(rest) /\ Cardinality(rest) \in Nat
    <2> SUFFICES ASSUME NEW e
                 PROVE  /\ IsFiniteSet(older(e)) /\ Cardinality(older(e)) \in Nat
                        /\ Cardinality(older(e)) <= Cardinality(rest) /\ Cardinality(rest) \in Nat
      OBVIOUS
    <2>1. older(e) \subseteq rest
      OBVIOUS
    <2> HIDE DEF older, rest
    <2> QED
      BY <1>2, <2>1, FS_Subset, FS_CardinalityType
  <1>4. ASSUME NEW r \in replay', NEW e \in (mark + 1)..r
        PROVE  e \in got \cup excused \cup replay'
    <2>1. r \in log /\ Cardinality(older(r)) < ReplayCount /\ r \in 1..last
      BY <1>0, <1>1 DEF LogTypes
    <2>2. e \in 1..last /\ e > mark /\ e <= r
      BY <1>0, <2>1
    <2>3. CASE e \in log
      <3>1. older(e) \subseteq older(r)
        <4> SUFFICES ASSUME NEW f \in older(e) PROVE f \in older(r)
          OBVIOUS
        <4>1. f \in log /\ f < e /\ f \in 1..last
          BY <1>0 DEF LogTypes
        <4> QED
          BY <2>1, <2>2, <4>1
      <3>2. Cardinality(older(e)) <= Cardinality(older(r))
        <4> HIDE DEF older
        <4> QED
          BY <1>3, <3>1, FS_Subset
      <3>3. e \in rest
        BY <2>2, <2>3
      <3>4. Cardinality(older(e)) < ReplayCount
        <4> HIDE DEF older, rest
        <4> QED
          BY <1>0, <1>3, <2>1, <3>2
      <3> QED
        BY <1>1, <3>3, <3>4
    <2> QED
      BY <1>0, <2>2, <2>3 DEF Held
  <1>5. ASSUME reply' # "full", NEW e \in forwarded
        PROVE  e \in got \cup excused \cup replay'
    <2>1. Cardinality(rest) < ReplayCount
      BY <1>1, <1>5
    <2>2. e \in 1..last
      BY <1>0 DEF InOrder, Ahead, LogTypes
    <2>3. CASE e <= mark
      BY <1>0, <2>2, <2>3 DEF LogInv, UpToMark
    <2>4. CASE e > mark /\ e \in log
      <3>1. e \in rest
        BY <2>4
      <3>2. Cardinality(older(e)) < ReplayCount
        <4> HIDE DEF older, rest
        <4> QED
          BY <1>0, <1>3, <2>1
      <3> QED
        BY <1>1, <3>1, <3>2
    <2> QED
      BY <1>0, <2>2, <2>3, <2>4 DEF Held
  <1>6. replay' \subseteq 1..last /\ \A e \in replay' : e > mark
    BY <1>0, <1>1 DEF LogTypes
  <1>7. LogTypes' /\ Held' /\ InOrder' /\ UpToMark'
    BY <1>0, <1>1, <1>6 DEF LogInv, LogTypes, Held, InOrder, Ahead, UpToMark
  <1>8. Replaying'
    BY <1>1, <1>4, <1>5, <1>6 DEF Replaying
  <1>9. Connected' /\ NoGap'
    BY <1>1 DEF Connected, NoGap
  <1> QED
    BY <1>7, <1>8, <1>9 DEF LogInv

\* The browser receives the oldest entry of the reply: before it there is no gap.
LEMMA SendLog ==
    ASSUME LogInv, SendReplay
    PROVE  LogInv'
  <1>0. LogTypes
    BY DEF LogInv
  <1>1. /\ online /\ ~synced /\ reply # "none"
        /\ UNCHANGED <<last, stage, log, bus, forwarded, online, reply, synced, excused>>
    BY DEF SendReplay
  <1>2. PICK r \in replay : /\ \A f \in replay : r <= f
                            /\ got' = got \cup {r} /\ mark' = r /\ replay' = replay \ {r}
    BY DEF SendReplay
  <1>3. r \in 1..last /\ r > mark /\ mark \in Nat
    BY <1>0, <1>1 DEF LogInv, Replaying, LogTypes
  <1>4. \A e \in 1..r : e \in got \cup excused \cup {r}
    <2> SUFFICES ASSUME NEW e \in 1..r, e # r PROVE e \in got \cup excused
      OBVIOUS
    <2>1. CASE e <= mark
      BY <1>3, <2>1 DEF LogInv, UpToMark
    <2>2. CASE e > mark
      <3>1. e \in got \cup excused \cup replay
        BY <1>1, <1>3, <2>2 DEF LogInv, Replaying
      <3>2. e \notin replay
        BY <1>2, <1>3
      <3> QED
        BY <3>1, <3>2
    <2> QED
      BY <1>3, <2>1, <2>2
  <1>5. UpToMark'
    <2>1. \A e \in got' : e <= r \/ e \in forwarded
      BY <1>0, <1>2, <1>3 DEF LogInv, UpToMark, LogTypes
    <2> QED
      BY <1>1, <1>2, <1>4, <2>1 DEF UpToMark
  <1>6. LogTypes' /\ Held' /\ InOrder'
    BY <1>0, <1>1, <1>2, <1>3 DEF LogInv, LogTypes, Held, InOrder, Ahead
  <1>7. Replaying'
    <2>1. \A e \in replay' : e > r
      BY <1>0, <1>2, <1>3 DEF LogTypes
    <2>2. ASSUME NEW q \in replay', NEW e \in (r + 1)..q PROVE e \in got' \cup excused \cup replay'
      <3>1. q \in replay /\ e \in (mark + 1)..q /\ e # r
        BY <1>0, <1>2, <1>3, <2>2 DEF LogTypes
      <3>2. e \in got \cup excused \cup replay
        BY <1>1, <3>1 DEF LogInv, Replaying
      <3> QED
        BY <1>2, <3>1, <3>2
    <2>3. reply # "full" => \A e \in forwarded : e \in got' \cup excused \cup replay'
      BY <1>1, <1>2 DEF LogInv, Replaying
    <2> QED
      BY <1>1, <1>2, <2>1, <2>2, <2>3 DEF Replaying
  <1>8. Connected' /\ NoGap'
    BY <1>1 DEF Connected, NoGap
  <1> QED
    BY <1>5, <1>6, <1>7, <1>8 DEF LogInv

\* A reply is complete; after the last one the mark goes up to what came live.
LEMMA CompleteLog ==
    ASSUME LogInv, CompleteReplay
    PROVE  LogInv'
  <1>0. LogTypes /\ InOrder
    BY DEF LogInv
  <1>1. /\ online /\ ~synced /\ reply # "none" /\ replay = {} /\ reply' = "none"
        /\ UNCHANGED <<last, stage, log, bus, forwarded, online, replay, got, excused>>
    BY DEF CompleteReplay
  <1>2. Replaying' /\ Connected'
    BY <1>1 DEF Replaying, Connected
  <1>3. CASE reply = "full"
    <2>1. synced' = synced /\ mark' = mark
      BY <1>3 DEF CompleteReplay
    <2>2. LogTypes' /\ Held' /\ InOrder' /\ UpToMark'
      BY <1>0, <1>1, <2>1 DEF LogInv, LogTypes, Held, InOrder, Ahead, UpToMark
    <2>3. NoGap'
      BY <1>1, <2>1 DEF NoGap
    <2> QED
      BY <1>2, <2>2, <2>3 DEF LogInv
  <1>4. CASE reply # "full"
    <2>1. PICK m \in got \cup {mark} : mark' = m /\ \A e \in got \cup {mark} : e <= m
      BY <1>4 DEF CompleteReplay
    <2>2. \A e \in forwarded : e \in got \cup excused
      BY <1>1, <1>4 DEF LogInv, Replaying
    <2>3. m \in 0..last /\ mark \in 0..last
      BY <1>0, <2>1 DEF LogTypes
    <2>4. \A e \in 1..m : e \in got \cup excused
      <3> SUFFICES ASSUME NEW e \in 1..m PROVE e \in got \cup excused
        OBVIOUS
      <3>1. CASE e <= mark
        BY <2>3, <3>1 DEF LogInv, UpToMark
      <3>2. CASE e > mark
        <4>1. m > mark /\ m \in got
          BY <2>1, <2>3, <3>2
        <4>2. m \in forwarded
          BY <2>3, <4>1 DEF LogInv, UpToMark
        <4>3. e \in forwarded
          BY <1>0, <2>3, <4>2 DEF InOrder
        <4> QED
          BY <2>2, <4>3
      <3> QED
        BY <2>3, <3>1, <3>2
    <2>5. UpToMark'
      BY <1>1, <2>1, <2>4 DEF UpToMark
    <2>6. LogTypes' /\ Held' /\ InOrder'
      BY <1>0, <1>1, <2>1, <2>3 DEF LogInv, LogTypes, Held, InOrder, Ahead
    <2>7. NoGap'
      BY <1>1, <2>2 DEF NoGap
    <2> QED
      BY <1>2, <2>5, <2>6, <2>7 DEF LogInv
  <1> QED
    BY <1>3, <1>4

\* Connecting and breaking off, at any moment, leave the mark where it was.
LEMMA SocketLog ==
    ASSUME LogInv, ConnectBrowser \/ Break
    PROVE  LogInv'
  <1>1. UNCHANGED <<last, stage, log, bus, forwarded, got, mark, excused>>
    BY DEF ConnectBrowser, Break
  <1>2. replay' = replay \/ replay' = {}
    BY DEF ConnectBrowser, Break
  <1>3. LogTypes' /\ Held' /\ InOrder' /\ UpToMark'
    BY <1>1, <1>2 DEF LogInv, LogTypes, Held, InOrder, Ahead, UpToMark
  <1>4. CASE ConnectBrowser
    <2>1. online' /\ UNCHANGED <<reply, replay, synced>>
      BY <1>4 DEF ConnectBrowser
    <2> QED
      BY <1>1, <1>3, <2>1 DEF LogInv, Replaying, Connected, NoGap
  <1>5. CASE Break
    <2>1. ~online' /\ ~synced' /\ reply' = "none"
      BY <1>5 DEF Break
    <2> QED
      BY <1>3, <2>1 DEF LogInv, Replaying, Connected, NoGap
  <1> QED
    BY <1>4, <1>5

\* Every step of the event log keeps the invariant.
LEMMA LogStep == LogInv /\ [LogNext]_logVars => LogInv'
  <1> SUFFICES ASSUME LogInv, [LogNext]_logVars PROVE LogInv'
    OBVIOUS
  <1>1. CASE UNCHANGED logVars
    BY <1>1 DEF logVars, LogInv, LogTypes, Held, InOrder, Ahead, UpToMark, Replaying, Connected, NoGap
  <1> QED
    BY <1>1, PublishLog, ForwardLog, ReadLog, SendLog, CompleteLog, SocketLog DEF LogNext

\* A browser whose replay is complete has every event forwarded so far that the stream
\* did not lose, for any number of events, lengths of the stream and of a reply, and
\* disconnects at any moment (daemons/base.py publish_event, websocket/handlers.py
\* _replay_events).
THEOREM NothingMissed == LogSpec => []NoGap
  <1>1. LogInv => NoGap
    BY DEF LogInv
  <1> QED
    BY <1>1, LogStep, InitLog, PTL DEF LogSpec

\* A stream over its MAXLEN is cut to it.
LEMMA TrimmedSmall ==
    ASSUME NEW E \in SUBSET Nat, IsFiniteSet(E)
    PROVE  Cardinality(Trimmed(E)) <= LogLength
  <1> DEFINE T == Trimmed(E)
  <1>1. T \subseteq E /\ T \in SUBSET Nat
    BY DEF Trimmed
  <1>2. IsFiniteSet(T) /\ Cardinality(T) \in Nat
    BY <1>1, FS_Subset, FS_CardinalityType
  <1>3. LogLength \in Nat \ {0}
    BY EventLogAssumption
  <1>4. CASE T = {}
    <2> HIDE DEF T
    <2>1. Cardinality(T) = 0
      BY <1>4, FS_EmptySet
    <2> QED
      BY <1>3, <2>1 DEF T
  <1>5. CASE T # {}
    <2>1. PICK m \in T : \A e \in T : m <= e
      BY <1>1, <1>5, LeastNatural
    <2> DEFINE later == {f \in E : f > m}
    <2>2. Cardinality(later) < LogLength
      BY <2>1 DEF Trimmed
    <2>3. T \ {m} \subseteq later
      BY <1>1, <2>1
    <2>4. IsFiniteSet(later) /\ Cardinality(later) \in Nat
      BY FS_Subset, FS_CardinalityType
    <2> HIDE DEF T, later
    <2>5. Cardinality(T \ {m}) <= Cardinality(later)
      BY <2>3, <2>4, FS_Subset
    <2>6. Cardinality(T \ {m}) = Cardinality(T) - 1
      BY <1>2, <2>1, FS_RemoveElement
    <2>7. Cardinality(T) <= LogLength
      BY <1>2, <1>3, <2>2, <2>4, <2>5, <2>6
    <2> QED
      BY <2>7 DEF T
  <1> QED
    BY <1>4, <1>5

\* The parts of the event log's type that its invariant leaves open.
LogBounds ==
    /\ last \in 0..MaxEvents /\ IsFiniteSet(log) /\ Cardinality(log) <= LogLength
    /\ bus \in Seq(1..MaxEvents) /\ online \in BOOLEAN /\ synced \in BOOLEAN
    /\ reply \in {"none", "full", "last"} /\ breaks \in 0..MaxBreaks
    /\ excused \subseteq 1..MaxEvents

\* The event log's state has its type; above all the stream is never longer than its
\* MAXLEN (daemons/base.py publish_event).
THEOREM LogTyped == LogSpec => []LogTypeOK
  <1>1. LogInv /\ [LogNext]_logVars => LogInv'
    BY LogStep
  <1>2. LogInit => LogBounds
    <2> SUFFICES ASSUME LogInit PROVE LogBounds
      OBVIOUS
    <2>1. IsFiniteSet({}) /\ Cardinality({}) = 0
      BY FS_EmptySet
    <2>2. <<>> \in Seq(1..MaxEvents)
      OBVIOUS
    <2>3. log = {} /\ bus = <<>> /\ last = 0 /\ breaks = 0 /\ excused = {} /\ reply = "none"
      BY DEF LogInit
    <2>4. online \in BOOLEAN /\ synced \in BOOLEAN
      BY DEF LogInit
    <2> QED
      BY <2>1, <2>2, <2>3, <2>4, EventLogAssumption DEF LogBounds
  <1>3. LogInv /\ LogBounds /\ [LogNext]_logVars => LogBounds'
    <2> SUFFICES ASSUME LogInv, LogBounds, [LogNext]_logVars PROVE LogBounds'
      OBVIOUS
    <2>0. /\ MaxEvents \in Nat /\ LogLength \in Nat \ {0} /\ MaxBreaks \in Nat
          /\ last \in Nat /\ stage \in {0, 1} /\ stage <= last
          /\ log \subseteq 1..last
      BY EventLogAssumption DEF LogInv, LogTypes
    <2>1. CASE PublishEvent /\ stage = 0
      <3>1. /\ last < MaxEvents /\ last' = last + 1 /\ bus' = bus
            /\ UNCHANGED <<online, reply, synced, breaks>>
        BY <2>1 DEF PublishEvent, Calls
      <3>2. last' \in 1..MaxEvents
        BY <2>0, <3>1
      <3>3. \/ log' = Trimmed(log \cup {last'}) /\ excused' = excused \cup ((log \cup {last'}) \ log')
            \/ log' = log /\ excused' = excused \cup {last'}
        BY <2>1 DEF PublishEvent, Calls
      <3>4. log \subseteq 1..MaxEvents /\ log \cup {last'} \in SUBSET Nat
        BY <2>0, <3>1, <3>2
      <3>5. excused' \subseteq 1..MaxEvents
        BY <3>2, <3>3, <3>4 DEF LogBounds
      <3>6. IsFiniteSet(log \cup {last'})
        BY FS_AddElement DEF LogBounds
      <3>7. IsFiniteSet(log') /\ Cardinality(log') <= LogLength
        <4>1. CASE log' = log
          BY <4>1 DEF LogBounds
        <4>2. CASE log' = Trimmed(log \cup {last'})
          <5> DEFINE E == log \cup {last'}
          <5>1. Trimmed(E) \subseteq E
            BY DEF Trimmed
          <5> HIDE DEF E
          <5>2. IsFiniteSet(Trimmed(E)) /\ Cardinality(Trimmed(E)) <= LogLength
            BY <3>4, <3>6, <5>1, TrimmedSmall, FS_Subset DEF E
          <5> QED
            BY <4>2, <5>2 DEF E
        <4> QED
          BY <3>3, <4>1, <4>2
      <3> QED
        BY <3>1, <3>2, <3>5, <3>7 DEF LogBounds
    <2>2. CASE PublishEvent /\ stage = 1
      <3>1. /\ last' = last /\ bus' = Append(bus, last) /\ log' = log /\ excused' = excused
            /\ UNCHANGED <<online, reply, synced, breaks>>
        BY <2>2 DEF PublishEvent, Calls
      <3>2. last \in 1..MaxEvents
        BY <2>0, <2>2 DEF LogBounds
      <3>3. bus' \in Seq(1..MaxEvents)
        BY <3>1, <3>2 DEF LogBounds
      <3> QED
        BY <3>1, <3>3 DEF LogBounds
    <2>3. CASE Forward
      <3>1. /\ bus # <<>> /\ bus' = Tail(bus)
            /\ UNCHANGED <<last, log, online, reply, synced, breaks, excused>>
        BY <2>3 DEF Forward
      <3>2. bus' \in Seq(1..MaxEvents)
        BY <3>1 DEF LogBounds
      <3> QED
        BY <3>1, <3>2 DEF LogBounds
    <2>4. CASE ConnectBrowser
      BY <2>4 DEF ConnectBrowser, LogBounds
    <2>5. CASE ReadReplay
      BY <2>5 DEF ReadReplay, LogBounds
    <2>6. CASE SendReplay
      BY <2>6 DEF SendReplay, LogBounds
    <2>7. CASE CompleteReplay
      BY <2>7 DEF CompleteReplay, LogBounds
    <2>8. CASE Break
      <3>1. /\ breaks < MaxBreaks /\ breaks' = breaks + 1 /\ online' = FALSE /\ synced' = FALSE
            /\ reply' = "none" /\ UNCHANGED <<last, log, bus, excused>>
        BY <2>8 DEF Break
      <3>2. breaks' \in 0..MaxBreaks
        BY <2>0, <3>1 DEF LogBounds
      <3> QED
        BY <3>1, <3>2 DEF LogBounds
    <2>9. CASE UNCHANGED logVars
      BY <2>9 DEF logVars, LogBounds
    <2> QED
      BY <2>0, <2>1, <2>2, <2>3, <2>4, <2>5, <2>6, <2>7, <2>8, <2>9 DEF LogNext
  <1>4. LogInv /\ LogBounds => LogTypeOK
    <2> SUFFICES ASSUME LogInv, LogBounds PROVE LogTypeOK
      OBVIOUS
    <2>1. /\ last \in Nat /\ last <= MaxEvents /\ MaxEvents \in Nat /\ stage \in 0..1
          /\ log \subseteq 1..last /\ replay \subseteq 1..last /\ got \subseteq 1..last /\ mark \in 0..last
      BY EventLogAssumption DEF LogInv, LogTypes, LogBounds
    <2>2. forwarded \subseteq 1..MaxEvents
      <3>1. /\ Ahead \in Nat /\ forwarded = 1..Ahead /\ Len(bus) \in Nat
        BY DEF LogInv, InOrder, LogTypes
      <3>2. Ahead <= last
        BY <2>1, <3>1 DEF Ahead
      <3> QED
        BY <2>1, <3>1, <3>2
    <2>3. 1..last \subseteq 1..MaxEvents /\ 0..last \subseteq 0..MaxEvents
      BY <2>1
    <2> QED
      BY <2>1, <2>2, <2>3 DEF LogTypeOK, LogBounds
  <1> QED
    BY <1>1, <1>2, <1>3, <1>4, InitLog, PTL DEF LogSpec

\* The browser's mark never goes back, and it keeps what it has received.
MarkStands == mark' >= mark /\ got \subseteq got'

\* The mark from which a browser asks for what it has missed never goes back, for
\* any interleaving of replays, live events and broken connections: no event is
\* asked for twice once the mark is past it (websocket/handlers.py _replay_events).
THEOREM MarkNeverBack == LogSpec => [][MarkStands]_logVars
  <1>1. LogInv /\ [LogNext]_logVars => LogInv'
    BY LogStep
  <1>2. LogInv /\ [LogNext]_logVars => [MarkStands]_logVars
    <2> SUFFICES ASSUME LogInv, LogNext PROVE MarkStands
      OBVIOUS
    <2>0. mark \in Nat /\ last \in Nat /\ got \subseteq 1..last /\ replay \subseteq 1..last
      BY DEF LogInv, LogTypes
    <2>1. CASE PublishEvent \/ ConnectBrowser \/ ReadReplay \/ Break
      <3>1. UNCHANGED <<mark, got>>
        BY <2>1 DEF PublishEvent, ConnectBrowser, ReadReplay, Break
      <3> QED
        BY <2>0, <3>1 DEF MarkStands
    <2>2. CASE Forward
      <3>1. got \subseteq got'
        BY <2>2 DEF Forward
      <3>2. bus[1] \in Nat /\ Head(bus) = bus[1]
        BY <2>2 DEF Forward, LogInv, LogTypes
      <3>3. mark' = mark \/ (Head(bus) > mark /\ mark' = Head(bus))
        BY <2>2 DEF Forward
      <3> QED
        BY <2>0, <3>1, <3>2, <3>3 DEF MarkStands
    <2>3. CASE SendReplay
      <3>1. PICK e \in replay : got' = got \cup {e} /\ mark' = e
        BY <2>3 DEF SendReplay
      <3>2. e > mark /\ e \in Nat
        BY <2>0, <2>3 DEF SendReplay, LogInv, Replaying
      <3> QED
        BY <2>0, <3>1, <3>2 DEF MarkStands
    <2>4. CASE CompleteReplay
      <3>1. got' = got
        BY <2>4 DEF CompleteReplay
      <3>2. mark' = mark \/ mark <= mark'
        BY <2>4 DEF CompleteReplay
      <3>3. mark' \in Nat
        BY <2>0, <2>4 DEF CompleteReplay
      <3> QED
        BY <2>0, <3>1, <3>2, <3>3 DEF MarkStands
    <2> QED
      BY <2>1, <2>2, <2>3, <2>4 DEF LogNext
  <1> QED
    BY <1>1, <1>2, InitLog, PTL DEF LogSpec

=============================================================================
