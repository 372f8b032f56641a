-------------------------------- MODULE Auth --------------------------------
(***************************************************************************)
(* The token pairs of signed-in browsers: services/auth.py, utils/jwt.py,  *)
(* middleware/auth.py and routes/auth.py.  Nothing is stored but a         *)
(* denylist in Redis whose entries live as long as their token would.      *)
(*                                                                         *)
(* act[q], a request in flight: refresh goes checked -> revoked, logout    *)
(* goes access -> refresh, naming what it has done.                        *)
(***************************************************************************)
EXTENDS Integers, Sequences, FiniteSets

CONSTANTS
    Browsers,
    AccessLife, RefreshLife,   \* lifetimes of the two tokens, in ticks
    AuthRequests,              \* requests handled at a time
    MaxClock, MaxTokens        \* bounds: ticks, and token pairs ever issued

ASSUME AuthAssumption ==
    /\ AccessLife \in Nat \ {0} /\ RefreshLife \in Nat \ {0}
    /\ MaxClock \in Nat /\ MaxTokens \in Nat /\ "nobody" \notin Browsers

VARIABLES
    clock,
    pair,      \* the token pairs issued: browser and time of issue
    deny,      \* the denylist: for each kind and pair, when its entry expires
    cookie,    \* the pair a browser's cookies hold, 0 for none
    act,       \* requests in flight
    \* history
    spent,     \* tokens whose revocation has been carried out
    out,       \* browsers signed out, and not signed in since
    tangled    \* browsers with overlapping requests, or an answer that was lost

authVars == <<clock, pair, deny, cookie, act, spent, out, tangled>>

TokenKinds == {"access", "refresh"}
Life(k)    == IF k = "access" THEN AccessLife ELSE RefreshLife
Tokens     == TokenKinds \X DOMAIN pair
Idle       == [op |-> "idle", at |-> "none", pair |-> 0, by |-> "nobody"]

AuthTypeOK ==
    /\ clock \in 0..MaxClock
    /\ pair \in Seq([by : Browsers, at : 0..MaxClock]) /\ Len(pair) <= MaxTokens
    /\ DOMAIN deny = Tokens /\ \A t \in Tokens : deny[t] \in 0..(MaxClock + AccessLife + RefreshLife)
    /\ cookie \in [Browsers -> 0..Len(pair)]
    /\ act \in [AuthRequests -> [op : {"idle", "refresh", "logout"},
                                 at : {"none", "checked", "revoked", "access"},
                                 pair : 0..Len(pair), by : Browsers \cup {"nobody"}]]
    /\ spent \subseteq Tokens /\ out \subseteq Browsers /\ tangled \subseteq Browsers

AuthInit ==
    /\ clock = 0 /\ pair = <<>> /\ deny = <<>> /\ cookie = [b \in Browsers |-> 0]
    /\ act = [q \in AuthRequests |-> Idle]
    /\ spent = {} /\ out = {} /\ tangled = {}

-----------------------------------------------------------------------------

\* The exp claim set by create_access_token and create_refresh_token.
Expiry(t) == pair[t[2]].at + Life(t[1])

\* decode_token.
Decodes(t) == clock < Expiry(t)

\* _is_token_revoked: the key is there until its TTL runs out.
Revoked(t) == clock < deny[t]

\* is_token_valid, and the checks of refresh_tokens.
Accepted(t) == Decodes(t) /\ ~Revoked(t)

\* MUTANT of Ttl: every entry lives as long as an access token.
TtlShort(t) == IF Decodes(t) THEN AccessLife ELSE 0

\* _revoke_token: the time to live of the entry.
Ttl(t) == IF Decodes(t) THEN Expiry(t) - clock ELSE 0

Revoke(t) ==
    /\ deny' = IF Ttl(t) > 0 THEN [deny EXCEPT ![t] = clock + Ttl(t)] ELSE deny
    /\ spent' = spent \cup {t}

\* create_tokens: a new pair, in a response that reaches the browser or not.
Issue(b, got) ==
    /\ Len(pair) < MaxTokens
    /\ pair' = Append(pair, [by |-> b, at |-> clock])
    /\ deny' = [t \in TokenKinds \X (1..Len(pair) + 1) |-> IF t \in DOMAIN deny THEN deny[t] ELSE 0]
    /\ cookie' = IF got THEN [cookie EXCEPT ![b] = Len(pair) + 1] ELSE cookie

Busy(b) == \E q \in AuthRequests : act[q].by = b

\* A request of browser b starts: with another one of it in flight they overlap.
Enter(q, b, op, at) ==
    /\ act[q] = Idle
    /\ act' = [act EXCEPT ![q] = [op |-> op, at |-> at, pair |-> cookie[b], by |-> b]]
    /\ tangled' = IF Busy(b) THEN tangled \cup {b} ELSE tangled

\* login: the credentials are right, or nothing changes.
Login(b) ==
    /\ ~Busy(b) /\ cookie[b] = 0
    /\ Issue(b, TRUE) /\ out' = out \ {b}
    /\ UNCHANGED <<clock, act, spent, tangled>>

\* refresh: the token is looked up in the denylist ...
RefreshCheck(q, b) ==
    /\ cookie[b] # 0 /\ Accepted(<<"refresh", cookie[b]>>)
    /\ Enter(q, b, "refresh", "checked")
    /\ UNCHANGED <<clock, pair, deny, cookie, spent, out>>

\* MUTANT of RefreshRevoke: the old token is left to expire.
RefreshRevokeNot(q) ==
    /\ act[q].at = "checked" /\ act' = [act EXCEPT ![q].at = "revoked"]
    /\ UNCHANGED <<clock, pair, deny, cookie, spent, out, tangled>>

\* ... then revoked ...
RefreshRevoke(q) ==
    /\ act[q].at = "checked" /\ Revoke(<<"refresh", act[q].pair>>)
    /\ act' = [act EXCEPT ![q].at = "revoked"]
    /\ UNCHANGED <<clock, pair, cookie, out, tangled>>

\* ... and a new pair takes its place.
RefreshIssue(q) ==
    /\ act[q].at = "revoked"
    /\ \E got \in BOOLEAN :
         /\ Issue(act[q].by, got)
         /\ tangled' = IF got THEN tangled ELSE tangled \cup {act[q].by}
    /\ act' = [act EXCEPT ![q] = Idle]
    /\ UNCHANGED <<clock, spent, out>>

\* logout revokes the access token of the cookies the request came with ...
LogoutAccess(q, b) ==
    /\ cookie[b] # 0 /\ Revoke(<<"access", cookie[b]>>)
    /\ Enter(q, b, "logout", "access")
    /\ UNCHANGED <<clock, pair, cookie, out>>

\* ... then the refresh token, and clears the cookies.
LogoutRefresh(q) ==
    /\ act[q].at = "access" /\ Revoke(<<"refresh", act[q].pair>>)
    /\ cookie' = [cookie EXCEPT ![act[q].by] = 0]
    /\ out' = out \cup {act[q].by}
    /\ act' = [act EXCEPT ![q] = Idle]
    /\ UNCHANGED <<clock, pair, tangled>>

Second ==
    /\ clock < MaxClock /\ clock' = clock + 1
    /\ UNCHANGED <<pair, deny, cookie, act, spent, out, tangled>>

AuthNext ==
    \/ \E b \in Browsers : Login(b)
    \/ \E q \in AuthRequests :
         \/ \E b \in Browsers : RefreshCheck(q, b) \/ LogoutAccess(q, b)
         \/ RefreshRevoke(q) \/ RefreshIssue(q) \/ LogoutRefresh(q)
    \/ Second

AuthSpec == AuthInit /\ [][AuthNext]_authVars

-----------------------------------------------------------------------------
(* Properties *)

\* A token that has been revoked is never accepted again: its denylist entry
\* does not expire before the token itself (auth.py _revoke_token).
RevokedForGood == \A t \in spent : ~Accepted(t)

\* A browser whose requests do not overlap and whose answers arrive has at most
\* one refresh token that still works, and none once it is signed out
\* (auth.py refresh_tokens, routes/auth.py logout).
OneRefreshToken ==
    \A b \in Browsers \ tangled :
        LET live == {i \in DOMAIN pair : pair[i].by = b /\ Accepted(<<"refresh", i>>)}
        IN  Cardinality(live) <= (IF b \in out THEN 0 ELSE 1)

=============================================================================
