------------------------------ MODULE RateLimit ------------------------------
(***************************************************************************)
(* The limiter in front of the API (middleware/rate_limit.py), for one     *)
(* client and one limit: a sliding window in a Redis sorted set, looked at *)
(* and added to in separate calls, and a list in memory for when Redis     *)
(* does not answer.  The limiter of the booths' own calls                  *)
(* (services/rate_limit_booth.py) has the same window for each gate and    *)
(* lets a request through when Redis does not answer; booth says that it   *)
(* is this one.  wait[q] is a request between two of its calls:            *)
(*   trim   before the old entries are removed   count  before zcard       *)
(*   add    let through, before zadd                                       *)
(***************************************************************************)
EXTENDS Integers, Sequences, FiniteSets

CONSTANTS
    Slots,       \* requests handled at a time
    MaxRequests, \* max_requests of the limit
    Window,      \* its window in seconds
    MaxTime,     \* bound: seconds
    MaxAdmitted  \* bound: requests let through

ASSUME RateLimitAssumption ==
    /\ MaxRequests \in Nat /\ Window \in Nat \ {0}
    /\ MaxTime \in Nat /\ MaxAdmitted \in Nat
    /\ IsFiniteSet(Slots) /\ Slots # {}

VARIABLES
    booth,       \* enforce_booth_rate_limit, not the middleware
    time,
    entries,     \* the sorted set: <<number of the request, score>>
    bucket,      \* _mem_buckets
    wait, stamp, \* where a request is, and the time it started
    admitted     \* history: time and limiter of every request let through

rateVars == <<booth, time, entries, bucket, wait, stamp, admitted>>

RateTypeOK ==
    /\ booth \in BOOLEAN
    /\ time \in 0..MaxTime
    /\ entries \subseteq (1..MaxAdmitted) \X (0..MaxTime)
    /\ bucket \subseteq (1..MaxAdmitted) \X (0..MaxTime)
    /\ wait \in [Slots -> {"free", "trim", "count", "add"}]
    /\ stamp \in [Slots -> 0..MaxTime]
    /\ admitted \in Seq([at : 0..MaxTime, by : {"redis", "memory", "nobody"}])
    /\ Len(admitted) <= MaxAdmitted

RateInit ==
    /\ booth \in BOOLEAN
    /\ time = 0 /\ entries = {} /\ bucket = {} /\ admitted = <<>>
    /\ wait = [q \in Slots |-> "free"] /\ stamp = [q \in Slots |-> 0]

\* What is left of a set of entries for a request stamped now.
Recent(es, now) == {e \in es : e[2] > now - Window}

\* MUTANT of Full: one more than the limit.
FullLate(es) == Cardinality(es) > MaxRequests

Full(es) == Cardinality(es) >= MaxRequests

Admit(q, limiter) == admitted' = Append(admitted, [at |-> stamp[q], by |-> limiter])

\* A request that will be let through is let through while the bound allows it.
Arrive(q) ==
    /\ wait[q] = "free" /\ Len(admitted) + Cardinality({p \in Slots : wait[p] # "free"}) < MaxAdmitted
    /\ wait' = [wait EXCEPT ![q] = "trim"] /\ stamp' = [stamp EXCEPT ![q] = time]
    /\ UNCHANGED <<booth, time, entries, bucket, admitted>>

Trim(q) ==
    /\ wait[q] = "trim" /\ entries' = Recent(entries, stamp[q])
    /\ wait' = [wait EXCEPT ![q] = "count"]
    /\ UNCHANGED <<booth, time, bucket, stamp, admitted>>

Count(q) ==
    /\ wait[q] = "count" /\ wait' = [wait EXCEPT ![q] = IF Full(entries) THEN "free" ELSE "add"]
    /\ UNCHANGED <<booth, time, entries, bucket, stamp, admitted>>

Add(q) ==
    /\ wait[q] = "add" /\ Admit(q, "redis") /\ wait' = [wait EXCEPT ![q] = "free"]
    /\ entries' = entries \cup {<<Len(admitted) + 1, stamp[q]>>}
    /\ UNCHANGED <<booth, time, bucket, stamp>>

\* Any of the calls may raise: _check_limit_memory decides, at its own time.
Fallback(q) ==
    /\ ~booth /\ wait[q] # "free" /\ wait' = [wait EXCEPT ![q] = "free"]
    /\ LET left == Recent(bucket, time)
       IN  IF Full(left)
           THEN bucket' = left /\ UNCHANGED admitted
           ELSE /\ bucket' = left \cup {<<Len(admitted) + 1, time>>}
                /\ admitted' = Append(admitted, [at |-> time, by |-> "memory"])
    /\ UNCHANGED <<booth, time, entries, stamp>>

\* In enforce_booth_rate_limit any of them may raise: the request is let through.
FailOpen(q) ==
    /\ booth /\ wait[q] # "free" /\ wait' = [wait EXCEPT ![q] = "free"]
    /\ Admit(q, "nobody")
    /\ UNCHANGED <<booth, time, entries, bucket, stamp>>

\* Redis answers or fails before a window is over: a request is never older.
TimePasses ==
    /\ time < MaxTime /\ time' = time + 1
    /\ \A q \in Slots : wait[q] # "free" => time' - stamp[q] < Window
    /\ UNCHANGED <<booth, entries, bucket, wait, stamp, admitted>>

RateNext ==
    \/ \E q \in Slots : Arrive(q) \/ Trim(q) \/ Count(q) \/ Add(q) \/ Fallback(q) \/ FailOpen(q)
    \/ TimePasses

RateSpec == RateInit /\ [][RateNext]_rateVars

-----------------------------------------------------------------------------
(* Properties *)

\* In no window are more requests let through than the limit plus two for every
\* other request in flight: one that counts before this one is entered, and one
\* that counts after a later request has trimmed the set.  In memory it is never
\* more than the limit (rate_limit.py _check_limit, _check_limit_memory,
\* rate_limit_booth.py enforce_booth_rate_limit).
WindowBound ==
    \A end \in 0..MaxTime :
        LET in(limiter) == {k \in DOMAIN admitted : /\ admitted[k].by = limiter
                                                    /\ admitted[k].at <= end
                                                    /\ admitted[k].at > end - Window}
        IN  /\ Cardinality(in("redis")) <= MaxRequests + 2 * (Cardinality(Slots) - 1)
            /\ Cardinality(in("memory")) <= MaxRequests

=============================================================================
