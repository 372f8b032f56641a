------------------------------ MODULE Payment ------------------------------
(***************************************************************************)
(* The payment side of the API: services/payment.py behind                 *)
(* routes/payments.py.  Several requests run at once, in the workers of    *)
(* one API; each has one database transaction, committed by get_db after   *)
(* the route returned, and talks to Redis in between.                      *)
(*                                                                         *)
(* pc[r] is where request r stands:                                        *)
(*   free     no request                                                   *)
(*   find     before SELECT ... FOR UPDATE, waiting for the row if need be *)
(*   arm      row locked, before the pending key is written                *)
(*   clear    row locked, before the pending key is deleted                *)
(*   store    payment done, before the idempotency key is written          *)
(*   commit   before get_db commits                                        *)
(***************************************************************************)
EXTENDS Integers, Sequences, FiniteSets

CONSTANTS
    Requests,   \* requests the API may be working on at once
    Stays,      \* parking transactions, one barcode each
    Gates,      \* exit gates
    Types,      \* vehicle types
    Fee,        \* what a stay of each vehicle type costs
    Amounts,    \* amounts handed over or deducted
    Cards,      \* card numbers
    Members,    \* cards of active members
    EntryCard,  \* the card a stay was opened with, or None for a ticket
    Statuses,   \* deduct statuses a booth may report
    MaxEmoney,  \* bound: rows of emoney_transactions
    Peripherals,\* the jobs the gates have a device for: "receipt", "snapshot"
    Aborts,     \* TRUE if a database transaction may be rolled back
    None

AllStatuses ==
    {"SUCCESS", "CORRECTION_VERIFIED", "LOST_CONTACT", "FAILED", "WRONG_CARD",
     "INSUFFICIENT_BALANCE", "CORRECTION_FAILED", "TIMEOUT"}

Paying == {"SUCCESS", "CORRECTION_VERIFIED"}

Methods == {"CASH", "RFID_MEMBER", "EMONEY"}

EmoneyRow == [stay : Stays, amount : Amounts, status : Statuses]

ASSUME PaymentAssumption ==
    /\ Fee \in [Types -> Nat]
    /\ Amounts \subseteq Nat
    /\ Members \subseteq Cards
    /\ EntryCard \in [Stays -> Cards \cup {None}]
    /\ Statuses \subseteq AllStatuses
    /\ MaxEmoney \in Nat
    /\ Peripherals \subseteq {"receipt", "snapshot"}
    /\ Aborts \in BOOLEAN
    /\ None \notin EmoneyRow
    /\ None \notin Stays \cup Gates \cup Types \cup Cards \cup Requests

VARIABLES
    rows,       \* parking_transactions, as committed
    emoney,     \* emoney_transactions, as committed, oldest first
    owner,      \* the request that holds the row lock of a stay
    pc,         \* where each request stands
    call,       \* what each request asks
    got,        \* the stay a result request found in the pending key
    work,       \* what each request's commit will write
    pending,    \* emoney:pending:{gate}
    cache,      \* the idempotency keys that hold a success
    jobs        \* the jobs ever enqueued, by job id: a kind and a stay

vars == <<rows, emoney, owner, pc, call, got, work, pending, cache, jobs>>

Row == [status : {"ACTIVE", "COMPLETED"}, method : Methods,
        paid : Nat, vt : Types, card : Cards \cup {None}]

Calls ==
    [kind : {"cash"}, stay : Stays, paid : Amounts, vt : Types \cup {None}, keyed : BOOLEAN]
      \cup [kind : {"rfid"}, card : Cards, keyed : BOOLEAN]
      \cup [kind : {"arm"}, stay : Stays, gate : Gates, vt : Types \cup {None}]
      \cup [kind : {"result"}, gate : Gates, status : Statuses,
           card : Cards \cup {None}, amount : Amounts]

Work == [stay : Stays, row : Row, emoney : EmoneyRow \cup {None}]

Labels == {"free", "find", "arm", "clear", "store", "commit"}

\* The steps at which a request holds its row.
Holding == {"arm", "clear", "store", "commit"}

TypeOK ==
    /\ rows \in [Stays -> Row]
    /\ emoney \in Seq(EmoneyRow)
    /\ owner \in [Stays -> Requests \cup {None}]
    /\ pc \in [Requests -> Labels]
    /\ call \in [Requests -> Calls \cup {None}]
    /\ \A r \in Requests : pc[r] # "free" => call[r] \in Calls
    /\ got \in [Requests -> Stays \cup {None}]
    /\ work \in [Requests -> Work \cup {None}]
    /\ \A r \in Requests : pc[r] \in Holding => work[r] \in Work
    /\ pending \in [Gates -> Stays \cup {None}]
    /\ cache \subseteq Stays \cup Cards
    /\ jobs \subseteq Peripherals \X Stays

Init ==
    /\ \E vt \in [Stays -> Types] :
         rows = [s \in Stays |-> [status |-> "ACTIVE", paid |-> 0, vt |-> vt[s],
                                  method |-> IF EntryCard[s] = None THEN "CASH"
                                             ELSE "RFID_MEMBER",
                                  card |-> EntryCard[s]]]
    /\ emoney = <<>>
    /\ owner = [s \in Stays |-> None]
    /\ pc = [r \in Requests |-> "free"]
    /\ call = [r \in Requests |-> None]
    /\ got = [r \in Requests |-> None]
    /\ work = [r \in Requests |-> None]
    /\ pending = [g \in Gates |-> None]
    /\ cache = {}
    /\ jobs = {}

-----------------------------------------------------------------------------

Goto(r, label) == pc' = [pc EXCEPT ![r] = label]

Active(s) == rows[s].status = "ACTIVE"

\* The request is over: nothing of it is kept.
Forget(r) ==
    /\ Goto(r, "free")
    /\ call' = [call EXCEPT ![r] = None]
    /\ got' = [got EXCEPT ![r] = None]
    /\ work' = [work EXCEPT ![r] = None]

Unlocked(r) == [s \in Stays |-> IF owner[s] = r THEN None ELSE owner[s]]

\* The X-Idempotency-Key of a cash or member payment, if it came with one: a
\* client takes one key per ticket or card it lets out.
Key(q) ==
    {k \in Stays \cup Cards :
        \/ q.kind = "cash" /\ q.keyed /\ k = q.stay
        \/ q.kind = "rfid" /\ q.keyed /\ k = q.card}

\* A request comes in and reads its first key: _check_idempotency, or
\* _get_emoney_pending for a result.  One whose key is in the cache is answered
\* from there, and a result that finds nothing pending is refused: neither does
\* anything.  A Redis error is "no such key" to _check_idempotency, so a request
\* may pass with its key in the cache.
Receive(r, q) ==
    /\ pc[r] = "free"
    /\ q.kind = "result" => pending[q.gate] # None
    /\ call' = [call EXCEPT ![r] = q]
    /\ got' = [got EXCEPT ![r] = IF q.kind = "result" THEN pending[q.gate] ELSE None]
    /\ Goto(r, "find")
    /\ UNCHANGED <<rows, emoney, owner, work, pending, cache, jobs>>

-----------------------------------------------------------------------------
(* The row the request works on, and what it will write *)

\* MUTANT of Matches: the search does not filter on the status.
MatchesAnyStatus(r, s) ==
    \/ call[r].kind \in {"cash", "arm"} /\ s = call[r].stay
    \/ call[r].kind = "rfid" /\ call[r].card \in Members /\ rows[s].card = call[r].card
    \/ call[r].kind = "result" /\ s = got[r]

\* Row s is what the request searches for: find_active_transaction, after the
\* member check of a card, or db.get of the pending transaction.
Matches(r, s) ==
    \/ call[r].kind \in {"cash", "arm"} /\ s = call[r].stay /\ Active(s)
    \/ /\ call[r].kind = "rfid" /\ call[r].card \in Members
       /\ rows[s].card = call[r].card /\ Active(s)
    \/ call[r].kind = "result" /\ s = got[r]

\* The vehicle type the operator chose replaces that of the row.
Retyped(row, vt) == IF vt = None THEN row ELSE [row EXCEPT !.vt = vt]

\* complete_exit_transaction
Complete(row, m, paid) ==
    [row EXCEPT !.status = "COMPLETED", !.method = m, !.paid = paid]

\* enqueue_snapshots_for_gate and _enqueue_print_receipt: each may fail without
\* a trace, and does nothing at a gate without the device.
Enqueue(s, kinds) ==
    \E ks \in SUBSET (kinds \cap Peripherals) : jobs' = jobs \cup (ks \X {s})

Writes(r, s, row, erow) ==
    work' = [work EXCEPT ![r] = [stay |-> s, row |-> row, emoney |-> erow]]

\* process_cash_payment.  Less than the fee raises ValueError: the route
\* answers success=False, and get_db still commits the vehicle type.
Cash(r, s) ==
    LET row == Retyped(rows[s], call[r].vt)
    IN  IF call[r].paid < Fee[row.vt]
        THEN /\ Writes(r, s, row, None) /\ Goto(r, "commit")
             /\ Enqueue(s, {"snapshot"})
        ELSE /\ Writes(r, s, Complete(row, "CASH", call[r].paid), None)
             /\ Goto(r, "store")
             /\ Enqueue(s, {"snapshot", "receipt"})

\* process_rfid_payment
Rfid(r, s) ==
    /\ Writes(r, s, Complete(rows[s], "RFID_MEMBER", 0), None) /\ Goto(r, "store")
    /\ Enqueue(s, {"snapshot"})

\* process_emoney_deduct
Arm(r, s) ==
    /\ Writes(r, s, Retyped(rows[s], call[r].vt), None) /\ Goto(r, "arm")
    /\ UNCHANGED jobs

\* Another ACTIVE row has this card: uq_active_card will refuse the flush.
Taken(s, c) == c # None /\ \E t \in Stays \ {s} : Active(t) /\ rows[t].card = c

\* Another transaction is changing a row that has this card, or will have it:
\* the flush waits for its end.
Contended(s, c) ==
    c # None /\ \E t \in Stays \ {s} :
        owner[t] # None /\ c \in {rows[t].card, work[owner[t]].row.card}

\* MUTANT of Result: whatever is not a failure closes the stay.
ResultLostContactPays(r, s) ==
    LET q    == call[r]
        erow == [stay |-> s, amount |-> q.amount, status |-> q.status]
    IN  /\ Active(s) /\ ~Contended(s, q.card) /\ ~Taken(s, q.card)
        /\ Writes(r, s, IF q.status \in Paying \cup {"LOST_CONTACT"}
                        THEN Complete(rows[s], "EMONEY", q.amount) ELSE rows[s],
                  erow)
        /\ Goto(r, IF q.status = "LOST_CONTACT" THEN "commit" ELSE "clear")
        /\ UNCHANGED jobs

\* process_emoney_result on an ACTIVE row.
Result(r, s) ==
    LET q    == call[r]
        row  == IF q.card = None THEN rows[s] ELSE [rows[s] EXCEPT !.card = q.card]
        erow == [stay |-> s, amount |-> q.amount, status |-> q.status]
    IN  /\ Active(s) /\ ~Contended(s, q.card) /\ ~Taken(s, q.card)
        /\ Writes(r, s, IF q.status \in Paying THEN Complete(row, "EMONEY", q.amount) ELSE row,
                  erow)
        /\ Goto(r, IF q.status = "LOST_CONTACT" THEN "commit" ELSE "clear")
        /\ UNCHANGED jobs

\* SELECT ... FOR UPDATE of the row of s
Lock(r, s) == owner[s] = None /\ owner' = [owner EXCEPT ![s] = r]

\* The row is found, and locked until the commit.
Find(r) ==
    /\ pc[r] = "find"
    /\ \E s \in Stays :
         /\ Matches(r, s) /\ Lock(r, s)
         /\ \/ call[r].kind = "cash" /\ Cash(r, s)
            \/ call[r].kind = "rfid" /\ Rfid(r, s)
            \/ call[r].kind = "arm" /\ Arm(r, s)
            \/ call[r].kind = "result" /\ Result(r, s)
    /\ UNCHANGED <<rows, emoney, call, got, pending, cache>>

\* No ACTIVE row, or no member: ValueError, nothing to commit.
NotFound(r) ==
    /\ pc[r] = "find" /\ \A s \in Stays : ~Matches(r, s)
    /\ Forget(r)
    /\ UNCHANGED <<rows, emoney, owner, pending, cache, jobs>>

\* The pending transaction is no longer ACTIVE: drop the key, ValueError.
ResultTooLate(r) ==
    /\ pc[r] = "find" /\ call[r].kind = "result"
    /\ owner[got[r]] = None /\ ~Active(got[r])
    /\ pending' = [pending EXCEPT ![call[r].gate] = None]
    /\ Forget(r)
    /\ UNCHANGED <<rows, emoney, owner, cache, jobs>>

\* The unique index refuses the card number: the whole result is rolled back.
CardRefused(r) ==
    /\ pc[r] = "find" /\ call[r].kind = "result"
    /\ owner[got[r]] = None /\ Active(got[r])
    /\ ~Contended(got[r], call[r].card) /\ Taken(got[r], call[r].card)
    /\ Forget(r)
    /\ UNCHANGED <<rows, emoney, owner, pending, cache, jobs>>

-----------------------------------------------------------------------------
(* Redis, between the lock and the commit *)

\* MUTANT of SetPending: the gate and the transaction are swapped.
SetPendingGate(r) ==
    /\ pc[r] = "arm" /\ Goto(r, "commit")
    /\ pending' = [pending EXCEPT ![call[r].gate] = call[r].gate]
    /\ UNCHANGED <<rows, emoney, owner, call, got, work, cache, jobs>>

\* _set_emoney_pending
SetPending(r) ==
    /\ pc[r] = "arm" /\ Goto(r, "commit")
    /\ pending' = [pending EXCEPT ![call[r].gate] = call[r].stay]
    /\ UNCHANGED <<rows, emoney, owner, call, got, work, cache, jobs>>

\* _clear_emoney_pending, then the jobs of a paid exit
ClearPending(r) ==
    /\ pc[r] = "clear" /\ Goto(r, "commit")
    /\ pending' = [pending EXCEPT ![call[r].gate] = None]
    /\ Enqueue(work[r].stay,
               IF call[r].status \in Paying THEN {"snapshot", "receipt"} ELSE {})
    /\ UNCHANGED <<rows, emoney, owner, call, got, work, cache>>

\* _store_idempotency, if the request came with a key
StoreIdempotency(r) ==
    /\ pc[r] = "store" /\ Goto(r, "commit")
    /\ cache' = cache \cup Key(call[r])
    /\ UNCHANGED <<rows, emoney, owner, call, got, work, pending, jobs>>

\* The keys have a time to live.
Expire ==
    \/ /\ \E g \in Gates : pending[g] # None /\ pending' = [pending EXCEPT ![g] = None]
       /\ UNCHANGED <<rows, emoney, owner, pc, call, got, work, cache, jobs>>
    \/ /\ \E k \in cache : cache' = cache \ {k}
       /\ UNCHANGED <<rows, emoney, owner, pc, call, got, work, pending, jobs>>

\* get_db: commit on the way out of the route.
Commit(r) ==
    /\ pc[r] = "commit"
    /\ work[r].emoney # None => Len(emoney) < MaxEmoney
    /\ rows' = [rows EXCEPT ![work[r].stay] = work[r].row]
    /\ emoney' = IF work[r].emoney = None THEN emoney ELSE Append(emoney, work[r].emoney)
    /\ owner' = Unlocked(r)
    /\ Forget(r)
    /\ UNCHANGED <<pending, cache, jobs>>

\* The worker dies, the lock wait times out, a query or the commit fails: the
\* database forgets the request; Redis does not.
Abort(r) ==
    /\ Aborts /\ pc[r] # "free"
    /\ owner' = Unlocked(r)
    /\ Forget(r)
    /\ UNCHANGED <<rows, emoney, pending, cache, jobs>>

-----------------------------------------------------------------------------

Step(r) ==
    \/ Find(r) \/ NotFound(r) \/ ResultTooLate(r) \/ CardRefused(r)
    \/ SetPending(r) \/ ClearPending(r) \/ StoreIdempotency(r) \/ Commit(r)

ApiNext ==
    \/ \E r \in Requests : Step(r) \/ Abort(r)
    \/ Expire

Next ==
    \/ ApiNext
    \/ \E r \in Requests, q \in Calls : Receive(r, q)

Spec == Init /\ [][Next]_vars

-----------------------------------------------------------------------------
(* Properties *)

\* A request that is about to commit holds the lock of the row it read, and the
\* row is still as it was read, ACTIVE: no update is lost (payment.py,
\* with_for_update).
LockHeld ==
    /\ \A r \in Requests : pc[r] \in Holding =>
           owner[work[r].stay] = r /\ Active(work[r].stay)
    /\ \A s \in Stays : owner[s] # None =>
           pc[owner[s]] \in Holding /\ work[owner[s]].stay = s

PaidRows(s) == {i \in DOMAIN emoney : emoney[i].stay = s /\ emoney[i].status \in Paying}

\* The two tables tell the same story: a stay is closed by e-money exactly if
\* one deduction that paid for it is on record, for the amount the stay shows;
\* a result posted twice is recorded once (payment.py process_emoney_result).
BooksAgree ==
    \A s \in Stays :
        IF ~Active(s) /\ rows[s].method = "EMONEY"
        THEN \E i \in PaidRows(s) : PaidRows(s) = {i} /\ emoney[i].amount = rows[s].paid
        ELSE PaidRows(s) = {}

\* No stay is closed for less cash than the fee of the vehicle type on record:
\* "never complete a cash exit for less than the fee" (payment.py:141).
CashCovers ==
    \A s \in Stays :
        ~Active(s) /\ rows[s].method = "CASH" => rows[s].paid >= Fee[rows[s].vt]

\* The books as the abstract ledger sees them.
Books == INSTANCE Ledger WITH
    book <- [s \in Stays |-> IF Active(s) THEN "open" ELSE rows[s].method]

\* Every behaviour of the payment routes, concurrent and aborted requests
\* included, is one of the ledger: a stay is settled once, by one method, and
\* never reopened (payment.py, transaction.py complete_exit_transaction).
SettledOnce == Books!LSpec

\* api/app/routes/payments.py:43: "Check if a payment with this idempotency key
\* was already processed."  A key found in the cache belongs to a closed stay,
\* or to a request that is about to commit.
CachedIsRecorded ==
    \A k \in cache :
        \/ \E s \in Stays : ~Active(s) /\ (k = s \/ k = rows[s].card)
        \/ \E r \in Requests : pc[r] = "commit" /\ k \in Key(call[r])

=============================================================================
