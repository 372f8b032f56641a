--------------------------- MODULE PaymentProofs ---------------------------
(***************************************************************************)
(* Proofs about Payment, for any number of requests, stays, gates, cards   *)
(* and amounts.  The tables can only be read together with what every      *)
(* request is about to write to them: Prepared is that strengthening.      *)
(***************************************************************************)
EXTENDS Payment, TLAPS, SequenceTheorems

\* What a request holds ready for its commit is sound by itself: the row it
\* closes, and the deduction it records with it, agree, and the cash covers the
\* fee (payment.py, between find_active_transaction and get_db's commit).
Prepared(r) ==
    LET row  == work[r].row
        erow == work[r].emoney
    IN  /\ erow # None => erow.stay = work[r].stay
        /\ row.status = "ACTIVE" => erow = None \/ erow.status \notin Paying
        /\ row.status = "COMPLETED" /\ row.method = "EMONEY" =>
               erow # None /\ erow.status \in Paying /\ erow.amount = row.paid
        /\ row.status = "COMPLETED" /\ row.method # "EMONEY" => erow = None
        /\ row.status = "COMPLETED" /\ row.method = "CASH" => row.paid >= Fee[row.vt]

\* Where a request stands tells what it asked for, and a result request has
\* found a transaction.
Routed(r) ==
    /\ pc[r] = "arm" => call[r].kind = "arm"
    /\ pc[r] = "clear" => call[r].kind = "result"
    /\ pc[r] = "find" /\ call[r].kind = "result" => got[r] \in Stays

AllPrepared == \A r \in Requests : pc[r] \in Holding => Prepared(r)
AllRouted == \A r \in Requests : Routed(r)

\* The inductive invariant.
IInv == TypeOK /\ LockHeld /\ AllRouted /\ AllPrepared /\ BooksAgree /\ CashCovers

-----------------------------------------------------------------------------
(* Facts used throughout *)

\* A request's fields are those of its kind.
LEMMA CallFields ==
    ASSUME NEW q \in Calls
    PROVE  /\ q.kind \in {"cash", "rfid", "arm", "result"}
           /\ q.kind = "cash" => /\ q.stay \in Stays /\ q.paid \in Amounts
                                 /\ q.vt \in Types \cup {None} /\ q.keyed \in BOOLEAN
           /\ q.kind = "rfid" => q.card \in Cards /\ q.keyed \in BOOLEAN
           /\ q.kind = "arm" => q.stay \in Stays /\ q.gate \in Gates /\ q.vt \in Types \cup {None}
           /\ q.kind = "result" => /\ q.gate \in Gates /\ q.status \in Statuses
                                   /\ q.card \in Cards \cup {None} /\ q.amount \in Amounts
  BY DEF Calls

\* The two changes a payment makes to a row keep it a row.
LEMMA RowChanges ==
    ASSUME NEW row \in Row
    PROVE  /\ \A vt \in Types \cup {None} : Retyped(row, vt) \in Row
           /\ \A vt \in Types \cup {None} :
                 Retyped(row, vt).status = row.status /\ Retyped(row, vt).vt \in Types
           /\ \A m \in Methods, p \in Nat :
                 /\ Complete(row, m, p) \in Row
                 /\ Complete(row, m, p).status = "COMPLETED"
                 /\ Complete(row, m, p).method = m
                 /\ Complete(row, m, p).paid = p
                 /\ Complete(row, m, p).vt = row.vt
  BY PaymentAssumption DEF Row, Retyped, Complete

\* Enqueueing adds jobs of stays, for devices that are there.
LEMMA EnqueueType ==
    ASSUME jobs \subseteq Peripherals \X Stays, NEW s \in Stays, NEW kinds, Enqueue(s, kinds)
    PROVE  jobs' \subseteq Peripherals \X Stays
  BY DEF Enqueue

\* Amounts and fees as the arithmetic needs them.
LEMMA Numbers ==
    /\ \A a \in Amounts : a \in Nat
    /\ \A t \in Types : Fee[t] \in Nat
  BY PaymentAssumption

\* A request that holds nothing has nothing to give back.
LEMMA NothingToUnlock ==
    ASSUME TypeOK, LockHeld, NEW r \in Requests, pc[r] \notin Holding
    PROVE  owner = Unlocked(r)
  <1>1. \A s \in Stays : owner[s] # r
    BY PaymentAssumption DEF LockHeld
  <1> QED
    BY <1>1 DEF Unlocked, TypeOK

\* The tables are judged by themselves.
LEMMA TablesUnchanged ==
    ASSUME BooksAgree, CashCovers, UNCHANGED <<rows, emoney>>
    PROVE  BooksAgree' /\ CashCovers'
  BY DEF BooksAgree, CashCovers, PaidRows, Active

-----------------------------------------------------------------------------
(* One lemma for each shape of step *)

\* A request ends without a commit.
LEMMA Dropped ==
    ASSUME IInv, NEW r \in Requests, Forget(r), owner' = Unlocked(r),
           UNCHANGED <<rows, emoney>>,
           pending' \in [Gates -> Stays \cup {None}], cache' \subseteq Stays \cup Cards,
           jobs' \subseteq Peripherals \X Stays
    PROVE  IInv'
  <1> USE DEF IInv
  <1>1. /\ pc' = [pc EXCEPT ![r] = "free"] /\ call' = [call EXCEPT ![r] = None]
        /\ got' = [got EXCEPT ![r] = None] /\ work' = [work EXCEPT ![r] = None]
    BY DEF Forget, Goto
  <1>2. /\ pc'[r] = "free"
        /\ \A q \in Requests \ {r} : pc'[q] = pc[q] /\ call'[q] = call[q]
                                     /\ got'[q] = got[q] /\ work'[q] = work[q]
    BY <1>1 DEF TypeOK
  <1>3. TypeOK'
    <2>1. /\ call' \in [Requests -> Calls \cup {None}]
          /\ work' \in [Requests -> Work \cup {None}]
          /\ got' \in [Requests -> Stays \cup {None}]
          /\ pc' \in [Requests -> Labels]
      BY <1>1 DEF TypeOK, Labels
    <2>2. owner' \in [Stays -> Requests \cup {None}]
      BY DEF TypeOK, Unlocked
    <2>3. \A q \in Requests : /\ pc'[q] # "free" => call'[q] \in Calls
                              /\ pc'[q] \in Holding => work'[q] \in Work
      BY <1>2 DEF TypeOK, Holding
    <2>4. rows' \in [Stays -> Row] /\ emoney' \in Seq(EmoneyRow)
      BY DEF TypeOK
    <2> HIDE DEF IInv
    <2> QED
      BY <2>1, <2>2, <2>3, <2>4 DEF TypeOK
  <1>4. LockHeld'
    <2>1. \A s \in Stays : owner'[s] = (IF owner[s] = r THEN None ELSE owner[s])
      BY DEF Unlocked
    <2>2. ASSUME NEW q \in Requests, pc'[q] \in Holding
          PROVE  (owner[work[q].stay] = q /\ Active(work[q].stay))'
      <3>1. q # r /\ pc[q] \in Holding /\ work'[q] = work[q]
        BY <1>2, <2>2 DEF Holding
      <3>2. work[q].stay \in Stays /\ owner[work[q].stay] = q /\ Active(work[q].stay)
        BY <3>1 DEF LockHeld, TypeOK, Work
      <3> QED
        BY <2>1, <3>1, <3>2 DEF Active
    <2>3. ASSUME NEW s \in Stays, owner'[s] # None
          PROVE  (pc[owner[s]] \in Holding /\ work[owner[s]].stay = s)'
      <3>1. owner[s] # r /\ owner'[s] = owner[s] /\ owner[s] \in Requests
        BY <2>1, <2>3 DEF TypeOK
      <3> QED
        BY <1>2, <2>3, <3>1 DEF LockHeld
    <2> QED
      BY <2>2, <2>3 DEF LockHeld
  <1>5. AllRouted'
    BY <1>2 DEF AllRouted, Routed
  <1>6. AllPrepared'
    BY <1>2 DEF AllPrepared, Prepared, Holding
  <1> QED
    BY <1>3, <1>4, <1>5, <1>6, TablesUnchanged

\* A key expires, or nothing happens.
LEMMA KeyExpired ==
    ASSUME IInv, UNCHANGED <<rows, emoney, owner, pc, call, got, work>>,
           pending' \in [Gates -> Stays \cup {None}], cache' \subseteq Stays \cup Cards,
           jobs' \subseteq Peripherals \X Stays
    PROVE  IInv'
  <1> USE DEF IInv
  <1>1. TypeOK' /\ LockHeld'
    BY DEF TypeOK, LockHeld, Active
  <1>2. AllRouted' /\ AllPrepared'
    BY DEF AllRouted, Routed, AllPrepared, Prepared
  <1> QED
    BY <1>1, <1>2, TablesUnchanged

\* A request writes one of its Redis keys.
LEMMA Keys ==
    ASSUME IInv, NEW r \in Requests,
           pc[r] \in Holding, Goto(r, "commit"),
           UNCHANGED <<rows, emoney, owner, call, got, work>>,
           pending' \in [Gates -> Stays \cup {None}], cache' \subseteq Stays \cup Cards,
           jobs' \subseteq Peripherals \X Stays
    PROVE  IInv'
  <1> USE DEF IInv
  <1>1. /\ pc' \in [Requests -> Labels]
        /\ \A q \in Requests : /\ (pc'[q] \in Holding) <=> (pc[q] \in Holding)
                               /\ pc'[q] = pc[q] \/ pc'[q] = "commit"
                               /\ pc'[q] # "free" => pc[q] # "free"
    BY DEF TypeOK, Goto, Holding, Labels
  <1>3. TypeOK'
    BY <1>1 DEF TypeOK
  <1>4. LockHeld'
    BY <1>1, PaymentAssumption DEF TypeOK, LockHeld, Active
  <1>5. AllRouted'
    BY <1>1 DEF AllRouted, Routed
  <1>6. AllPrepared'
    BY <1>1 DEF AllPrepared, Prepared
  <1> QED
    BY <1>3, <1>4, <1>5, <1>6, TablesUnchanged

\* A request locks an ACTIVE row and prepares what it will write to it.
LEMMA Claimed ==
    ASSUME IInv, NEW r \in Requests, NEW s \in Stays, pc[r] = "find", Active(s), Lock(r, s),
           NEW w \in Work, w.stay = s, work' = [work EXCEPT ![r] = w],
           NEW l \in Holding, Goto(r, l),
           l = "arm" => call[r].kind = "arm",
           l = "clear" => call[r].kind = "result",
           Prepared(r)',
           UNCHANGED <<rows, emoney, call, got, pending, cache>>,
           jobs' \subseteq Peripherals \X Stays
    PROVE  IInv'
  <1> USE DEF IInv
  <1>1. /\ pc' = [pc EXCEPT ![r] = l] /\ owner[s] = None
        /\ owner' = [owner EXCEPT ![s] = r]
    BY DEF Goto, Lock
  <1>2. /\ pc'[r] = l /\ work'[r] = w /\ owner'[s] = r
        /\ \A q \in Requests \ {r} : pc'[q] = pc[q] /\ work'[q] = work[q]
        /\ \A t \in Stays \ {s} : owner'[t] = owner[t]
    BY <1>1 DEF TypeOK
  <1>3. TypeOK'
    BY <1>1, <1>2 DEF TypeOK, Holding, Labels
  <1>4. LockHeld'
    BY <1>1, <1>2, PaymentAssumption DEF TypeOK, LockHeld, Active, Holding
  <1>5. AllRouted'
    BY <1>2 DEF AllRouted, Routed, Holding
  <1>6. AllPrepared'
    BY <1>2 DEF AllPrepared, Prepared
  <1> QED
    BY <1>3, <1>4, <1>5, <1>6, TablesUnchanged

\* A request comes in.
LEMMA Received ==
    ASSUME IInv, NEW r \in Requests, NEW q \in Calls, Receive(r, q)
    PROVE  IInv'
  <1> USE DEF IInv
  <1>1. /\ pc[r] = "free" /\ pc' = [pc EXCEPT ![r] = "find"] /\ call' = [call EXCEPT ![r] = q]
        /\ UNCHANGED <<rows, emoney, owner, work, pending, cache, jobs>>
    BY DEF Receive, Goto
  <1>2. /\ pc'[r] = "find" /\ call'[r] = q
        /\ \A p \in Requests \ {r} : pc'[p] = pc[p] /\ call'[p] = call[p] /\ got'[p] = got[p]
    BY <1>1 DEF TypeOK, Receive
  <1>3. got' \in [Requests -> Stays \cup {None}] /\ (q.kind = "result" => got'[r] \in Stays)
    BY CallFields DEF Receive, TypeOK
  <1>4. TypeOK'
    <2>1. call' \in [Requests -> Calls \cup {None}] /\ pc' \in [Requests -> Labels]
      BY <1>1 DEF TypeOK, Labels
    <2>2. \A p \in Requests : /\ pc'[p] # "free" => call'[p] \in Calls
                              /\ pc'[p] \in Holding => work'[p] \in Work
      BY <1>1, <1>2 DEF TypeOK, Holding
    <2> QED
      BY <1>1, <1>3, <2>1, <2>2 DEF TypeOK
  <1>5. LockHeld'
    BY <1>1, <1>2, PaymentAssumption DEF TypeOK, LockHeld, Active, Holding
  <1>6. AllRouted'
    BY <1>2, <1>3 DEF AllRouted, Routed
  <1>7. AllPrepared'
    BY <1>1, <1>2 DEF AllPrepared, Prepared, Holding
  <1> QED
    BY <1>1, <1>4, <1>5, <1>6, <1>7, TablesUnchanged

-----------------------------------------------------------------------------
(* Find: what each kind of request prepares *)

\* Finding the row keeps the invariant, whatever was asked.
LEMMA FindStep ==
    ASSUME IInv, NEW r \in Requests, Find(r)
    PROVE  IInv'
  <1> USE DEF IInv
  <1>1. PICK s \in Stays :
          /\ Matches(r, s) /\ Lock(r, s)
          /\ \/ call[r].kind = "cash" /\ Cash(r, s)
             \/ call[r].kind = "rfid" /\ Rfid(r, s)
             \/ call[r].kind = "arm" /\ Arm(r, s)
             \/ call[r].kind = "result" /\ Result(r, s)
    BY DEF Find
  <1>2. /\ pc[r] = "find" /\ call[r] \in Calls /\ rows[s] \in Row
        /\ UNCHANGED <<rows, emoney, call, got, pending, cache>>
    BY DEF Find, TypeOK
  <1> DEFINE Ready(w, l) == /\ w \in Work /\ w.stay = s
                            /\ work' = [work EXCEPT ![r] = w]
                            /\ l \in Holding /\ Goto(r, l)
                            /\ l = "arm" => call[r].kind = "arm"
                            /\ l = "clear" => call[r].kind = "result"
                            /\ Prepared(r)'
                            /\ jobs' \subseteq Peripherals \X Stays
  <1>a. jobs' \subseteq Peripherals \X Stays
    BY <1>1, EnqueueType DEF IInv, TypeOK, Cash, Rfid, Arm, Result
  <1>3. ASSUME Active(s), NEW w, NEW l, Ready(w, l)
        PROVE  IInv'
    BY <1>1, <1>2, <1>3, Claimed
  <1>4. CASE call[r].kind = "cash" /\ Cash(r, s)
    <2> DEFINE row == Retyped(rows[s], call[r].vt)
    <2>1. /\ Active(s) /\ call[r].vt \in Types \cup {None} /\ call[r].paid \in Nat
          /\ row \in Row /\ row.status = "ACTIVE" /\ row.vt \in Types /\ Fee[row.vt] \in Nat
      BY <1>1, <1>2, <1>4, CallFields, RowChanges, Numbers DEF Matches, Active
    <2>2. CASE call[r].paid < Fee[row.vt]
      <3> DEFINE w == [stay |-> s, row |-> row, emoney |-> None]
      <3>1. w \in Work /\ work' = [work EXCEPT ![r] = w] /\ Goto(r, "commit")
        BY <1>4, <2>1, <2>2 DEF Cash, Writes, Work
      <3>2. work'[r] = w
        BY <3>1 DEF TypeOK
      <3>3. Prepared(r)'
        BY <3>2, <2>1 DEF Prepared
      <3> QED
        BY <1>3, <1>a, <1>4, <2>1, <3>1, <3>3 DEF Holding
    <2>3. CASE ~(call[r].paid < Fee[row.vt])
      <3> DEFINE done == Complete(row, "CASH", call[r].paid)
                 w == [stay |-> s, row |-> done, emoney |-> None]
      <3>1. /\ done \in Row /\ done.status = "COMPLETED" /\ done.method = "CASH"
            /\ done.paid = call[r].paid /\ done.vt = row.vt
        <4> HIDE DEF row
        <4> QED
          BY <2>1 DEF Complete, Row, Methods
      <3>2. w \in Work /\ work' = [work EXCEPT ![r] = w] /\ Goto(r, "store")
        BY <1>4, <2>1, <2>3, <3>1 DEF Cash, Writes, Work
      <3>3. work'[r] = w
        BY <3>2 DEF TypeOK
      <3>4. Prepared(r)'
        BY <3>1, <3>3, <2>1, <2>3 DEF Prepared
      <3> QED
        BY <1>3, <1>a, <1>4, <2>1, <3>2, <3>4 DEF Holding
    <2> QED
      BY <2>2, <2>3
  <1>5. CASE call[r].kind = "rfid" /\ Rfid(r, s)
    <2> DEFINE done == Complete(rows[s], "RFID_MEMBER", 0)
               w == [stay |-> s, row |-> done, emoney |-> None]
    <2>1. /\ Active(s) /\ done \in Row /\ done.status = "COMPLETED"
          /\ done.method = "RFID_MEMBER"
      <3>1. Active(s) /\ rows[s] \in Row
        BY <1>1, <1>2, <1>5 DEF Matches
      <3>2. "RFID_MEMBER" \in Methods /\ 0 \in Nat
        BY DEF Methods
      <3>3. QED
        BY <3>1, <3>2, RowChanges
    <2>2. w \in Work /\ work' = [work EXCEPT ![r] = w] /\ Goto(r, "store")
      BY <1>5, <2>1 DEF Rfid, Writes, Work
    <2>3. work'[r] = w
      BY <2>2 DEF TypeOK
    <2>4. Prepared(r)'
      BY <2>1, <2>3 DEF Prepared
    <2> QED
      BY <1>3, <1>a, <1>5, <2>1, <2>2, <2>4 DEF Holding
  <1>6. CASE call[r].kind = "arm" /\ Arm(r, s)
    <2> DEFINE row == Retyped(rows[s], call[r].vt)
               w == [stay |-> s, row |-> row, emoney |-> None]
    <2>1. /\ Active(s) /\ row \in Row /\ row.status = "ACTIVE"
      BY <1>1, <1>2, <1>6, CallFields, RowChanges DEF Matches, Active
    <2>2. w \in Work /\ work' = [work EXCEPT ![r] = w] /\ Goto(r, "arm")
      BY <1>6, <2>1 DEF Arm, Writes, Work
    <2>3. work'[r] = w
      BY <2>2 DEF TypeOK
    <2>4. Prepared(r)'
      BY <2>1, <2>3 DEF Prepared
    <2> QED
      BY <1>3, <1>a, <1>6, <2>1, <2>2, <2>4 DEF Holding
  <1>7. CASE call[r].kind = "result" /\ Result(r, s)
    <2> DEFINE q == call[r]
               row == IF q.card = None THEN rows[s] ELSE [rows[s] EXCEPT !.card = q.card]
               erow == [stay |-> s, amount |-> q.amount, status |-> q.status]
               done == Complete(row, "EMONEY", q.amount)
               w == [stay |-> s, row |-> IF q.status \in Paying THEN done ELSE row,
                     emoney |-> erow]
               l == IF q.status = "LOST_CONTACT" THEN "commit" ELSE "clear"
    <2>1. /\ q.status \in Statuses /\ q.card \in Cards \cup {None} /\ q.amount \in Amounts
          /\ q.amount \in Nat
      BY <1>2, <1>7, CallFields, Numbers
    <2>2. Active(s) /\ work' = [work EXCEPT ![r] = w] /\ Goto(r, l)
      BY <1>7 DEF Result, Writes
    <2>3. row \in Row /\ row.status = "ACTIVE"
      BY <1>2, <2>1, <2>2 DEF Row, Active
    <2>4. /\ done \in Row /\ done.status = "COMPLETED" /\ done.method = "EMONEY"
          /\ done.paid = q.amount
      <3>1. "EMONEY" \in Methods
        BY DEF Methods
      <3> HIDE DEF q, row
      <3> QED
        BY <2>1, <2>3, <3>1, RowChanges DEF done
    <2>5. erow \in EmoneyRow /\ erow # None
      BY <2>1, PaymentAssumption DEF EmoneyRow
    <2>6. w \in Work /\ w.stay = s
      BY <2>3, <2>4, <2>5 DEF Work
    <2>7. work'[r] = w
      BY <2>2 DEF TypeOK
    <2>8. Prepared(r)'
      BY <2>3, <2>4, <2>5, <2>7 DEF Prepared
    <2> QED
      BY <1>3, <1>a, <1>7, <2>2, <2>6, <2>8 DEF Holding
  <1> QED
    BY <1>1, <1>4, <1>5, <1>6, <1>7

-----------------------------------------------------------------------------
(* Commit: what was prepared becomes what is recorded *)

\* The deductions that paid for a stay, after a commit.
LEMMA PaidAfterCommit ==
    ASSUME IInv, NEW r \in Requests, Commit(r), NEW s \in Stays
    PROVE  LET erow == work[r].emoney
           IN  PaidRows(s)' = IF erow # None /\ erow.stay = s /\ erow.status \in Paying
                              THEN PaidRows(s) \cup {Len(emoney) + 1}
                              ELSE PaidRows(s)
  <1>1. emoney \in Seq(EmoneyRow) /\ work[r] \in Work
    BY DEF IInv, TypeOK, Commit, Holding
  <1>2. CASE work[r].emoney = None
    BY <1>2 DEF Commit, PaidRows
  <1>3. CASE work[r].emoney # None
    <2>1. work[r].emoney \in EmoneyRow /\ emoney' = Append(emoney, work[r].emoney)
      BY <1>1, <1>3 DEF Commit, Work
    <2>2. /\ DOMAIN emoney' = DOMAIN emoney \cup {Len(emoney) + 1}
          /\ Len(emoney) + 1 \notin DOMAIN emoney
          /\ emoney'[Len(emoney) + 1] = work[r].emoney
          /\ \A i \in DOMAIN emoney : emoney'[i] = emoney[i]
      BY <1>1, <2>1
    <2> QED
      BY <1>3, <2>2 DEF PaidRows
  <1> QED
    BY <1>2, <1>3

\* What BooksAgree says of one stay.
StayAgrees(s) ==
    IF ~Active(s) /\ rows[s].method = "EMONEY"
    THEN \E i \in PaidRows(s) : PaidRows(s) = {i} /\ emoney[i].amount = rows[s].paid
    ELSE PaidRows(s) = {}

\* A commit keeps the tables in agreement.
LEMMA CommitTables ==
    ASSUME IInv, NEW r \in Requests, Commit(r)
    PROVE  BooksAgree' /\ CashCovers'
  <1>1. /\ pc[r] \in Holding /\ work[r] \in Work
        /\ Active(work[r].stay) /\ Prepared(r)
    BY DEF IInv, TypeOK, LockHeld, AllPrepared, Commit, Holding
  <1>2. PICK t \in Stays, row \in Row, erow \in EmoneyRow \cup {None} :
            work[r].stay = t /\ work[r].row = row /\ work[r].emoney = erow
    BY <1>1 DEF Work
  <1>3. /\ rows'[t] = row /\ Active(t)
        /\ \A s \in Stays \ {t} : rows'[s] = rows[s]
    BY <1>1, <1>2 DEF Commit, IInv, TypeOK
  <1>4. PaidRows(t) = {}
    BY <1>3 DEF IInv, BooksAgree
  <1>5. /\ erow # None => erow.stay = t
        /\ row.status = "ACTIVE" => erow = None \/ erow.status \notin Paying
        /\ row.status = "COMPLETED" /\ row.method = "EMONEY" =>
               erow # None /\ erow.status \in Paying /\ erow.amount = row.paid
        /\ row.status = "COMPLETED" /\ row.method # "EMONEY" => erow = None
        /\ row.status = "COMPLETED" /\ row.method = "CASH" => row.paid >= Fee[row.vt]
    BY <1>1, <1>2 DEF Prepared
  <1>6. CashCovers'
    BY <1>3, <1>5 DEF IInv, CashCovers, Active, Row
  <1>7. /\ emoney \in Seq(EmoneyRow)
        /\ emoney' = IF erow = None THEN emoney ELSE Append(emoney, erow)
    BY <1>2 DEF IInv, TypeOK, Commit
  <1>8. /\ \A i \in DOMAIN emoney : emoney'[i] = emoney[i]
        /\ erow # None => emoney'[Len(emoney) + 1] = erow
    BY <1>7
  <1>9. ASSUME NEW s \in Stays \ {t}
        PROVE  StayAgrees(s)'
    <2>1. PaidRows(s)' = PaidRows(s)
      BY <1>2, <1>5, PaidAfterCommit
    <2>2. \A i \in PaidRows(s) : emoney'[i] = emoney[i]
      BY <1>8 DEF PaidRows
    <2> QED
      BY <1>3, <2>1, <2>2 DEF IInv, BooksAgree, StayAgrees, Active
  <1>10. StayAgrees(t)'
    <2>1. PaidRows(t)' = IF erow # None /\ erow.status \in Paying THEN {Len(emoney) + 1} ELSE {}
      BY <1>2, <1>4, <1>5, PaidAfterCommit
    <2>2. CASE row.status = "COMPLETED" /\ row.method = "EMONEY"
      BY <1>3, <1>5, <1>8, <2>1, <2>2 DEF StayAgrees, Active
    <2>3. CASE row.status = "COMPLETED" /\ row.method # "EMONEY"
      BY <1>3, <1>5, <2>1, <2>3 DEF StayAgrees, Active
    <2>4. CASE row.status = "ACTIVE"
      BY <1>3, <1>5, <2>1, <2>4 DEF StayAgrees, Active
    <2> QED
      BY <2>2, <2>3, <2>4 DEF Row
  <1>11. BooksAgree'
    BY <1>9, <1>10 DEF BooksAgree, StayAgrees
  <1> QED
    BY <1>6, <1>11

\* A commit releases the lock and forgets the request.
LEMMA CommitStep ==
    ASSUME IInv, NEW r \in Requests, Commit(r)
    PROVE  IInv'
  <1> USE DEF IInv
  <1>1. /\ pc[r] \in Holding /\ work[r] \in Work
        /\ owner[work[r].stay] = r
    BY DEF TypeOK, LockHeld, Commit, Holding
  <1>2. /\ pc' = [pc EXCEPT ![r] = "free"] /\ call' = [call EXCEPT ![r] = None]
        /\ got' = [got EXCEPT ![r] = None] /\ work' = [work EXCEPT ![r] = None]
        /\ owner' = Unlocked(r) /\ UNCHANGED <<pending, cache, jobs>>
    BY DEF Commit, Forget, Goto
  <1>3. /\ pc'[r] = "free"
        /\ \A q \in Requests \ {r} : pc'[q] = pc[q] /\ call'[q] = call[q]
                                     /\ got'[q] = got[q] /\ work'[q] = work[q]
    BY <1>2 DEF TypeOK
  <1>4. /\ rows' \in [Stays -> Row] /\ emoney' \in Seq(EmoneyRow)
        /\ \A s \in Stays : owner[s] # r => rows'[s] = rows[s]
    <2>1. rows' \in [Stays -> Row] /\ \A s \in Stays : owner[s] # r => rows'[s] = rows[s]
      BY <1>1 DEF TypeOK, Commit, Work
    <2>2. emoney' \in Seq(EmoneyRow)
      BY <1>1 DEF TypeOK, Commit, Work
    <2> QED
      BY <2>1, <2>2
  <1>5. TypeOK'
    <2>1. /\ call' \in [Requests -> Calls \cup {None}]
          /\ work' \in [Requests -> Work \cup {None}]
          /\ got' \in [Requests -> Stays \cup {None}]
          /\ pc' \in [Requests -> Labels]
      BY <1>2 DEF TypeOK, Labels
    <2>2. owner' \in [Stays -> Requests \cup {None}]
      BY <1>2 DEF TypeOK, Unlocked
    <2>3. \A q \in Requests : /\ pc'[q] # "free" => call'[q] \in Calls
                              /\ pc'[q] \in Holding => work'[q] \in Work
      BY <1>3 DEF TypeOK, Holding
    <2>4. /\ pending' \in [Gates -> Stays \cup {None}] /\ cache' \subseteq Stays \cup Cards
          /\ jobs' \subseteq Peripherals \X Stays
      BY <1>2 DEF TypeOK
    <2> HIDE DEF IInv
    <2> QED
      BY <1>4, <2>1, <2>2, <2>3, <2>4 DEF TypeOK
  <1>6. LockHeld'
    <2>1. \A s \in Stays : owner'[s] = (IF owner[s] = r THEN None ELSE owner[s])
      BY <1>2 DEF Unlocked
    <2>2. ASSUME NEW q \in Requests, pc'[q] \in Holding
          PROVE  (owner[work[q].stay] = q /\ Active(work[q].stay))'
      <3>1. q # r /\ pc[q] \in Holding /\ work'[q] = work[q]
        BY <1>3, <2>2 DEF Holding
      <3>2. work[q].stay \in Stays /\ owner[work[q].stay] = q /\ Active(work[q].stay)
        BY <3>1 DEF LockHeld, TypeOK, Work
      <3> QED
        BY <1>4, <2>1, <3>1, <3>2 DEF Active
    <2>3. ASSUME NEW s \in Stays, owner'[s] # None
          PROVE  (pc[owner[s]] \in Holding /\ work[owner[s]].stay = s)'
      <3>1. owner[s] # r /\ owner'[s] = owner[s] /\ owner[s] \in Requests
        BY <2>1, <2>3 DEF TypeOK
      <3> QED
        BY <1>3, <2>3, <3>1 DEF LockHeld
    <2> QED
      BY <2>2, <2>3 DEF LockHeld
  <1>7. AllRouted'
    BY <1>3 DEF AllRouted, Routed
  <1>8. AllPrepared'
    BY <1>3 DEF AllPrepared, Prepared, Holding
  <1> QED
    BY <1>5, <1>6, <1>7, <1>8, CommitTables

-----------------------------------------------------------------------------
(* The invariant *)

\* Before any request the tables are open and empty.
LEMMA InitInv ==
    ASSUME Init PROVE IInv
  <1>1. TypeOK
    <2>1. rows \in [Stays -> Row]
      BY PaymentAssumption DEF Init, Row, Methods
    <2> QED
      BY <2>1, PaymentAssumption DEF Init, TypeOK, Labels, Holding
  <1>2. \A r \in Requests : pc[r] = "free"
    BY DEF Init
  <1>3. \A s \in Stays : Active(s) /\ owner[s] = None
    BY DEF Init, Active
  <1>4. LockHeld /\ AllRouted /\ AllPrepared
    BY <1>2, <1>3 DEF LockHeld, AllRouted, Routed, AllPrepared, Holding
  <1>5. BooksAgree /\ CashCovers
    <2>1. \A s \in Stays : PaidRows(s) = {}
      BY DEF Init, PaidRows
    <2> QED
      BY <1>3, <2>1 DEF BooksAgree, CashCovers
  <1> QED
    BY <1>1, <1>4, <1>5 DEF IInv

\* Every step keeps the invariant.
LEMMA NextInv ==
    ASSUME IInv, [Next]_vars PROVE IInv'
  <1>1. ASSUME NEW r \in Requests, Step(r) PROVE IInv'
    <2>1. CASE Find(r)
      BY <2>1, FindStep
    <2>2. CASE NotFound(r) \/ CardRefused(r)
      <3>1. /\ pc[r] = "find" /\ Forget(r)
            /\ UNCHANGED <<rows, emoney, owner, pending, cache, jobs>>
        BY <2>2 DEF NotFound, CardRefused
      <3>2. owner' = Unlocked(r)
        BY <3>1, NothingToUnlock DEF IInv, Holding
      <3> QED
        BY <3>1, <3>2, Dropped DEF IInv, TypeOK
    <2>3. CASE ResultTooLate(r)
      <3>1. pc[r] = "find" /\ Forget(r) /\ UNCHANGED <<rows, emoney, owner, cache, jobs>>
        BY <2>3 DEF ResultTooLate
      <3>2. owner' = Unlocked(r)
        BY <3>1, NothingToUnlock DEF IInv, Holding
      <3>3. /\ pending' \in [Gates -> Stays \cup {None}] /\ cache' \subseteq Stays \cup Cards
            /\ jobs' \subseteq Peripherals \X Stays
        BY <2>3 DEF ResultTooLate, IInv, TypeOK
      <3> QED
        BY <3>1, <3>2, <3>3, Dropped
    <2>4. CASE SetPending(r)
      <3>1. /\ pending' \in [Gates -> Stays \cup {None}] /\ cache' \subseteq Stays \cup Cards
            /\ jobs' \subseteq Peripherals \X Stays
        <4>1. call[r] \in Calls /\ call[r].kind = "arm"
          BY <2>4 DEF SetPending, IInv, TypeOK, AllRouted, Routed
        <4>2. call[r].stay \in Stays
          BY <4>1, CallFields
        <4> QED
          BY <2>4, <4>2 DEF SetPending, IInv, TypeOK
      <3> QED
        BY <2>4, <3>1, Keys DEF SetPending, Holding
    <2>5. CASE ClearPending(r)
      <3>1. /\ pending' \in [Gates -> Stays \cup {None}] /\ cache' \subseteq Stays \cup Cards
            /\ jobs' \subseteq Peripherals \X Stays
        <4>1. work[r].stay \in Stays
          BY <2>5 DEF ClearPending, IInv, TypeOK, Holding, Work
        <4> QED
          BY <2>5, <4>1, EnqueueType DEF ClearPending, IInv, TypeOK
      <3> QED
        BY <2>5, <3>1, Keys DEF ClearPending, Holding
    <2>6. CASE StoreIdempotency(r)
      <3>1. /\ pending' \in [Gates -> Stays \cup {None}] /\ cache' \subseteq Stays \cup Cards
            /\ jobs' \subseteq Peripherals \X Stays
        BY <2>6 DEF StoreIdempotency, Key, IInv, TypeOK
      <3> QED
        BY <2>6, <3>1, Keys DEF StoreIdempotency, Holding
    <2>7. CASE Commit(r)
      BY <2>7, CommitStep
    <2> QED
      BY <1>1, <2>1, <2>2, <2>3, <2>4, <2>5, <2>6, <2>7 DEF Step
  <1>2. ASSUME NEW r \in Requests, Abort(r) PROVE IInv'
    BY <1>2, Dropped DEF Abort, IInv, TypeOK
  <1>3. CASE Expire
    <2>1. /\ UNCHANGED <<rows, emoney, owner, pc, call, got, work>>
          /\ pending' \in [Gates -> Stays \cup {None}] /\ cache' \subseteq Stays \cup Cards
          /\ jobs' \subseteq Peripherals \X Stays
      BY <1>3 DEF Expire, IInv, TypeOK
    <2> QED
      BY <2>1, KeyExpired
  <1>4. ASSUME NEW r \in Requests, NEW q \in Calls, Receive(r, q) PROVE IInv'
    BY <1>4, Received
  <1>5. CASE UNCHANGED vars
    <2>1. /\ UNCHANGED <<rows, emoney, owner, pc, call, got, work>>
          /\ pending' \in [Gates -> Stays \cup {None}] /\ cache' \subseteq Stays \cup Cards
          /\ jobs' \subseteq Peripherals \X Stays
      BY <1>5 DEF vars, IInv, TypeOK
    <2> QED
      BY <2>1, KeyExpired
  <1> QED
    BY <1>1, <1>2, <1>3, <1>4, <1>5 DEF Next, ApiNext

-----------------------------------------------------------------------------
(* The theorems *)

\* Every reachable state of the payment routes satisfies the inductive invariant.
THEOREM Invariance == Spec => []IInv
  BY InitInv, NextInv, PTL DEF Spec

\* Type correctness.
THEOREM PaymentTypes == Spec => []TypeOK
  BY Invariance, PTL DEF IInv

\* SELECT ... FOR UPDATE serialises the requests on a row: whoever is about to
\* commit still has the row it read, however many requests run at once.
THEOREM NoLostUpdate == Spec => []LockHeld
  BY Invariance, PTL DEF IInv

\* The two tables agree for any number of bookings, retries and rollbacks.
THEOREM TablesAgree == Spec => []BooksAgree
  BY Invariance, PTL DEF IInv

\* No cash exit for less than the fee.
THEOREM CashIsEnough == Spec => []CashCovers
  BY Invariance, PTL DEF IInv

-----------------------------------------------------------------------------
(* The payment routes implement the ledger *)

\* The ledger's view of the tables, as Payment maps it.
Book == [s \in Stays |-> IF Active(s) THEN "open" ELSE rows[s].method]

\* A step that leaves the table of stays alone leaves the ledger alone.
LEMMA SameBook ==
    ASSUME rows' = rows PROVE Book' = Book
  BY DEF Book, Active

\* A commit settles one open stay, or leaves it open.
LEMMA CommitSettles ==
    ASSUME IInv, NEW r \in Requests, Commit(r)
    PROVE  Books!LNext \/ Book' = Book
  <1>1. PICK t \in Stays, row \in Row :
            /\ work[r].stay = t /\ work[r].row = row /\ Active(t)
            /\ rows' = [rows EXCEPT ![t] = row]
    BY DEF IInv, TypeOK, LockHeld, Commit, Holding, Work
  <1>2. rows'[t] = row /\ \A s \in Stays \ {t} : rows'[s] = rows[s]
    BY <1>1 DEF IInv, TypeOK
  <1>3. CASE row.status = "ACTIVE"
    BY <1>1, <1>2, <1>3 DEF Book, Active
  <1>4. CASE row.status = "COMPLETED"
    <2>1. row.method \in Methods
      BY DEF Row
    <2>2. Book[t] = "open" /\ Book' = [Book EXCEPT ![t] = row.method]
      <3> DEFINE View(x) == IF x.status = "ACTIVE" THEN "open" ELSE x.method
      <3>1. /\ Book = [s \in Stays |-> View(rows[s])]
            /\ Book' = [s \in Stays |-> View(rows'[s])]
        BY DEF Book, Active
      <3>2. View(rows[t]) = "open" /\ View(row) = row.method
        BY <1>1, <1>4 DEF Active
      <3> HIDE DEF View
      <3> QED
        BY <1>2, <3>1, <3>2
    <2>3. Books!Settle(t, row.method)
      BY <2>2 DEF Books!Settle, Book
    <2> QED
      BY <2>1, <2>3 DEF Books!LNext
  <1> QED
    BY <1>3, <1>4 DEF Row

\* Only a commit touches the books.
LEMMA StepSettles ==
    ASSUME IInv, [Next]_vars
    PROVE  Books!LNext \/ Book' = Book
  <1>1. ASSUME NEW r \in Requests, Step(r)
        PROVE  Books!LNext \/ Book' = Book
    <2>1. CASE Commit(r)
      BY <2>1, CommitSettles
    <2>2. CASE ~Commit(r)
      <3>1. rows' = rows
        BY <1>1, <2>2 DEF Step, Find, NotFound, ResultTooLate, CardRefused, SetPending,
                          ClearPending, StoreIdempotency
      <3> QED
        BY <3>1, SameBook
    <2> QED
      BY <2>1, <2>2
  <1>2. ASSUME NEW r \in Requests, Abort(r) \/ (\E q \in Calls : Receive(r, q))
        PROVE  rows' = rows
    BY <1>2 DEF Abort, Receive
  <1>3. Expire \/ UNCHANGED vars => rows' = rows
    BY DEF Expire, vars
  <1> QED
    BY <1>1, <1>2, <1>3, SameBook DEF Next, ApiNext

\* The payment routes, with their locks, caches, retries and rollbacks, implement
\* the ledger: every stay is settled once, by one method, and never reopened.
THEOREM ImplementsLedger == Spec => SettledOnce
  <1>1. Init => Books!LInit
    BY DEF Init, Books!LInit, Active
  <1>2. IInv /\ [Next]_vars => [Books!LNext]_Book
    BY StepSettles
  <1> QED
    BY <1>1, <1>2, Invariance, PTL DEF Spec, SettledOnce, Books!LSpec, Book

\* A closed stay and a recorded deduction are never written again.
BooksStand ==
    /\ \A s \in Stays : ~Active(s) => rows'[s] = rows[s]
    /\ \A i \in DOMAIN emoney : i \in DOMAIN emoney' /\ emoney'[i] = emoney[i]

\* However many requests, retries and rollbacks there are, what has been closed keeps its
\* amount, its method, its vehicle type and its card, and what the booth has reported
\* stays on record: every write is of a row that was locked ACTIVE and still is
\* (payment.py, with_for_update).
THEOREM ClosedForGood == Spec => [][BooksStand]_vars
  <1>1. IInv /\ [Next]_vars => [BooksStand]_vars
    <2> SUFFICES ASSUME IInv, [Next]_vars PROVE BooksStand \/ UNCHANGED vars
      OBVIOUS
    <2>1. ASSUME NEW r \in Requests, Commit(r) PROVE BooksStand
      <3>1. PICK t \in Stays : /\ work[r].stay = t /\ Active(t)
                               /\ rows' = [rows EXCEPT ![t] = work[r].row]
        BY <2>1 DEF IInv, TypeOK, LockHeld, Commit, Holding, Work
      <3>2. \A s \in Stays : ~Active(s) => rows'[s] = rows[s]
        BY <3>1 DEF IInv, TypeOK
      <3>3. emoney \in Seq(EmoneyRow) /\ (work[r].emoney = None \/ work[r].emoney \in EmoneyRow)
        BY <2>1 DEF IInv, TypeOK, Commit, Holding, Work
      <3>4. PICK e : e = work[r].emoney
        OBVIOUS
      <3>5. emoney' = emoney \/ (e \in EmoneyRow /\ emoney' = Append(emoney, e))
        BY <2>1, <3>3, <3>4 DEF Commit
      <3>6. \A i \in DOMAIN emoney : i \in DOMAIN emoney' /\ emoney'[i] = emoney[i]
        BY <3>3, <3>5
      <3> QED
        BY <3>2, <3>6 DEF BooksStand
    <2>2. ASSUME NEW r \in Requests, Step(r) \/ Abort(r) \/ (\E q \in Calls : Receive(r, q)), ~Commit(r)
          PROVE  UNCHANGED <<rows, emoney>>
      BY <2>2 DEF Step, Find, NotFound, ResultTooLate, CardRefused, SetPending, ClearPending,
                  StoreIdempotency, Abort, Receive
    <2>3. Expire => UNCHANGED <<rows, emoney>>
      BY DEF Expire
    <2>4. UNCHANGED <<rows, emoney>> => BooksStand
      BY DEF BooksStand
    <2> QED
      BY <2>1, <2>2, <2>3, <2>4 DEF Next, ApiNext, Step
  <1> QED
    BY <1>1, Invariance, PTL DEF Spec

=============================================================================
