---------------------------- MODULE ServerProofs ----------------------------
(***************************************************************************)
(* Proofs about the API server's protocols that read, check and commit     *)
(* without a lock: edits of configuration rows (Config), the set-up wizard *)
(* (Setup) and worker sessions (WorkerSession), for any number of requests *)
(* handled at a time; about the migrations of its tables (Migration); and  *)
(* about the server as a whole (MCServer).                                 *)
(***************************************************************************)
EXTENDS MCServer, AccessProofs

-----------------------------------------------------------------------------
(* Configuration rows *)

\* The columns of an edit in flight that no other edit has touched since.
Alone(e) == Touched(edit[e].set) \ crossed

\* Two edits in flight touch a common column only if it counts as crossed.
Apart == \A e, o \in Editors : e # o => Alone(e) \cap Touched(edit[o].set) = {}

\* What an edit read of such a column is still in the row.
Fresh ==
    exists => \A e \in Editors, f \in Fields :
                  ColumnOf(f) \in Alone(e) => edit[e].read[f] = row[f]

ConfigInv == ConfigTypeOK /\ Apart /\ Fresh /\ ColumnsKept

\* An UPDATE names no column the request has not set a field of.
LEMMA WrittenTouched ==
    ASSUME NEW r \in [read : [Fields -> Values], set : SUBSET Fields, value : Values]
    PROVE  Written(r) \subseteq Touched(r.set)
  BY DEF Written, Touched, Desired, Fields, ColumnOf

\* A column the UPDATE leaves out would be written as it was read.
LEMMA NotWritten ==
    ASSUME NEW r, NEW f \in Fields, ColumnOf(f) \notin Written(r)
    PROVE  Desired(r, f) = r.read[f]
  BY DEF Written, Columns

\* Every step of the configuration routes keeps the invariant.
LEMMA ConfigStep == ConfigInv /\ [ConfigNext]_configVars => ConfigInv'
  <1> SUFFICES ASSUME ConfigInv, [ConfigNext]_configVars PROVE ConfigInv'
    OBVIOUS
  <1> USE ConfigAssumption
  <1> DEFINE Edit == [read : [Fields -> Values], set : SUBSET Fields, value : Values]
  <1>0. /\ row \in [Fields -> Values] /\ acked \in [Fields -> Values] /\ edits \in 0..MaxEdits
        /\ edit \in [Editors -> Edit] /\ crossed \subseteq Columns /\ exists \in BOOLEAN
    BY DEF ConfigInv, ConfigTypeOK
  <1>n. NoEdit \in Edit /\ Touched(NoEdit.set) = {} /\ NoEdit.set = {}
    BY DEF NoEdit, Touched, Values
  <1>1. ASSUME NEW e \in Editors, ReadRow(e) PROVE ConfigInv'
    <2>0. /\ exists /\ UNCHANGED <<exists, row, edits, acked>> /\ edit[e] = NoEdit
      BY <1>1 DEF ReadRow
    <2>1. PICK fs \in Edits, v \in Values :
            /\ edit' = [edit EXCEPT ![e] = [read |-> row, set |-> fs, value |-> v]]
            /\ crossed' = crossed \cup
                 {c \in Touched(fs) : \E o \in Editors \ {e} : c \in Touched(edit[o].set)}
      BY <1>1 DEF ReadRow
    <2>2. fs \in SUBSET Fields /\ Touched(fs) \subseteq Columns
      BY DEF Edits, Fields, Touched, Columns
    <2>3. [read |-> row, set |-> fs, value |-> v] \in Edit
      BY <1>0, <2>2
    <2>4. /\ edit'[e] = [read |-> row, set |-> fs, value |-> v]
          /\ \A o \in Editors \ {e} : edit'[o] = edit[o]
      BY <1>0, <2>1
    <2>5. ConfigTypeOK'
      BY <1>0, <2>0, <2>1, <2>2, <2>3 DEF ConfigTypeOK
    <2>6. Apart'
      <3> SUFFICES ASSUME NEW o \in Editors, NEW p \in Editors, o # p,
                          NEW c, c \in Touched(edit'[o].set), c \in Touched(edit'[p].set)
                   PROVE  c \in crossed'
        BY DEF Apart, Alone
      <3>1. CASE o = e
        BY <2>1, <2>4, <3>1
      <3>2. CASE p = e
        BY <2>1, <2>4, <3>2
      <3>3. CASE o # e /\ p # e
        BY <2>1, <2>4, <3>3 DEF ConfigInv, Apart, Alone
      <3> QED
        BY <3>1, <3>2, <3>3
    <2>7. Fresh'
      BY <2>0, <2>1, <2>4 DEF ConfigInv, Fresh, Alone
    <2>8. ColumnsKept'
      BY <2>0, <2>1 DEF ConfigInv, ColumnsKept
    <2> QED
      BY <2>5, <2>6, <2>7, <2>8 DEF ConfigInv
  <1>2. ASSUME NEW e \in Editors, CommitEdit(e) PROVE ConfigInv'
    <2>0. /\ edit' = [edit EXCEPT ![e] = NoEdit] /\ UNCHANGED <<exists, crossed>>
          /\ edits < MaxEdits
      BY <1>2 DEF CommitEdit
    <2>1. edit'[e] = NoEdit /\ \A o \in Editors \ {e} : edit'[o] = edit[o]
      BY <1>0, <2>0
    <2>2. Apart'
      BY <1>n, <2>0, <2>1 DEF ConfigInv, Apart, Alone
    <2>3. CASE ~exists
      <3>1. UNCHANGED <<row, acked, edits>>
        BY <1>2, <2>3 DEF CommitEdit
      <3> QED
        BY <1>0, <1>n, <2>0, <2>2, <2>3, <3>1 DEF ConfigInv, ConfigTypeOK, Fresh, ColumnsKept
    <2>4. CASE exists
      <3> DEFINE r == edit[e]
      <3>0. r \in Edit
        BY <1>0
      <3>1. /\ row' = [f \in Fields |-> IF ColumnOf(f) \in Written(r) THEN Desired(r, f) ELSE row[f]]
            /\ acked' = [f \in Fields |-> IF f \in r.set THEN r.value ELSE acked[f]]
            /\ edits' = edits + 1
        BY <1>2, <2>4 DEF CommitEdit
      <3>2. \A f \in Fields : Desired(r, f) \in Values /\ r.value \in Values
        BY <3>0 DEF Desired
      <3>3. ConfigTypeOK'
        <4>1. row' \in [Fields -> Values] /\ acked' \in [Fields -> Values]
          BY <1>0, <3>1, <3>2
        <4>2. edit' \in [Editors -> Edit]
          BY <1>0, <1>n, <2>0
        <4>3. edits' \in 0..MaxEdits
          BY <1>0, <2>0, <3>1
        <4> QED
          BY <1>0, <2>0, <4>1, <4>2, <4>3 DEF ConfigTypeOK
      <3>4. Written(r) \subseteq Touched(r.set)
        BY <3>0, WrittenTouched
      <3>5. Fresh'
        <4> SUFFICES ASSUME NEW o \in Editors, NEW f \in Fields, ColumnOf(f) \in Alone(o)'
                     PROVE  edit'[o].read[f] = row'[f]
          BY DEF Fresh
        <4>1. o # e /\ edit'[o] = edit[o] /\ ColumnOf(f) \in Alone(o)
          BY <1>n, <2>0, <2>1 DEF Alone
        <4>2. ColumnOf(f) \notin Written(r)
          BY <3>4, <4>1 DEF ConfigInv, Apart
        <4> QED
          BY <2>4, <3>1, <4>1, <4>2 DEF ConfigInv, Fresh
      <3>6. ColumnsKept'
        <4> SUFFICES ASSUME NEW f \in Fields, ColumnOf(f) \notin crossed PROVE row'[f] = acked'[f]
          BY <2>0 DEF ColumnsKept
        <4>1. row[f] = acked[f]
          BY <2>4 DEF ConfigInv, ColumnsKept
        <4>2. CASE ColumnOf(f) \in Touched(r.set)
          <5>1. r.read[f] = row[f]
            BY <2>4, <4>2 DEF ConfigInv, Fresh, Alone
          <5>2. row'[f] = Desired(r, f)
            BY <3>1, <5>1, NotWritten
          <5> QED
            BY <3>1, <4>1, <5>1, <5>2 DEF Desired
        <4>3. CASE ColumnOf(f) \notin Touched(r.set)
          <5>1. ColumnOf(f) \notin Written(r) /\ f \notin r.set
            BY <3>4, <4>3 DEF Touched
          <5> QED
            BY <3>1, <4>1, <5>1
        <4> QED
          BY <4>2, <4>3
      <3> QED
        BY <2>2, <3>3, <3>5, <3>6 DEF ConfigInv
    <2> QED
      BY <2>3, <2>4
  <1>3. CASE DeleteRow
    BY <1>3 DEF DeleteRow, ConfigInv, ConfigTypeOK, Apart, Fresh, ColumnsKept, Alone
  <1>4. CASE CreateRow
    <2>1. row' \in [Fields -> Values] /\ acked' = row' /\ exists'
      BY <1>4 DEF CreateRow, Values
    <2>2. UNCHANGED <<edit, edits, crossed>> /\ \A e \in Editors : edit[e] = NoEdit
      BY <1>4 DEF CreateRow
    <2>3. Apart' /\ Fresh'
      BY <1>n, <2>2 DEF Apart, Fresh, Alone
    <2> QED
      BY <1>0, <2>1, <2>2, <2>3 DEF ConfigInv, ConfigTypeOK, ColumnsKept
  <1>5. CASE UNCHANGED configVars
    BY <1>5 DEF configVars, ConfigInv, ConfigTypeOK, Apart, Fresh, ColumnsKept, Alone
  <1> QED
    BY <1>1, <1>2, <1>3, <1>4, <1>5 DEF ConfigNext

\* The invariant holds before the first request, and therefore always.
LEMMA ConfigInvariant == ConfigSpec => []ConfigInv
  <1>1. ConfigInit => ConfigInv
    <2> SUFFICES ASSUME ConfigInit PROVE ConfigInv
      OBVIOUS
    <2>1. NoEdit \in [read : [Fields -> Values], set : SUBSET Fields, value : Values]
      BY DEF NoEdit, Values
    <2>2. Touched(NoEdit.set) = {}
      BY DEF NoEdit, Touched
    <2>3. ConfigTypeOK
      BY <2>1, ConfigAssumption DEF ConfigInit, ConfigTypeOK, Values
    <2> QED
      BY <2>2, <2>3 DEF ConfigInit, ConfigInv, Apart, Fresh, ColumnsKept, Alone
  <1> QED
    BY <1>1, ConfigStep, PTL DEF ConfigSpec

\* However many requests read and commit in whatever order, an acknowledged edit
\* stands until a later edit of its column, unless two edits of that column overlap:
\* SQLAlchemy's UPDATE names the changed columns only (crud_factory.py update_item,
\* pos.py booth_heartbeat).
THEOREM EditsStand == ConfigSpec => []ColumnsKept
  <1>1. ConfigInv => ColumnsKept
    BY DEF ConfigInv
  <1> QED
    BY <1>1, ConfigInvariant, PTL

\* The row and the edits in flight keep their types through every PATCH, heartbeat
\* and DELETE (crud_factory.py).
THEOREM ConfigTyped == ConfigSpec => []ConfigTypeOK
  <1>1. ConfigInv => ConfigTypeOK
    BY DEF ConfigInv
  <1> QED
    BY <1>1, ConfigInvariant, PTL

-----------------------------------------------------------------------------
(* The set-up wizard *)

Kinds == {"none", "session", "admin", "state", "gates", "script", "mark", "drop", "sent", "wait"}

AskOf(n) == [op : Kinds, saw : SUBSET (Steps \cup Codes), step : SUBSET (Steps \cup Codes),
             session : 0..n]

\* The types, without the bounds on sessions and admins, which take counting.
SetupTypes ==
    /\ token \in BOOLEAN /\ mints \in 0..MaxMints /\ opened \in Nat
    /\ wizard \in [saved : SUBSET Steps, there : BOOLEAN]
    /\ admins \in Nat /\ codes \subseteq Codes
    /\ complete \in BOOLEAN /\ enabled \in BOOLEAN /\ clash \in BOOLEAN
    /\ ask \in [SetupSlots -> AskOf(opened)]
    /\ command \in 0..MaxCommands
    /\ kept \subseteq Steps /\ verdict \in {"none", "ok", "wrong", "timeout"}

\* A save carries a step of the wizard, and what it read were such steps; a request
\* for gates carries codes.
Carries ==
    \A q \in SetupSlots :
        /\ ask[q].op = "state" => ask[q].saw \subseteq Steps /\ ask[q].step \subseteq Steps
        /\ ask[q].op = "gates" => ask[q].step \subseteq Codes

\* The requests at a stage.
Doing(k) == {q \in SetupSlots : ask[q].op = k}

\* Every token written is behind one of: the file, a request that has redeemed it, a
\* session.
TokensCounted ==
    opened + Cardinality(Doing("session")) + (IF token THEN 1 ELSE 0) <= mints

\* Admins come from requests that found none.
AdminsCounted == admins + Cardinality(Doing("admin")) <= Cardinality(SetupSlots)

\* The script has succeeded before a request marks the set-up complete.
ScriptFirst ==
    /\ complete => enabled
    /\ \A q \in SetupSlots : ask[q].op \in {"mark", "drop"} => enabled

\* Without overlap one request at most is about to create the admin, and none once
\* there is one.
AdminAlone ==
    ~clash => /\ \A p, q \in Doing("admin") : p = q
              /\ admins = 0 \/ (admins = 1 /\ Doing("admin") = {})

\* Without overlap one request at most is about to save a step, and what it has read
\* is what is saved, as long as its session is the wizard's.
SaveAlone ==
    ~clash => /\ \A p, q \in Doing("state") : p = q
              /\ \A q \in Doing("state") : Mine(ask[q]) => ask[q].saw = wizard.saved

SetupInv ==
    /\ SetupTypes /\ Carries /\ TokensCounted /\ AdminsCounted /\ ScriptFirst
    /\ AdminAlone /\ SaveAlone /\ StepsKept /\ verdict # "wrong"

\* The request of slot q is replaced: it leaves its stage and is at the new one.
LEMMA SlotMoved ==
    ASSUME NEW n, ask \in [SetupSlots -> AskOf(n)], NEW q \in SetupSlots, NEW r,
           ask' = [ask EXCEPT ![q] = r]
    PROVE  /\ ask'[q] = r /\ \A p \in SetupSlots \ {q} : ask'[p] = ask[p]
           /\ \A k : Doing(k)' = IF r.op = k THEN Doing(k) \cup {q} ELSE Doing(k) \ {q}
  <1>1. /\ ask'[q] = r /\ \A p \in SetupSlots \ {q} : ask'[p] = ask[p]
    OBVIOUS
  <1> QED
    BY <1>1 DEF Doing

\* The stage alone is changed.
LEMMA StageMoved ==
    ASSUME NEW n, ask \in [SetupSlots -> AskOf(n)], NEW q \in SetupSlots, NEW k \in Kinds, On(q, k)
    PROVE  \E r \in AskOf(n) : /\ ask' = [ask EXCEPT ![q] = r] /\ r.op = k
                               /\ r.saw = ask[q].saw /\ r.step = ask[q].step
                               /\ r.session = ask[q].session
  <1> DEFINE r == [ask[q] EXCEPT !.op = k]
  <1>1. ask[q] \in AskOf(n)
    OBVIOUS
  <1>2. /\ r \in AskOf(n) /\ r.op = k /\ r.saw = ask[q].saw /\ r.step = ask[q].step
        /\ r.session = ask[q].session
    BY <1>1 DEF AskOf
  <1>3. ask' = [ask EXCEPT ![q] = r]
    BY DEF On
  <1> QED
    BY <1>2, <1>3

\* The stages hold finitely many requests.
LEMMA DoingFinite ==
    ASSUME NEW k
    PROVE  /\ IsFiniteSet(Doing(k)) /\ Cardinality(Doing(k)) \in Nat
           /\ Cardinality(SetupSlots) \in Nat /\ Cardinality(Doing(k)) <= Cardinality(SetupSlots)
  <1>1. Doing(k) \in SUBSET SetupSlots
    BY DEF Doing
  <1> QED
    BY <1>1, SetupAssumption, FS_Subset, FS_CardinalityType

\* The states the wizard starts in.
LEMMA SetupStart == SetupInit => SetupInv
  <1> SUFFICES ASSUME SetupInit PROVE SetupInv
    OBVIOUS
  <1>0. \A k : k # "none" => Doing(k) = {}
    BY DEF SetupInit, Doing, NoAsk
  <1>1. ask \in [SetupSlots -> AskOf(opened)]
    BY DEF SetupInit, NoAsk, AskOf, Kinds
  <1>2. wizard \in [saved : SUBSET Steps, there : BOOLEAN]
    BY DEF SetupInit, NoWizard
  <1>3. SetupTypes
    <2>1. token \in BOOLEAN /\ complete \in BOOLEAN /\ enabled \in BOOLEAN /\ clash \in BOOLEAN
      BY DEF SetupInit
    <2>2. mints \in 0..MaxMints /\ opened \in Nat /\ admins \in Nat /\ command \in 0..MaxCommands
      BY SetupAssumption DEF SetupInit
    <2> QED
      BY <1>1, <1>2, <2>1, <2>2 DEF SetupInit, SetupTypes
  <1>4. Cardinality(Doing("session")) = 0 /\ Cardinality(Doing("admin")) = 0
    BY <1>0, FS_EmptySet
  <1>5. TokensCounted /\ AdminsCounted
    BY <1>4, DoingFinite DEF SetupInit, TokensCounted, AdminsCounted
  <1>6. Carries /\ ScriptFirst
    BY DEF SetupInit, Carries, ScriptFirst, NoAsk
  <1>7. AdminAlone /\ SaveAlone
    BY <1>0 DEF SetupInit, AdminAlone, SaveAlone
  <1> QED
    BY <1>3, <1>5, <1>6, <1>7 DEF SetupInit, SetupInv, StepsKept

\* No token is written or redeemed and no session created.
LEMMA TokensKept ==
    ASSUME SetupTypes, TokensCounted, Doing("session")' \subseteq Doing("session"),
           UNCHANGED <<opened, mints>>, token' => token
    PROVE  TokensCounted'
  <1>1. Cardinality(Doing("session")') <= Cardinality(Doing("session"))
    BY DoingFinite, FS_Subset
  <1>2. /\ Cardinality(Doing("session")') \in Nat /\ Cardinality(Doing("session")) \in Nat
    BY DoingFinite, FS_Subset, FS_CardinalityType
  <1> QED
    BY <1>1, <1>2 DEF TokensCounted, SetupTypes

\* No admin is created, and no request gets ready to.
LEMMA AdminsKept ==
    ASSUME SetupTypes, AdminsCounted, AdminAlone, Doing("admin")' \subseteq Doing("admin"),
           UNCHANGED admins, clash => clash'
    PROVE  AdminsCounted' /\ AdminAlone'
  <1>1. Cardinality(Doing("admin")') <= Cardinality(Doing("admin"))
    BY DoingFinite, FS_Subset
  <1>2. /\ Cardinality(Doing("admin")') \in Nat /\ Cardinality(Doing("admin")) \in Nat
        /\ Cardinality(SetupSlots) \in Nat
    BY DoingFinite, FS_Subset, FS_CardinalityType
  <1>3. AdminsCounted'
    BY <1>1, <1>2 DEF AdminsCounted, SetupTypes
  <1>4. AdminAlone'
    BY DEF AdminAlone
  <1> QED
    BY <1>3, <1>4

\* No request starts to save a step; the wizard's data stays, or its session goes.
LEMMA SavesKept ==
    ASSUME SetupTypes, SaveAlone, Doing("state")' \subseteq Doing("state"),
           \A q \in Doing("state")' : ask'[q] = ask[q],
           UNCHANGED opened, wizard' = wizard \/ ~wizard'.there, clash => clash'
    PROVE  SaveAlone'
  BY DEF SaveAlone, Mine

\* What a request that goes to a stage of the wizard's other matters leaves alone.
Aside == {"none", "gates", "script", "sent", "wait"}

\* A request goes to such a stage and nothing is committed.
LEMMA AsideStep ==
    ASSUME SetupInv, NEW q \in SetupSlots, NEW r \in AskOf(opened), ask' = [ask EXCEPT ![q] = r],
           r.op \in Aside, r.op = "gates" => r.step \subseteq Codes,
           UNCHANGED <<mints, opened, wizard, admins, complete, enabled, kept>>,
           token' \in BOOLEAN, token' => token, clash' \in BOOLEAN, clash => clash',
           codes' \subseteq Codes, command' \in 0..MaxCommands,
           verdict' \in {"none", "ok", "timeout"}
    PROVE  SetupInv'
  <1>0. ask \in [SetupSlots -> AskOf(opened)]
    BY DEF SetupInv, SetupTypes
  <1>1. /\ ask'[q] = r /\ \A p \in SetupSlots \ {q} : ask'[p] = ask[p]
        /\ \A k : Doing(k)' = IF r.op = k THEN Doing(k) \cup {q} ELSE Doing(k) \ {q}
    BY <1>0, SlotMoved
  <1>2. /\ Doing("session")' \subseteq Doing("session") /\ Doing("admin")' \subseteq Doing("admin")
        /\ Doing("state")' \subseteq Doing("state") \ {q}
    BY <1>1 DEF Aside
  <1>3. SetupTypes'
    <2>1. ask' \in [SetupSlots -> AskOf(opened')]
      BY <1>0
    <2> QED
      BY <2>1 DEF SetupInv, SetupTypes
  <1>4. Carries'
    BY <1>1 DEF SetupInv, Carries, Aside
  <1>5. TokensCounted' /\ AdminsCounted' /\ AdminAlone'
    BY <1>2, TokensKept, AdminsKept DEF SetupInv
  <1>6. ScriptFirst'
    BY <1>1 DEF SetupInv, ScriptFirst, Aside
  <1>7. SaveAlone'
    <2>1. \A p \in Doing("state")' : ask'[p] = ask[p]
      BY <1>1, <1>2 DEF Doing
    <2> QED
      BY <1>2, <2>1, SavesKept DEF SetupInv
  <1>8. StepsKept' /\ verdict' # "wrong"
    BY DEF SetupInv, StepsKept
  <1> QED
    BY <1>3, <1>4, <1>5, <1>6, <1>7, <1>8 DEF SetupInv

\* The end of a request is a step of this kind.
LEMMA NoAskAside ==
    ASSUME NEW n \in Nat
    PROVE  NoAsk \in AskOf(n) /\ NoAsk.op = "none"
  BY DEF NoAsk, AskOf, Kinds

\* Steps that commit nothing but what the wizard's other matters are.
LEMMA AsideActions ==
    ASSUME SetupInv, NEW q \in SetupSlots,
           \/ SetupFails(q) \/ ReadCodes(q) \/ CommitCodes(q) \/ SendOpen(q) \/ Subscribe(q)
           \/ TestTimesOut(q) \/ RunScript(q)
    PROVE  SetupInv'
  <1>0. /\ token \in BOOLEAN /\ clash \in BOOLEAN /\ codes \subseteq Codes
        /\ command \in 0..MaxCommands /\ verdict \in {"none", "ok", "timeout"}
        /\ opened \in Nat /\ ask \in [SetupSlots -> AskOf(opened)]
    BY DEF SetupInv, SetupTypes
  <1>n. NoAsk \in AskOf(opened) /\ NoAsk.op \in Aside /\ NoAsk.op # "gates"
    BY <1>0, NoAskAside DEF Aside
  <1>1. CASE SetupFails(q)
    BY <1>0, <1>1, <1>n, AsideStep DEF SetupFails, Ends
  <1>2. CASE ReadCodes(q)
    <2>1. PICK want \in SUBSET Codes : Begins(q, "gates", codes, want, 0)
      BY <1>2 DEF ReadCodes
    <2> DEFINE r == [op |-> "gates", saw |-> codes, step |-> want, session |-> 0]
    <2>2. ask' = [ask EXCEPT ![q] = r]
      BY <2>1 DEF Begins, Goes
    <2>3. r \in AskOf(opened) /\ r.op \in Aside /\ r.step \subseteq Codes
      BY <1>0 DEF AskOf, Kinds, Aside
    <2>4. clash' \in BOOLEAN /\ (clash => clash')
      BY <1>0, <2>1 DEF Begins
    <2>5. /\ UNCHANGED <<mints, opened, wizard, admins, complete, enabled, kept>>
          /\ UNCHANGED <<token, codes, command, verdict>>
      BY <1>2 DEF ReadCodes
    <2> HIDE DEF r
    <2> QED
      BY <1>0, <2>2, <2>3, <2>4, <2>5, AsideStep
  <1>3. CASE CommitCodes(q)
    <2>1. ask[q].step \subseteq Codes
      BY <1>3 DEF CommitCodes, SetupInv, Carries
    <2>2. codes' \subseteq Codes
      BY <1>0, <1>3, <2>1 DEF CommitCodes
    <2>3. /\ UNCHANGED <<mints, opened, wizard, admins, complete, enabled, kept>>
          /\ UNCHANGED <<token, clash, command, verdict>> /\ ask' = [ask EXCEPT ![q] = NoAsk]
      BY <1>3 DEF CommitCodes, Ends
    <2> QED
      BY <1>0, <1>n, <2>2, <2>3, AsideStep
  <1>4. CASE SendOpen(q)
    <2> DEFINE r == [op |-> "sent", saw |-> {}, step |-> {}, session |-> 0]
    <2>1. r \in AskOf(opened) /\ r.op = "sent" /\ r.op \in Aside
      BY <1>0 DEF AskOf, Kinds, Aside
    <2>2. /\ UNCHANGED <<mints, opened, wizard, admins, complete, enabled, kept>>
          /\ UNCHANGED <<token, clash, codes>> /\ verdict' = "none"
      BY <1>4 DEF SendOpen
    <2>3. command' \in 0..MaxCommands
      BY <1>0, <1>4, SetupAssumption DEF SendOpen
    <2>4. ask' = [ask EXCEPT ![q] = r]
      BY <1>4 DEF SendOpen, Goes
    <2> HIDE DEF r
    <2> QED
      BY <1>0, <2>1, <2>2, <2>3, <2>4, AsideStep
  <1>5. CASE Subscribe(q)
    <2>1. On(q, "wait") /\ "wait" \in Kinds
      BY <1>5 DEF Subscribe, Kinds
    <2>2. PICK r \in AskOf(opened) : ask' = [ask EXCEPT ![q] = r] /\ r.op = "wait"
      BY <1>0, <2>1, StageMoved
    <2>3. /\ UNCHANGED <<mints, opened, wizard, admins, complete, enabled, kept>>
          /\ UNCHANGED <<token, clash, codes, command, verdict>>
      BY <1>5 DEF Subscribe
    <2>4. r.op \in Aside /\ r.op # "gates"
      BY <2>2 DEF Aside
    <2> QED
      BY <1>0, <2>2, <2>3, <2>4, AsideStep
  <1>6. CASE TestTimesOut(q)
    BY <1>0, <1>6, <1>n, AsideStep DEF TestTimesOut, Ends
  <1>7. CASE RunScript(q)
    <2>1. PICK n \in {0, opened} : Begins(q, "script", {}, {}, n)
      BY <1>7 DEF RunScript
    <2> DEFINE r == [op |-> "script", saw |-> {}, step |-> {}, session |-> n]
    <2>2. ask' = [ask EXCEPT ![q] = r]
      BY <2>1 DEF Begins, Goes
    <2>3. r \in AskOf(opened) /\ r.op = "script" /\ r.op \in Aside
      BY <1>0 DEF AskOf, Kinds, Aside
    <2>4. clash' \in BOOLEAN /\ (clash => clash')
      BY <1>0, <2>1 DEF Begins
    <2>5. /\ UNCHANGED <<mints, opened, wizard, admins, complete, enabled, kept>>
          /\ UNCHANGED <<token, codes, command, verdict>>
      BY <1>7 DEF RunScript
    <2> HIDE DEF r
    <2> QED
      BY <1>0, <2>2, <2>3, <2>4, <2>5, AsideStep
  <1> QED
    BY <1>1, <1>2, <1>3, <1>4, <1>5, <1>6, <1>7

\* The token: it is written, expires, and is redeemed for a session.
LEMMA TokenActions ==
    ASSUME SetupInv,
           \/ MintToken \/ TokenExpires \/ SessionExpires
           \/ \E q \in SetupSlots : Redeem(q) \/ CreateSession(q)
    PROVE  SetupInv'
  <1>0. /\ token \in BOOLEAN /\ opened \in Nat /\ mints \in 0..MaxMints
        /\ ask \in [SetupSlots -> AskOf(opened)] /\ SetupTypes
    BY DEF SetupInv, SetupTypes
  <1>f. \A k : IsFiniteSet(Doing(k)) /\ Cardinality(Doing(k)) \in Nat
    BY DoingFinite
  <1>1. CASE MintToken
    <2>1. UNCHANGED <<wizard, admins, codes, complete, ask, command, opened, enabled, kept, clash, verdict>>
      BY <1>1 DEF MintToken
    <2>2. token' = TRUE /\ ~token /\ mints' = mints + 1 /\ mints' \in 0..MaxMints
      BY <1>0, <1>1, SetupAssumption DEF MintToken
    <2>3. SetupTypes'
      BY <2>1, <2>2 DEF SetupInv, SetupTypes
    <2>4. TokensCounted'
      <3>1. Doing("session")' = Doing("session")
        BY <2>1 DEF Doing
      <3>2. Cardinality(Doing("session")) \in Nat /\ mints \in Nat
        BY <1>0, <1>f, SetupAssumption
      <3> QED
        BY <1>0, <2>1, <2>2, <3>1, <3>2 DEF SetupInv, TokensCounted
    <2> QED
      BY <2>1, <2>3, <2>4 DEF SetupInv, Carries, AdminsCounted, ScriptFirst, AdminAlone, SaveAlone,
         StepsKept, Doing, Mine
  <1>2. CASE TokenExpires
    <2>1. UNCHANGED <<mints, wizard, admins, codes, complete, ask, command, opened, enabled, kept, clash, verdict>>
      BY <1>2 DEF TokenExpires
    <2>2. token' = FALSE
      BY <1>2 DEF TokenExpires
    <2>3. SetupTypes'
      BY <2>1, <2>2 DEF SetupInv, SetupTypes
    <2>4. TokensCounted'
      BY <2>1, <2>2, TokensKept DEF SetupInv, Doing
    <2> QED
      BY <2>1, <2>3, <2>4 DEF SetupInv, Carries, AdminsCounted, ScriptFirst, AdminAlone, SaveAlone,
         StepsKept, Doing, Mine
  <1>3. CASE SessionExpires
    <2>1. UNCHANGED <<token, mints, admins, codes, complete, ask, command, opened, enabled, clash, verdict>>
      BY <1>3 DEF SessionExpires
    <2>2. wizard' = NoWizard /\ kept' = {} /\ ~wizard'.there
          /\ wizard' \in [saved : SUBSET Steps, there : BOOLEAN]
      BY <1>3 DEF SessionExpires, NoWizard
    <2>3. SetupTypes'
      BY <2>1, <2>2 DEF SetupInv, SetupTypes
    <2>4. SaveAlone'
      BY <2>1, <2>2, SavesKept DEF SetupInv, Doing
    <2> QED
      BY <2>1, <2>2, <2>3, <2>4 DEF SetupInv, Carries, TokensCounted, AdminsCounted, ScriptFirst,
         AdminAlone, StepsKept, Doing
  <1>4. ASSUME NEW q \in SetupSlots, Redeem(q) PROVE SetupInv'
    <2>1. UNCHANGED <<mints, wizard, admins, codes, complete, command, opened, enabled, kept, clash, verdict>>
      BY <1>4 DEF Redeem
    <2>2. token /\ token' = FALSE /\ ask[q] = NoAsk
      BY <1>4 DEF Redeem
    <2> DEFINE r == [op |-> "session", saw |-> {}, step |-> {}, session |-> 0]
    <2>3. r \in AskOf(opened) /\ r.op = "session"
      BY <1>0 DEF AskOf, Kinds
    <2>4. ask' = [ask EXCEPT ![q] = r]
      BY <1>4 DEF Redeem, Goes
    <2> HIDE DEF r
    <2>5. /\ ask'[q] = r /\ \A p \in SetupSlots \ {q} : ask'[p] = ask[p]
          /\ \A k : Doing(k)' = IF r.op = k THEN Doing(k) \cup {q} ELSE Doing(k) \ {q}
      BY <1>0, <2>4, SlotMoved
    <2>6. SetupTypes'
      <3>1. ask' \in [SetupSlots -> AskOf(opened')]
        BY <1>0, <2>1, <2>3, <2>4
      <3> QED
        BY <2>1, <2>2, <3>1 DEF SetupInv, SetupTypes
    <2>7. TokensCounted'
      <3>1. Doing("session")' = Doing("session") \cup {q}
        BY <2>3, <2>5
      <3>2. /\ Cardinality(Doing("session")') \in Nat
            /\ Cardinality(Doing("session")') <= Cardinality(Doing("session")) + 1
        <4>1. IsFiniteSet(Doing("session")) /\ Cardinality(Doing("session")) \in Nat
          BY <1>f
        <4>2. Cardinality(Doing("session") \cup {q})
                = IF q \in Doing("session") THEN Cardinality(Doing("session"))
                  ELSE Cardinality(Doing("session")) + 1
          BY <4>1, FS_AddElement
        <4>3. /\ Cardinality(Doing("session") \cup {q}) \in Nat
              /\ Cardinality(Doing("session") \cup {q}) <= Cardinality(Doing("session")) + 1
          BY <4>1, <4>2
        <4> QED
          BY <3>1, <4>3
      <3> QED
        BY <1>0, <1>f, <2>1, <2>2, <3>2 DEF SetupInv, TokensCounted
    <2>8. /\ Doing("admin")' \subseteq Doing("admin") /\ Doing("state")' \subseteq Doing("state") \ {q}
      BY <2>3, <2>5
    <2>9. AdminsCounted' /\ AdminAlone' /\ SaveAlone'
      <3>1. \A p \in Doing("state")' : ask'[p] = ask[p]
        BY <2>5, <2>8 DEF Doing
      <3> QED
        BY <2>1, <2>8, <3>1, AdminsKept, SavesKept DEF SetupInv
    <2> QED
      BY <2>1, <2>3, <2>5, <2>6, <2>7, <2>9 DEF SetupInv, Carries, ScriptFirst, StepsKept
  <1>5. ASSUME NEW q \in SetupSlots, CreateSession(q) PROVE SetupInv'
    <2>1. UNCHANGED <<token, mints, admins, codes, complete, command, enabled, clash, verdict>>
      BY <1>5 DEF CreateSession
    <2>2. /\ opened' = opened + 1 /\ kept' = {} /\ wizard' = [saved |-> {}, there |-> TRUE]
          /\ ask' = [ask EXCEPT ![q] = NoAsk] /\ q \in Doing("session")
      BY <1>5 DEF CreateSession, Ends, Doing
    <2>3. /\ ask'[q] = NoAsk /\ \A p \in SetupSlots \ {q} : ask'[p] = ask[p]
          /\ \A k : Doing(k)' = IF NoAsk.op = k THEN Doing(k) \cup {q} ELSE Doing(k) \ {q}
      BY <1>0, <2>2, SlotMoved
    <2>4. NoAsk \in AskOf(opened) /\ NoAsk.op = "none"
      BY <1>0, NoAskAside
    <2>5. SetupTypes'
      <3>1. AskOf(opened) \subseteq AskOf(opened')
        <4>1. 0..opened \subseteq 0..opened'
          BY <1>0, <2>2
        <4> QED
          BY <4>1 DEF AskOf
      <3>2. ask' \in [SetupSlots -> AskOf(opened')]
        BY <1>0, <2>2, <2>4, <3>1
      <3>3. opened' \in Nat /\ wizard' \in [saved : SUBSET Steps, there : BOOLEAN]
        BY <1>0, <2>2
      <3> QED
        BY <2>1, <2>2, <3>2, <3>3 DEF SetupInv, SetupTypes
    <2>6. TokensCounted'
      <3>1. Doing("session")' = Doing("session") \ {q}
        BY <2>3, <2>4
      <3>2. Cardinality(Doing("session")') = Cardinality(Doing("session")) - 1
        BY <1>f, <2>2, <3>1, FS_RemoveElement
      <3> QED
        BY <1>0, <1>f, <2>1, <2>2, <3>2 DEF SetupInv, TokensCounted
    <2>7. AdminsCounted' /\ AdminAlone'
      BY <2>1, <2>3, <2>4, AdminsKept DEF SetupInv
    <2>8. SaveAlone'
      <3>1. \A p \in SetupSlots : ask[p].session \in 0..opened
        BY <1>0 DEF AskOf
      <3>2. \A p \in SetupSlots : ask[p].session # opened'
        BY <1>0, <2>2, <3>1
      <3>3. \A p \in Doing("state")' : ~Mine(ask[p])' /\ p \in Doing("state")
        BY <2>3, <2>4, <3>2 DEF Doing, Mine
      <3> QED
        BY <2>1, <3>3 DEF SetupInv, SaveAlone
    <2> QED
      BY <2>1, <2>2, <2>3, <2>4, <2>5, <2>6, <2>7, <2>8
         DEF SetupInv, Carries, ScriptFirst, StepsKept
  <1> QED
    BY <1>1, <1>2, <1>3, <1>4, <1>5

\* The first admin.
LEMMA AdminActions ==
    ASSUME SetupInv, NEW q \in SetupSlots, ReadAdmin(q) \/ CommitAdmin(q)
    PROVE  SetupInv'
  <1>0. /\ clash \in BOOLEAN /\ opened \in Nat /\ admins \in Nat
        /\ ask \in [SetupSlots -> AskOf(opened)] /\ SetupTypes
    BY DEF SetupInv, SetupTypes
  <1>f. /\ IsFiniteSet(Doing("admin")) /\ Cardinality(Doing("admin")) \in Nat
        /\ Cardinality(SetupSlots) \in Nat /\ IsFiniteSet(SetupSlots)
    BY DoingFinite, SetupAssumption
  <1>1. CASE ReadAdmin(q)
    <2>1. UNCHANGED <<token, mints, wizard, admins, codes, complete, command, opened, enabled, kept, verdict>>
      BY <1>1 DEF ReadAdmin
    <2> DEFINE r == [op |-> "admin", saw |-> {}, step |-> {}, session |-> 0]
    <2>2. r \in AskOf(opened) /\ r.op = "admin"
      BY <1>0 DEF AskOf, Kinds
    <2>3. ask' = [ask EXCEPT ![q] = r] /\ admins = 0
      BY <1>1 DEF ReadAdmin, Begins, Goes
    <2>4. clash' \in BOOLEAN /\ (clash => clash') /\ (~clash' => Doing("admin") = {})
      BY <1>0, <1>1 DEF ReadAdmin, Begins, Doing
    <2> HIDE DEF r
    <2>5. /\ ask'[q] = r /\ \A p \in SetupSlots \ {q} : ask'[p] = ask[p]
          /\ \A k : Doing(k)' = IF r.op = k THEN Doing(k) \cup {q} ELSE Doing(k) \ {q}
      BY <1>0, <2>3, SlotMoved
    <2>6. SetupTypes'
      <3>1. ask' \in [SetupSlots -> AskOf(opened')]
        BY <1>0, <2>1, <2>2, <2>3
      <3> QED
        BY <2>1, <2>4, <3>1 DEF SetupInv, SetupTypes
    <2>7. TokensCounted'
      BY <2>1, <2>2, <2>5, TokensKept DEF SetupInv
    <2>8. AdminsCounted'
      <3>1. Doing("admin")' \in SUBSET SetupSlots
        BY DEF Doing
      <3>2. Cardinality(Doing("admin")') <= Cardinality(SetupSlots)
        BY <1>f, <3>1, FS_Subset
      <3>3. Cardinality(Doing("admin")') \in Nat
        BY <1>f, <3>1, FS_Subset, FS_CardinalityType
      <3> QED
        BY <1>f, <2>1, <2>3, <3>2, <3>3 DEF AdminsCounted
    <2>9. AdminAlone'
      BY <2>1, <2>2, <2>3, <2>4, <2>5 DEF AdminAlone
    <2>10. SaveAlone'
      <3>1. Doing("state")' \subseteq Doing("state") \ {q}
        BY <2>2, <2>5
      <3>2. \A p \in Doing("state")' : ask'[p] = ask[p]
        BY <2>5, <3>1 DEF Doing
      <3> QED
        BY <2>1, <2>4, <3>1, <3>2, SavesKept DEF SetupInv
    <2>11. Carries' /\ ScriptFirst'
      BY <2>1, <2>2, <2>5 DEF SetupInv, Carries, ScriptFirst
    <2> QED
      BY <2>1, <2>4, <2>6, <2>7, <2>8, <2>9, <2>10, <2>11 DEF SetupInv, StepsKept
  <1>2. CASE CommitAdmin(q)
    <2>1. UNCHANGED <<token, mints, wizard, codes, complete, command, opened, enabled, kept, clash, verdict>>
      BY <1>2 DEF CommitAdmin
    <2>2. admins' = admins + 1 /\ ask' = [ask EXCEPT ![q] = NoAsk] /\ q \in Doing("admin")
      BY <1>2 DEF CommitAdmin, Ends, Doing
    <2>3. NoAsk \in AskOf(opened) /\ NoAsk.op = "none"
      BY <1>0, NoAskAside
    <2>4. /\ ask'[q] = NoAsk /\ \A p \in SetupSlots \ {q} : ask'[p] = ask[p]
          /\ \A k : Doing(k)' = IF NoAsk.op = k THEN Doing(k) \cup {q} ELSE Doing(k) \ {q}
      BY <1>0, <2>2, SlotMoved
    <2>5. SetupTypes'
      <3>1. ask' \in [SetupSlots -> AskOf(opened')] /\ admins' \in Nat
        BY <1>0, <2>1, <2>2, <2>3
      <3> QED
        BY <2>1, <3>1 DEF SetupInv, SetupTypes
    <2>6. TokensCounted'
      BY <2>1, <2>3, <2>4, TokensKept DEF SetupInv
    <2>7. AdminsCounted'
      <3>1. Doing("admin")' = Doing("admin") \ {q}
        BY <2>3, <2>4
      <3>2. Cardinality(Doing("admin")') = Cardinality(Doing("admin")) - 1
        BY <1>f, <2>2, <3>1, FS_RemoveElement
      <3> QED
        BY <1>0, <1>f, <2>2, <3>2 DEF SetupInv, AdminsCounted
    <2>8. AdminAlone'
      <3> SUFFICES ASSUME ~clash PROVE admins' = 1 /\ Doing("admin")' = {}
        BY <2>1 DEF AdminAlone
      <3>1. admins = 0 /\ \A p \in Doing("admin") : p = q
        BY <2>2 DEF SetupInv, AdminAlone
      <3> QED
        BY <2>2, <2>3, <2>4, <3>1
    <2>9. SaveAlone'
      <3>1. Doing("state")' \subseteq Doing("state") \ {q}
        BY <2>3, <2>4
      <3>2. \A p \in Doing("state")' : ask'[p] = ask[p]
        BY <2>4, <3>1 DEF Doing
      <3> QED
        BY <2>1, <3>1, <3>2, SavesKept DEF SetupInv
    <2>10. Carries' /\ ScriptFirst'
      BY <2>1, <2>3, <2>4 DEF SetupInv, Carries, ScriptFirst
    <2> QED
      BY <2>1, <2>5, <2>6, <2>7, <2>8, <2>9, <2>10 DEF SetupInv, StepsKept
  <1> QED
    BY <1>1, <1>2

\* The steps' data is read, merged and written back whole.
LEMMA StateActions ==
    ASSUME SetupInv, NEW q \in SetupSlots, (\E z \in Steps : ReadState(q, z)) \/ CommitState(q)
    PROVE  SetupInv'
  <1>0. /\ clash \in BOOLEAN /\ opened \in Nat /\ kept \subseteq Steps
        /\ ask \in [SetupSlots -> AskOf(opened)] /\ SetupTypes
        /\ wizard \in [saved : SUBSET Steps, there : BOOLEAN]
    BY DEF SetupInv, SetupTypes
  <1>1. ASSUME NEW z \in Steps, ReadState(q, z) PROVE SetupInv'
    <2>1. UNCHANGED <<token, mints, wizard, admins, codes, complete, command, opened, enabled, kept, verdict>>
      BY <1>1 DEF ReadState
    <2> DEFINE r == [op |-> "state", saw |-> wizard.saved, step |-> {z}, session |-> opened]
    <2>2. r \in AskOf(opened) /\ r.op = "state" /\ r.saw = wizard.saved /\ r.step = {z}
      BY <1>0 DEF AskOf, Kinds
    <2>3. ask' = [ask EXCEPT ![q] = r]
      BY <1>1 DEF ReadState, Begins, Goes
    <2>4. clash' \in BOOLEAN /\ (clash => clash') /\ (~clash' => Doing("state") = {})
      BY <1>0, <1>1 DEF ReadState, Begins, Doing
    <2> HIDE DEF r
    <2>5. /\ ask'[q] = r /\ \A p \in SetupSlots \ {q} : ask'[p] = ask[p]
          /\ \A k : Doing(k)' = IF r.op = k THEN Doing(k) \cup {q} ELSE Doing(k) \ {q}
      BY <1>0, <2>3, SlotMoved
    <2>6. SetupTypes'
      <3>1. ask' \in [SetupSlots -> AskOf(opened')]
        BY <1>0, <2>1, <2>2, <2>3
      <3> QED
        BY <2>1, <2>4, <3>1 DEF SetupInv, SetupTypes
    <2>7. TokensCounted' /\ AdminsCounted' /\ AdminAlone'
      BY <2>1, <2>2, <2>4, <2>5, TokensKept, AdminsKept DEF SetupInv
    <2>8. SaveAlone'
      BY <2>1, <2>2, <2>4, <2>5 DEF SaveAlone
    <2>9. Carries' /\ ScriptFirst'
      BY <1>0, <2>1, <2>2, <2>5 DEF SetupInv, Carries, ScriptFirst
    <2> QED
      BY <2>1, <2>4, <2>6, <2>7, <2>8, <2>9 DEF SetupInv, StepsKept
  <1>2. CASE CommitState(q)
    <2>1. UNCHANGED <<token, mints, admins, codes, complete, command, opened, enabled, clash, verdict>>
      BY <1>2 DEF CommitState
    <2>2. ask' = [ask EXCEPT ![q] = NoAsk] /\ q \in Doing("state")
      BY <1>2 DEF CommitState, Ends, Doing
    <2>3. NoAsk \in AskOf(opened) /\ NoAsk.op = "none"
      BY <1>0, NoAskAside
    <2>4. /\ ask'[q] = NoAsk /\ \A p \in SetupSlots \ {q} : ask'[p] = ask[p]
          /\ \A k : Doing(k)' = IF NoAsk.op = k THEN Doing(k) \cup {q} ELSE Doing(k) \ {q}
      BY <1>0, <2>2, SlotMoved
    <2>5. \/ /\ Mine(ask[q]) /\ wizard' = [wizard EXCEPT !.saved = ask[q].saw \cup ask[q].step]
             /\ kept' = kept \cup ask[q].step
          \/ UNCHANGED <<wizard, kept>>
      BY <1>2 DEF CommitState, Merged
    <2>6. ask[q].saw \subseteq Steps /\ ask[q].step \subseteq Steps
      BY <2>2 DEF SetupInv, Carries, Doing
    <2>7. SetupTypes'
      <3>1. ask' \in [SetupSlots -> AskOf(opened')]
        BY <1>0, <2>1, <2>2, <2>3
      <3>2. wizard' \in [saved : SUBSET Steps, there : BOOLEAN] /\ kept' \subseteq Steps
        BY <1>0, <2>5, <2>6
      <3> QED
        BY <2>1, <3>1, <3>2 DEF SetupInv, SetupTypes
    <2>8. TokensCounted' /\ AdminsCounted' /\ AdminAlone'
      BY <2>1, <2>3, <2>4, TokensKept, AdminsKept DEF SetupInv
    <2>9. SaveAlone'
      <3> SUFFICES ASSUME ~clash PROVE Doing("state")' = {}
        BY <2>1 DEF SaveAlone
      <3> QED
        BY <2>2, <2>3, <2>4 DEF SetupInv, SaveAlone
    <2>10. StepsKept'
      <3> SUFFICES ASSUME ~clash PROVE kept' \subseteq wizard'.saved
        BY <2>1 DEF StepsKept
      <3>1. kept \subseteq wizard.saved
        BY DEF SetupInv, StepsKept
      <3>2. CASE UNCHANGED <<wizard, kept>>
        BY <3>1, <3>2
      <3>3. CASE /\ Mine(ask[q]) /\ wizard' = [wizard EXCEPT !.saved = ask[q].saw \cup ask[q].step]
                 /\ kept' = kept \cup ask[q].step
        <4>1. ask[q].saw = wizard.saved
          BY <2>2, <3>3 DEF SetupInv, SaveAlone
        <4>2. wizard'.saved = ask[q].saw \cup ask[q].step
          BY <1>0, <3>3
        <4> QED
          BY <3>1, <3>3, <4>1, <4>2
      <3> QED
        BY <2>5, <3>2, <3>3
    <2>11. Carries' /\ ScriptFirst'
      BY <2>1, <2>3, <2>4 DEF SetupInv, Carries, ScriptFirst
    <2> QED
      BY <2>1, <2>7, <2>8, <2>9, <2>10, <2>11 DEF SetupInv
  <1> QED
    BY <1>1, <1>2

\* finalize: the script, the mark and the end of the session.
LEMMA FinalActions ==
    ASSUME SetupInv, NEW q \in SetupSlots, ScriptEnds(q) \/ MarkComplete(q) \/ DropSession(q)
    PROVE  SetupInv'
  <1>0. /\ opened \in Nat /\ ask \in [SetupSlots -> AskOf(opened)] /\ SetupTypes
        /\ wizard \in [saved : SUBSET Steps, there : BOOLEAN]
    BY DEF SetupInv, SetupTypes
  <1>1. PICK r \in AskOf(opened) : /\ ask' = [ask EXCEPT ![q] = r]
                                   /\ \/ ScriptEnds(q) /\ r.op = "mark"
                                      \/ MarkComplete(q) /\ r.op = "drop"
                                      \/ DropSession(q) /\ r.op = "none"
    <2>1. CASE ScriptEnds(q)
      <3>1. On(q, "mark") /\ "mark" \in Kinds
        BY <2>1 DEF ScriptEnds, Kinds
      <3> QED
        BY <1>0, <2>1, <3>1, StageMoved
    <2>2. CASE MarkComplete(q)
      <3>1. On(q, "drop") /\ "drop" \in Kinds
        BY <2>2 DEF MarkComplete, Kinds
      <3> QED
        BY <1>0, <2>2, <3>1, StageMoved
    <2>3. CASE DropSession(q)
      BY <1>0, <2>3, NoAskAside DEF DropSession, Ends
    <2> QED
      BY <2>1, <2>2, <2>3
  <1>2. UNCHANGED <<mints, admins, codes, command, opened, clash, verdict>>
    BY <1>1 DEF ScriptEnds, MarkComplete, DropSession
  <1>3. /\ token' \in BOOLEAN /\ (token' => token) /\ complete' \in BOOLEAN /\ enabled' \in BOOLEAN
    <2>1. /\ token' = token \/ token' = FALSE
          /\ complete' = complete \/ complete' = TRUE
          /\ enabled' = enabled \/ enabled' = TRUE
      BY DEF ScriptEnds, MarkComplete, DropSession
    <2>2. token \in BOOLEAN /\ complete \in BOOLEAN /\ enabled \in BOOLEAN
      BY DEF SetupInv, SetupTypes
    <2>3. token' \in BOOLEAN
      BY <2>1, <2>2
    <2>4. token' => token
      BY <2>1, <2>2
    <2>5. complete' \in BOOLEAN
      BY <2>1, <2>2
    <2>6. enabled' \in BOOLEAN
      BY <2>1, <2>2
    <2> QED
      BY <2>3, <2>4, <2>5, <2>6
  <1>4. (wizard' = wizard /\ kept' = kept) \/ (wizard' = NoWizard /\ kept' = {})
    BY DEF ScriptEnds, MarkComplete, DropSession
  <1>5. wizard' \in [saved : SUBSET Steps, there : BOOLEAN] /\ (wizard' = wizard \/ ~wizard'.there)
    <2>1. NoWizard \in [saved : SUBSET Steps, there : BOOLEAN] /\ ~NoWizard.there
      BY DEF NoWizard
    <2> QED
      BY <1>0, <1>4, <2>1
  <1>6. /\ ask'[q] = r /\ \A p \in SetupSlots \ {q} : ask'[p] = ask[p]
        /\ \A k : Doing(k)' = IF r.op = k THEN Doing(k) \cup {q} ELSE Doing(k) \ {q}
    BY <1>0, <1>1, SlotMoved
  <1>7. SetupTypes'
    <2>1. ask' \in [SetupSlots -> AskOf(opened')]
      BY <1>0, <1>1, <1>2
    <2>2. kept' \subseteq Steps
      BY <1>4 DEF SetupInv, SetupTypes
    <2> QED
      BY <1>2, <1>3, <1>5, <2>1, <2>2 DEF SetupInv, SetupTypes
  <1>8. TokensCounted' /\ AdminsCounted' /\ AdminAlone'
    BY <1>1, <1>2, <1>3, <1>6, TokensKept, AdminsKept DEF SetupInv
  <1>9. SaveAlone'
    <2>1. Doing("state")' \subseteq Doing("state") \ {q}
      BY <1>1, <1>6
    <2>2. \A p \in Doing("state")' : ask'[p] = ask[p]
      BY <1>6, <2>1 DEF Doing
    <2> QED
      BY <1>2, <1>5, <2>1, <2>2, SavesKept DEF SetupInv
  <1>10. ScriptFirst'
    <2>1. CASE ScriptEnds(q)
      <3>1. enabled' /\ complete' = complete
        BY <2>1 DEF ScriptEnds
      <3> QED
        BY <3>1 DEF ScriptFirst
    <2>2. CASE MarkComplete(q)
      <3>1. enabled /\ enabled' = enabled
        BY <2>2 DEF MarkComplete, SetupInv, ScriptFirst
      <3> QED
        BY <3>1 DEF ScriptFirst
    <2>3. CASE DropSession(q)
      <3>1. enabled' = enabled /\ complete' = complete
        BY <2>3 DEF DropSession
      <3>2. enabled
        BY <2>3 DEF DropSession, SetupInv, ScriptFirst
      <3> QED
        BY <3>1, <3>2 DEF ScriptFirst
    <2> QED
      BY <2>1, <2>2, <2>3
  <1>11. Carries' /\ StepsKept'
    BY <1>1, <1>2, <1>4, <1>6 DEF SetupInv, Carries, StepsKept
  <1> QED
    BY <1>2, <1>7, <1>8, <1>9, <1>10, <1>11 DEF SetupInv

\* The gate's event ends the tests that wait for it, as passed.
LEMMA EventAction ==
    ASSUME SetupInv, NEW e \in {"gate_opened", "vehicle_detected"}, GateSays(e)
    PROVE  SetupInv'
  <1>0. /\ opened \in Nat /\ ask \in [SetupSlots -> AskOf(opened)] /\ SetupTypes
        /\ command \in 0..MaxCommands
    BY DEF SetupInv, SetupTypes
  <1>1. UNCHANGED <<token, mints, wizard, admins, codes, complete, opened, enabled, kept, clash>>
    BY DEF GateSays
  <1>2. NoAsk \in AskOf(opened) /\ NoAsk.op = "none"
    BY <1>0, NoAskAside
  <1>3. /\ ask' \in [SetupSlots -> AskOf(opened)]
        /\ \A q \in SetupSlots : ask'[q] = ask[q] \/ ask'[q] = NoAsk
    BY <1>0, <1>2 DEF GateSays
  <1>4. command' \in 0..MaxCommands
    BY <1>0, SetupAssumption DEF GateSays
  <1>5. verdict' \in {"none", "ok", "timeout"}
    BY DEF GateSays, Acks, SetupInv, SetupTypes
  <1>6. \A k \in {"session", "admin", "state"} : Doing(k)' \subseteq Doing(k)
    BY <1>2, <1>3 DEF Doing
  <1>7. SetupTypes'
    BY <1>1, <1>3, <1>4, <1>5 DEF SetupInv, SetupTypes
  <1>8. TokensCounted' /\ AdminsCounted' /\ AdminAlone'
    BY <1>1, <1>6, TokensKept, AdminsKept DEF SetupInv
  <1>9. SaveAlone'
    <2>1. \A p \in Doing("state")' : ask'[p] = ask[p]
      BY <1>2, <1>3 DEF Doing
    <2> QED
      BY <1>1, <1>6, <2>1, SavesKept DEF SetupInv
  <1>10. Carries' /\ ScriptFirst' /\ StepsKept'
    BY <1>1, <1>2, <1>3 DEF SetupInv, Carries, ScriptFirst, StepsKept
  <1> QED
    BY <1>5, <1>7, <1>8, <1>9, <1>10 DEF SetupInv

\* Every step of the wizard keeps the invariant.
LEMMA SetupStep == SetupInv /\ [SetupNext]_setupVars => SetupInv'
  <1> SUFFICES ASSUME SetupInv, [SetupNext]_setupVars PROVE SetupInv'
    OBVIOUS
  <1>1. CASE UNCHANGED setupVars
    BY <1>1 DEF setupVars, SetupInv, SetupTypes, Carries, TokensCounted, AdminsCounted, ScriptFirst,
       AdminAlone, SaveAlone, StepsKept, Doing, Mine
  <1> QED
    BY <1>1, AsideActions, TokenActions, AdminActions, StateActions, FinalActions, EventAction
       DEF SetupNext

\* However many browsers send the installer's token at once, it opens one session; the
\* set-up is complete only once the daemons are enabled; requests that do not overlap
\* make one first admin; a gate test passes on an opening only (routes/setup.py).
THEOREM SetupHolds == SetupSpec => []SetupSound
  <1>1. SetupInv => SetupSound
    <2> SUFFICES ASSUME SetupInv PROVE SetupSound
      OBVIOUS
    <2>1. opened \in Nat /\ mints \in Nat /\ admins \in Nat
      BY SetupAssumption DEF SetupInv, SetupTypes
    <2>2. opened <= mints
      BY <2>1, DoingFinite DEF SetupInv, TokensCounted
    <2> QED
      BY <2>1, <2>2 DEF SetupInv, ScriptFirst, AdminAlone, SetupSound
  <1> QED
    BY <1>1, SetupStart, SetupStep, PTL DEF SetupSpec

\* A step of the wizard that was saved stays saved, as long as no two saves overlap
\* (services/setup.py save_session_step).
THEOREM SavedStepsStay == SetupSpec => []StepsKept
  <1>1. SetupInv => StepsKept
    BY DEF SetupInv
  <1> QED
    BY <1>1, SetupStart, SetupStep, PTL DEF SetupSpec

\* The wizard's state has its type: no more sessions than tokens, no more admins than
\* requests handled at a time (routes/setup.py, services/setup.py).
THEOREM SetupTyped == SetupSpec => []SetupTypeOK
  <1>1. SetupInv => SetupTypeOK
    <2> SUFFICES ASSUME SetupInv PROVE SetupTypeOK
      OBVIOUS
    <2>1. /\ opened \in Nat /\ mints \in 0..MaxMints /\ admins \in Nat
          /\ ask \in [SetupSlots -> AskOf(opened)]
      BY DEF SetupInv, SetupTypes
    <2>2. opened \in 0..MaxMints
      BY <2>1, SetupAssumption, DoingFinite DEF SetupInv, TokensCounted
    <2>3. admins \in 0..Cardinality(SetupSlots)
      <3>1. Cardinality(Doing("admin")) \in Nat /\ Cardinality(SetupSlots) \in Nat
        BY DoingFinite
      <3> QED
        BY <2>1, <3>1 DEF SetupInv, AdminsCounted
    <2> QED
      BY <2>1, <2>2, <2>3 DEF SetupInv, SetupTypes, SetupTypeOK, AskOf, Kinds
  <1> QED
    BY <1>1, SetupStart, SetupStep, PTL DEF SetupSpec

-----------------------------------------------------------------------------
(* Worker sessions *)

SessionRow == [gate : Gates, worker : WithPin, status : Statuses,
               assignment : SUBSET (Gates \X Shifts), prev : Ids \cup {NoId},
               end : {"none", "SCHEDULED", "FORCE_LEAVE"}]

\* A request in flight: what it decided on, of a session it found at the same gate.
Decided(r) ==
    /\ r.gate \in Gates /\ r.worker \in WithPin /\ r.assignment \subseteq Gates \X Shifts
    /\ \/ r.op = "check_in" /\ r.id = NoId
       \/ /\ r.op \in {"outgoing", "incoming", "leave"}
          /\ r.id \in 1..Len(session) /\ session[r.id].gate = r.gate

RequestsSound ==
    /\ DOMAIN req = Requests /\ req = [q \in Requests |-> req[q]]
    /\ \A q \in Requests : req[q] = Free \/ Decided(req[q])

\* A session was taken over from one at the same gate.
Links ==
    \A i \in 1..Len(session) :
        session[i].prev # NoId => /\ session[i].prev \in 1..Len(session)
                                  /\ session[session[i].prev].gate = session[i].gate

SessionTypes ==
    /\ session \in Seq(SessionRow) /\ Len(session) <= MaxSessions
    /\ alerted \subseteq 1..Len(session)
    /\ plan \subseteq Gates \X Shifts /\ overlap \subseteq Gates
    /\ RequestsSound /\ Links

\* The request still finds at gate g what it has read there.
StillThere(r) ==
    /\ r.op = "check_in" => OpenAt(r.gate) = {}
    /\ r.op = "outgoing" => session[r.id].status = "ACTIVE"
    /\ r.op = "incoming" => session[r.id].status = "PENDING_HANDOVER"
    /\ r.op = "leave" => session[r.id].status \in {"ACTIVE", "PENDING_HANDOVER"}

\* At a gate without overlap: every request's reading still holds, one session at
\* most is open, and a session that was taken over is closed and was so once.
Chained(g) ==
    /\ \A q \in Requests : req[q] # Free /\ req[q].gate = g => StillThere(req[q])
    /\ \A i, j \in OpenAt(g) : i = j
    /\ \A i \in 1..Len(session) :
         session[i].gate = g /\ session[i].prev # NoId =>
             /\ session[session[i].prev].status = "COMPLETED"
             /\ \A j \in 1..Len(session) :
                  session[j].gate = g /\ session[j].prev = session[i].prev => j = i

SessionInv ==
    /\ SessionTypes /\ CoveredOrAlerted /\ \A g \in Gates \ overlap : Chained(g)

\* A step that commits nothing of the sessions: a request is free, or was and is now
\* in flight with something it has just read.
LEMMA ReadStep ==
    ASSUME SessionInv, NEW q \in Requests, NEW r, Await(q, r), Decided(r), StillThere(r),
           UNCHANGED <<session, alerted, plan, overlap>>
    PROVE  SessionInv'
  <1>1. req' = [req EXCEPT ![q] = r] /\ req = [p \in Requests |-> req[p]] /\ DOMAIN req = Requests
    BY DEF Await, SessionInv, SessionTypes, RequestsSound
  <1>2. /\ req'[q] = r /\ \A p \in Requests \ {q} : req'[p] = req[p]
        /\ DOMAIN req' = Requests /\ req' = [p \in Requests |-> req'[p]]
    BY <1>1
  <1>3. RequestsSound'
    BY <1>2 DEF SessionInv, SessionTypes, RequestsSound, Decided
  <1>4. \A g \in Gates \ overlap : Chained(g)'
    BY <1>2 DEF SessionInv, Chained, StillThere, OpenAt
  <1> QED
    BY <1>3, <1>4 DEF SessionInv, SessionTypes, CoveredOrAlerted, Links

\* What a request reads holds when it has read it.
LEMMA Reads ==
    ASSUME SessionInv, NEW q \in Requests,
           \/ \E g \in Gates, w \in Workers : ReadCheckIn(q, g, w)
           \/ \E i \in DOMAIN session :
                \/ ReadOutgoing(q, i) \/ ReadForceLeave(q, i)
                \/ \E w \in Workers : ReadIncoming(q, i, w)
    PROVE  SessionInv'
  <1>0. session \in Seq(SessionRow) /\ DOMAIN session = 1..Len(session)
    BY DEF SessionInv, SessionTypes
  <1>1. ASSUME NEW g \in Gates, NEW w \in Workers, ReadCheckIn(q, g, w) PROVE SessionInv'
    <2>1. PICK a \in {{}} \cup {{x} : x \in plan \cap ({g} \X Shifts)} :
            Await(q, [op |-> "check_in", gate |-> g, worker |-> w, id |-> NoId, assignment |-> a])
      BY <1>1 DEF ReadCheckIn
    <2> DEFINE r == [op |-> "check_in", gate |-> g, worker |-> w, id |-> NoId, assignment |-> a]
    <2>2. a \subseteq Gates \X Shifts
      BY DEF SessionInv, SessionTypes
    <2>3. /\ r.op = "check_in" /\ r.gate = g /\ r.worker = w /\ r.id = NoId /\ r.assignment = a
          /\ Await(q, r)
      BY <2>1
    <2> HIDE DEF r
    <2>4. Decided(r) /\ StillThere(r) /\ UNCHANGED <<session, alerted, plan, overlap>>
      BY <1>1, <2>2, <2>3 DEF ReadCheckIn, Verified, Decided, StillThere
    <2> QED
      BY <2>3, <2>4, ReadStep
  <1>2. ASSUME NEW i \in DOMAIN session, NEW op, NEW w, NEW from, ReadSession(q, i, op, w, from),
               \/ op = "outgoing" /\ from = {"ACTIVE"}
               \/ op = "incoming" /\ from = {"PENDING_HANDOVER"}
               \/ op = "leave" /\ from = {"ACTIVE", "PENDING_HANDOVER"}
        PROVE  SessionInv'
    <2> DEFINE r == [op |-> op, gate |-> session[i].gate, worker |-> w, id |-> i, assignment |-> {}]
    <2>1. /\ r.op = op /\ r.gate = session[i].gate /\ r.worker = w /\ r.id = i /\ r.assignment = {}
          /\ Await(q, r)
      BY <1>2 DEF ReadSession
    <2> HIDE DEF r
    <2>2. session[i] \in SessionRow /\ i \in 1..Len(session)
      BY <1>0
    <2>3. session[i].gate \in Gates
      BY <2>2 DEF SessionRow
    <2>4. Decided(r)
      BY <1>2, <2>1, <2>2, <2>3 DEF Decided, ReadSession, Verified
    <2>5. StillThere(r) /\ UNCHANGED <<session, alerted, plan, overlap>>
      BY <1>2, <2>1 DEF StillThere, ReadSession
    <2> QED
      BY <2>1, <2>4, <2>5, ReadStep
  <1> QED
    BY <1>1, <1>2 DEF ReadOutgoing, ReadForceLeave, ReadIncoming

\* One column of a row is set.
LEMMA StatusSet ==
    ASSUME NEW s \in Seq(SessionRow), NEW i \in 1..Len(s), NEW a \in Statuses,
           NEW t, t = [s EXCEPT ![i].status = a]
    PROVE  /\ t \in Seq(SessionRow) /\ Len(t) = Len(s)
           /\ t[i].gate = s[i].gate /\ t[i].prev = s[i].prev /\ t[i].status = a
           /\ \A k \in 1..Len(s) : k # i => t[k] = s[k]
  <1> DEFINE r == [s[i] EXCEPT !.status = a]
  <1>1. s[i] \in SessionRow
    OBVIOUS
  <1>2. r \in SessionRow /\ r.gate = s[i].gate /\ r.prev = s[i].prev /\ r.status = a
    BY <1>1 DEF SessionRow
  <1>3. [s EXCEPT ![i].status = a] = [s EXCEPT ![i] = r]
    OBVIOUS
  <1> HIDE DEF r
  <1>4. /\ [s EXCEPT ![i] = r] \in Seq(SessionRow) /\ Len([s EXCEPT ![i] = r]) = Len(s)
        /\ \A k \in 1..Len(s) : [s EXCEPT ![i] = r][k] = IF k = i THEN r ELSE s[k]
    BY <1>2
  <1> QED
    BY <1>2, <1>3, <1>4

\* What a commit of request r does to the sessions: it changes the status of the
\* session r is about, if any, and may add one.
Rewrites(r) ==
    /\ session' \in Seq(SessionRow) /\ Len(session') \in {Len(session), Len(session) + 1}
    /\ Len(session') <= MaxSessions
    /\ \A k \in 1..Len(session) : /\ session'[k].gate = session[k].gate
                                  /\ session'[k].prev = session[k].prev
                                  /\ k # r.id => session'[k] = session[k]
    /\ Len(session') # Len(session) => session'[Len(session) + 1] = NewSession(r)

\* The types, and the other gates, are not touched by such a commit.
LEMMA CommitTypes ==
    ASSUME SessionInv, NEW q \in Requests, Decided(req[q]), Rewrites(req[q]),
           Commits(q, req[q].gate), UNCHANGED plan, alerted' \subseteq alerted \cup (1..Len(session))
    PROVE  SessionTypes' /\ \A g \in Gates \ overlap' : g # req[q].gate => Chained(g)'
  <1> DEFINE r == req[q]
             n == Len(session)
  <1>0. /\ session \in Seq(SessionRow) /\ n \in Nat /\ alerted \subseteq 1..n
        /\ overlap \subseteq Gates /\ plan \subseteq Gates \X Shifts
        /\ req = [p \in Requests |-> req[p]] /\ DOMAIN req = Requests
    BY DEF SessionInv, SessionTypes, RequestsSound
  <1>1. /\ req'[q] = Free /\ \A p \in Requests \ {q} : req'[p] = req[p]
        /\ DOMAIN req' = Requests /\ req' = [p \in Requests |-> req'[p]]
    BY <1>0 DEF Commits
  <1>2. overlap \subseteq overlap' /\ overlap' \subseteq Gates
    BY <1>0 DEF Commits, Decided
  <1>3. /\ 1..n \subseteq 1..Len(session')
        /\ \A k \in 1..Len(session') : k \in 1..n \/ (k = n + 1 /\ Len(session') = n + 1)
    BY <1>0 DEF Rewrites
  <1>4. Len(session') = n + 1 => /\ session'[n + 1].gate = r.gate /\ session'[n + 1].prev = r.id
                                 /\ session'[n + 1].status = "ACTIVE"
    BY <1>0 DEF Rewrites, NewSession
  <1>5. RequestsSound'
    <2> SUFFICES ASSUME NEW p \in Requests, req'[p] # Free PROVE Decided(req[p])'
      BY <1>1 DEF RequestsSound
    <2>1. p # q /\ req'[p] = req[p] /\ Decided(req[p])
      BY <1>1 DEF SessionInv, SessionTypes, RequestsSound
    <2> QED
      BY <1>3, <2>1 DEF Decided, Rewrites
  <1>6. Links'
    <2> SUFFICES ASSUME NEW k \in 1..Len(session'), session'[k].prev # NoId
                 PROVE  /\ session'[k].prev \in 1..Len(session')
                        /\ session'[session'[k].prev].gate = session'[k].gate
      BY DEF Links
    <2>1. CASE k \in 1..n
      BY <1>3, <2>1 DEF Rewrites, SessionInv, SessionTypes, Links
    <2>2. CASE k = n + 1 /\ Len(session') = n + 1
      <3>1. r.id \in 1..n /\ session[r.id].gate = r.gate
        BY <1>4, <2>2 DEF Decided
      <3> QED
        BY <1>3, <1>4, <2>2, <3>1 DEF Rewrites
    <2> QED
      BY <1>3, <2>1, <2>2
  <1>7. alerted' \subseteq 1..Len(session') /\ plan' \subseteq Gates \X Shifts
    BY <1>0, <1>3
  <1>8. SessionTypes'
    BY <1>2, <1>5, <1>6, <1>7 DEF SessionTypes, Rewrites
  <1>9. ASSUME NEW g \in Gates \ overlap', g # r.gate PROVE Chained(g)'
    <2>1. Chained(g)
      BY <1>2 DEF SessionInv
    <2>2. \A k \in 1..n : session[k].gate = g => session'[k] = session[k] /\ k # r.id
      BY <1>9 DEF Rewrites, Decided, NoId
    <2>3. \A k \in 1..Len(session') : session'[k].gate = g => k \in 1..n /\ session[k].gate = g
      BY <1>3, <1>4, <1>9 DEF Rewrites
    <2>4. OpenAt(g)' = OpenAt(g)
      BY <1>0, <1>3, <2>2, <2>3 DEF OpenAt, Rewrites
    <2>5. ASSUME NEW p \in Requests, req'[p] # Free, req'[p].gate = g PROVE StillThere(req[p])'
      <3>1. p # q /\ req'[p] = req[p]
        BY <1>1, <2>5
      <3>2. Decided(req[p]) /\ StillThere(req[p])
        BY <2>1, <2>5, <3>1 DEF SessionInv, SessionTypes, RequestsSound, Chained
      <3> QED
        BY <2>2, <2>4, <2>5, <3>1, <3>2 DEF StillThere, Decided
    <2>6. ASSUME NEW k \in 1..Len(session'), session'[k].gate = g, session'[k].prev # NoId
          PROVE  /\ session'[session'[k].prev].status = "COMPLETED"
                 /\ \A j \in 1..Len(session') :
                      session'[j].gate = g /\ session'[j].prev = session'[k].prev => j = k
      <3>1. k \in 1..n /\ session[k].gate = g /\ session'[k] = session[k]
        BY <2>2, <2>3, <2>6
      <3>2. session[k].prev \in 1..n /\ session[session[k].prev].gate = g
        BY <2>6, <3>1 DEF SessionInv, SessionTypes, Links
      <3>3. session[session[k].prev].status = "COMPLETED"
        BY <2>1, <2>6, <3>1 DEF Chained
      <3> QED
        BY <2>1, <2>2, <2>3, <2>6, <3>1, <3>2, <3>3 DEF Chained
    <2> QED
      BY <2>1, <2>4, <2>5, <2>6 DEF Chained
  <1> QED
    BY <1>8, <1>9

\* A commit at a gate that still counts as free of overlap found what it had read,
\* and no other request of the gate is in flight.
LEMMA CommitAlone ==
    ASSUME SessionInv, NEW q \in Requests, Decided(req[q]), Commits(q, req[q].gate),
           req[q] # Free, req[q].gate \notin overlap'
    PROVE  /\ Chained(req[q].gate) /\ StillThere(req[q])
           /\ \A p \in Requests : req'[p] = Free \/ req'[p].gate # req[q].gate
  <1>0. req = [p \in Requests |-> req[p]] /\ DOMAIN req = Requests
    BY DEF SessionInv, SessionTypes, RequestsSound
  <1>1. req'[q] = Free /\ \A p \in Requests \ {q} : req'[p] = req[p]
    BY <1>0 DEF Commits
  <1>2. req[q].gate \in Gates \ overlap
    BY DEF Commits, Decided
  <1>3. Chained(req[q].gate)
    BY <1>2 DEF SessionInv
  <1>4. \A p \in Requests \ {q} : req[p] = Free \/ req[p].gate # req[q].gate
    BY DEF Commits
  <1> QED
    BY <1>1, <1>3, <1>4 DEF Chained

\* The session a request is about is not over, or is reported, or another one starts.
Excused(r) ==
    \/ r.id = NoId \/ session'[r.id].status # "COMPLETED"
    \/ r.id \in alerted' \/ Len(session') = Len(session) + 1

\* Who was covered or reported still is, if the session the request is about is, or
\* is not over.
LEMMA CoverKept ==
    ASSUME SessionInv, NEW q \in Requests, Decided(req[q]), Rewrites(req[q]), alerted \subseteq alerted',
           Excused(req[q])
    PROVE  CoveredOrAlerted'
  <1> DEFINE r == req[q]
             n == Len(session)
  <1>0. /\ session \in Seq(SessionRow) /\ n \in Nat /\ DOMAIN session = 1..n
        /\ session' \in Seq(SessionRow) /\ DOMAIN session' = 1..Len(session')
    BY DEF SessionInv, SessionTypes, Rewrites
  <1>n. n \in Nat /\ Len(session') \in Nat
    BY <1>0
  <1>a. Len(session') = n \/ Len(session') = n + 1
    BY DEF Rewrites
  <1>b. Len(session') = n + 1 => session'[n + 1] = NewSession(r)
    BY <1>n DEF Rewrites
  <1>1. /\ 1..n \subseteq 1..Len(session')
        /\ \A k \in 1..Len(session') : k \in 1..n \/ (k = n + 1 /\ Len(session') = n + 1)
    BY <1>n, <1>a
  <1>2. Len(session') = n + 1 => /\ session'[n + 1].gate = r.gate /\ session'[n + 1].prev = r.id
                                 /\ session'[n + 1].status = "ACTIVE" /\ n + 1 \in 1..Len(session')
    BY <1>0, <1>b DEF NewSession
  <1> SUFFICES ASSUME NEW k \in 1..Len(session'), session'[k].status = "COMPLETED", k \notin alerted'
               PROVE  \E j \in 1..Len(session') :
                        session'[j].prev = k /\ session'[j].gate = session'[k].gate
    BY <1>0 DEF CoveredOrAlerted
  <1>3. k \in 1..n
    BY <1>1, <1>2
  <1>4. CASE k = r.id
    <2>1. k # NoId
      BY <1>3 DEF NoId
    <2>2. Len(session') = n + 1 /\ session[k].gate = r.gate
      BY <1>4, <2>1 DEF Decided, Excused
    <2> QED
      BY <1>2, <1>3, <1>4, <2>2 DEF Rewrites
  <1>5. CASE k # r.id
    <2>1. session'[k] = session[k]
      BY <1>3, <1>5 DEF Rewrites
    <2>2. PICK j \in 1..n : session[j].prev = k /\ session[j].gate = session[k].gate
      BY <1>0, <1>3, <2>1 DEF SessionInv, CoveredOrAlerted
    <2> QED
      BY <1>1, <2>1, <2>2 DEF Rewrites
  <1> QED
    BY <1>4, <1>5

\* check_in commits.
LEMMA CheckInCommits ==
    ASSUME SessionInv, NEW q \in Requests, CommitCheckIn(q)
    PROVE  SessionInv'
  <1> DEFINE r == req[q]
             n == Len(session)
  <1>0. /\ session \in Seq(SessionRow) /\ n \in Nat /\ n <= MaxSessions /\ DOMAIN session = 1..n
    BY DEF SessionInv, SessionTypes
  <1>1. /\ r.op = "check_in" /\ n < MaxSessions /\ Commits(q, r.gate) /\ UNCHANGED <<alerted, plan>>
        /\ session' = Append(session, NewSession(r)) \/ session' = session
    BY DEF CommitCheckIn
  <1>2. r # Free /\ Decided(r) /\ r.id = NoId
    BY <1>1 DEF SessionInv, SessionTypes, RequestsSound, Free, Decided
  <1>3. NewSession(r) \in SessionRow
    BY <1>2 DEF NewSession, Decided, SessionRow, Statuses
  <1>4. Rewrites(r)
    <2>1. CASE session' = session
      BY <1>0, <2>1 DEF Rewrites
    <2>2. CASE session' = Append(session, NewSession(r))
      <3>1. /\ session' \in Seq(SessionRow) /\ Len(session') = n + 1
            /\ session'[n + 1] = NewSession(r) /\ \A k \in 1..n : session'[k] = session[k]
        BY <1>0, <1>3, <2>2
      <3> QED
        BY <1>0, <1>1, <3>1, WorkerSessionAssumption DEF Rewrites
    <2> QED
      BY <1>1, <2>1, <2>2
  <1>5. CoveredOrAlerted'
    BY <1>1, <1>2, <1>4, CoverKept DEF Excused
  <1>6. SessionTypes' /\ \A g \in Gates \ overlap' : g # r.gate => Chained(g)'
    BY <1>1, <1>2, <1>4, CommitTypes
  <1>7. ASSUME NEW g \in Gates \ overlap', g = r.gate PROVE Chained(g)'
    <2>1. /\ Chained(g) /\ OpenAt(g) = {}
          /\ \A p \in Requests : req'[p] = Free \/ req'[p].gate # g
      BY <1>1, <1>2, <1>7, CommitAlone DEF StillThere
    <2>2. \A k \in 1..n : session'[k] = session[k]
      BY <1>2, <1>4, <1>0 DEF Rewrites, NoId
    <2>3. \A k \in 1..Len(session') :
            \/ k \in 1..n
            \/ /\ k = n + 1 /\ session'[k].prev = NoId /\ session'[k].gate = g
               /\ session'[k].status = "ACTIVE"
      BY <1>0, <1>2, <1>4, <1>7 DEF Rewrites, NewSession
    <2>4. DOMAIN session' = 1..Len(session') /\ 1..n \subseteq 1..Len(session')
      BY <1>0, <1>4 DEF Rewrites
    <2>5. \A i, j \in OpenAt(g)' : i = j
      <3>1. \A k \in 1..n : session[k].gate = g => session[k].status = "COMPLETED"
        BY <1>0, <2>1 DEF OpenAt
      <3>2. \A k \in OpenAt(g)' : k = n + 1
        BY <2>2, <2>3, <2>4, <3>1 DEF OpenAt
      <3> QED
        BY <3>2
    <2>6. ASSUME NEW k \in 1..Len(session'), session'[k].gate = g, session'[k].prev # NoId
          PROVE  /\ session'[session'[k].prev].status = "COMPLETED"
                 /\ \A j \in 1..Len(session') :
                      session'[j].gate = g /\ session'[j].prev = session'[k].prev => j = k
      <3>1. k \in 1..n /\ session'[k] = session[k]
        BY <2>2, <2>3, <2>6
      <3>2. session[k].prev \in 1..n
        BY <2>6, <3>1 DEF SessionInv, SessionTypes, Links
      <3>3. session[session[k].prev].status = "COMPLETED"
        BY <2>1, <2>6, <3>1 DEF Chained
      <3>4. ASSUME NEW j \in 1..Len(session'), session'[j].gate = g, session'[j].prev = session'[k].prev
            PROVE  j = k
        <4>1. j \in 1..n
          BY <2>3, <2>6, <3>4
        <4> QED
          BY <2>1, <2>2, <2>6, <3>1, <3>4, <4>1 DEF Chained
      <3> QED
        BY <2>2, <3>1, <3>2, <3>3, <3>4
    <2> QED
      BY <2>1, <2>5, <2>6 DEF Chained
  <1> QED
    BY <1>5, <1>6, <1>7 DEF SessionInv

\* At the gate of a commit that changes one row: the row is open as before, or over.
LEMMA OneRowChained ==
    ASSUME SessionInv, NEW q \in Requests, Decided(req[q]), Rewrites(req[q]), Len(session') = Len(session),
           req[q].id # NoId, NEW g, g = req[q].gate,
           Chained(g), session[req[q].id].status # "COMPLETED",
           \A p \in Requests : req'[p] = Free \/ req'[p].gate # g
    PROVE  Chained(g)'
  <1> DEFINE d == req[q].id
             n == Len(session)
  <1>0. /\ session \in Seq(SessionRow) /\ n \in Nat /\ DOMAIN session = 1..n /\ DOMAIN session' = 1..n
        /\ d \in 1..n
    BY DEF SessionInv, SessionTypes, Rewrites, Decided
  <1>1. \A k \in 1..n : /\ session'[k].gate = session[k].gate /\ session'[k].prev = session[k].prev
                        /\ k # d => session'[k] = session[k]
    BY DEF Rewrites
  <1>2. OpenAt(g)' \subseteq OpenAt(g)
    BY <1>0, <1>1 DEF OpenAt
  <1>3. \A i, j \in OpenAt(g)' : i = j
    BY <1>2 DEF Chained
  <1>4. ASSUME NEW k \in 1..n, session'[k].gate = g, session'[k].prev # NoId
        PROVE  /\ session'[session'[k].prev].status = "COMPLETED"
               /\ \A j \in 1..n : session'[j].gate = g /\ session'[j].prev = session'[k].prev => j = k
    <2>1. session[k].gate = g /\ session[k].prev # NoId
      BY <1>1, <1>4
    <2>2. session[k].prev \in 1..n
      BY <2>1 DEF SessionInv, SessionTypes, Links
    <2>3. session[session[k].prev].status = "COMPLETED" /\ session[k].prev # d
      BY <2>1 DEF Chained
    <2> QED
      BY <1>1, <2>1, <2>2, <2>3 DEF Chained
  <1> QED
    BY <1>3, <1>4 DEF Chained

\* confirm_outgoing and force_leave commit.
LEMMA OneRowCommits ==
    ASSUME SessionInv, NEW q \in Requests, CommitOutgoing(q) \/ CommitForceLeave(q)
    PROVE  SessionInv'
  <1> DEFINE r == req[q]
             n == Len(session)
  <1>0. /\ session \in Seq(SessionRow) /\ n \in Nat /\ n <= MaxSessions
    BY DEF SessionInv, SessionTypes
  <1>1. /\ r.op \in {"outgoing", "leave"} /\ Commits(q, r.gate) /\ UNCHANGED plan
    BY DEF CommitOutgoing, CommitForceLeave
  <1>2. r # Free /\ Decided(r) /\ r.id \in 1..n /\ r.id # NoId
    BY <1>1 DEF SessionInv, SessionTypes, RequestsSound, Free, Decided, NoId
  <1>3. PICK a \in Statuses, b \in {"none", "SCHEDULED", "FORCE_LEAVE"} :
          /\ session' = [session EXCEPT ![r.id].status = a, ![r.id].end = b]
          /\ \/ a = "PENDING_HANDOVER" /\ alerted' = alerted
             \/ a = "COMPLETED" /\ alerted' = alerted \cup {r.id}
    <2>1. "PENDING_HANDOVER" \in Statuses /\ "COMPLETED" \in Statuses
      BY DEF Statuses
    <2> QED
      BY <2>1 DEF CommitOutgoing, CommitForceLeave
  <1>4. /\ session' \in Seq(SessionRow) /\ Len(session') = n
        /\ session'[r.id].gate = session[r.id].gate /\ session'[r.id].prev = session[r.id].prev
        /\ session'[r.id].status = a /\ \A k \in 1..n : k # r.id => session'[k] = session[k]
    <2>1. PICK d \in 1..n : d = r.id
      BY <1>2
    <2>2. session[d] \in SessionRow
      BY <1>0
    <2>3. PICK u : u = [session[d] EXCEPT !.status = a, !.end = b]
      OBVIOUS
    <2>4. u \in SessionRow /\ u.gate = session[d].gate /\ u.prev = session[d].prev /\ u.status = a
      BY <2>2, <2>3 DEF SessionRow
    <2>5. session' = [session EXCEPT ![d].status = a, ![d].end = b]
      BY <1>3, <2>1
    <2>6. session' = [session EXCEPT ![d] = u]
      BY <2>3, <2>5
    <2>7. /\ session' \in Seq(SessionRow) /\ Len(session') = n
          /\ \A k \in 1..n : session'[k] = IF k = d THEN u ELSE session[k]
      BY <1>0, <2>4, <2>6
    <2> QED
      BY <2>1, <2>4, <2>7
  <1>5. Rewrites(r)
    BY <1>0, <1>4 DEF Rewrites
  <1>6. CoveredOrAlerted'
    <2>1. Excused(r) /\ alerted \subseteq alerted'
      BY <1>3, <1>4 DEF Excused
    <2> QED
      BY <1>2, <1>5, <2>1, CoverKept
  <1>7. SessionTypes' /\ \A g \in Gates \ overlap' : g # r.gate => Chained(g)'
    <2>1. alerted' \subseteq alerted \cup (1..n)
      BY <1>2, <1>3
    <2> QED
      BY <1>1, <1>2, <1>5, <2>1, CommitTypes
  <1>8. ASSUME NEW g \in Gates \ overlap', g = r.gate PROVE Chained(g)'
    <2>1. /\ Chained(g) /\ StillThere(r)
          /\ \A p \in Requests : req'[p] = Free \/ req'[p].gate # g
      BY <1>1, <1>2, <1>8, CommitAlone
    <2>2. session[r.id].status # "COMPLETED"
      BY <1>1, <2>1 DEF StillThere
    <2> QED
      BY <1>2, <1>4, <1>5, <1>8, <2>1, <2>2, OneRowChained
  <1> QED
    BY <1>6, <1>7, <1>8 DEF SessionInv

\* confirm_incoming commits.
LEMMA IncomingCommits ==
    ASSUME SessionInv, NEW q \in Requests, CommitIncoming(q)
    PROVE  SessionInv'
  <1> DEFINE r == req[q]
             n == Len(session)
  <1>0. /\ session \in Seq(SessionRow) /\ n \in Nat /\ n <= MaxSessions /\ MaxSessions \in Nat
    BY WorkerSessionAssumption DEF SessionInv, SessionTypes
  <1>1. /\ r.op = "incoming" /\ Commits(q, r.gate) /\ UNCHANGED <<alerted, plan>> /\ n < MaxSessions
        /\ session' = Append([session EXCEPT ![r.id].status = "COMPLETED"], NewSession(r))
    BY DEF CommitIncoming
  <1>2. r # Free /\ Decided(r) /\ r.id \in 1..n /\ r.id # NoId
    BY <1>1 DEF SessionInv, SessionTypes, RequestsSound, Free, Decided, NoId
  <1>3. NewSession(r) \in SessionRow
    <2>1. r.id \in Ids
      BY <1>0, <1>2 DEF Ids
    <2> QED
      BY <1>2, <2>1 DEF NewSession, Decided, SessionRow, Statuses
  <1>t. PICK t : t = [session EXCEPT ![r.id].status = "COMPLETED"]
    OBVIOUS
  <1>4. /\ t \in Seq(SessionRow) /\ Len(t) = n
        /\ t[r.id].gate = session[r.id].gate /\ t[r.id].prev = session[r.id].prev
        /\ t[r.id].status = "COMPLETED" /\ \A k \in 1..n : k # r.id => t[k] = session[k]
    <2>1. "COMPLETED" \in Statuses
      BY DEF Statuses
    <2> QED
      BY <1>0, <1>2, <1>t, <2>1, StatusSet
  <1>5. /\ session' \in Seq(SessionRow) /\ Len(session') = n + 1
        /\ session'[n + 1] = NewSession(r) /\ \A k \in 1..n : session'[k] = t[k]
    BY <1>0, <1>1, <1>3, <1>4, <1>t
  <1>6. Rewrites(r)
    <2>1. \A k \in 1..n : /\ session'[k].gate = session[k].gate
                          /\ session'[k].prev = session[k].prev
                          /\ k # r.id => session'[k] = session[k]
      BY <1>4, <1>5
    <2>2. n + 1 <= MaxSessions
      BY <1>0, <1>1
    <2> QED
      BY <1>5, <2>1, <2>2 DEF Rewrites
  <1>7. CoveredOrAlerted'
    <2>1. Excused(r) /\ alerted \subseteq alerted'
      BY <1>1, <1>5 DEF Excused
    <2> QED
      BY <1>2, <1>6, <2>1, CoverKept
  <1>8. SessionTypes' /\ \A g \in Gates \ overlap' : g # r.gate => Chained(g)'
    BY <1>1, <1>2, <1>6, CommitTypes
  <1>9. ASSUME NEW g \in Gates \ overlap', g = r.gate PROVE Chained(g)'
    <2>1. /\ Chained(g) /\ session[r.id].status = "PENDING_HANDOVER" /\ session[r.id].gate = g
          /\ \A p \in Requests : req'[p] = Free \/ req'[p].gate # g
      BY <1>1, <1>2, <1>9, CommitAlone DEF StillThere, Decided
    <2>2. /\ session'[n + 1].gate = g /\ session'[n + 1].prev = r.id
          /\ session'[n + 1].status = "ACTIVE"
      BY <1>5, <1>9 DEF NewSession
    <2>3. \A k \in 1..n : /\ session'[k].gate = session[k].gate /\ session'[k].prev = session[k].prev
                          /\ k # r.id => session'[k] = session[k]
      BY <1>4, <1>5
    <2>4. session'[r.id].status = "COMPLETED"
      BY <1>2, <1>4, <1>5
    <2>5. \A k \in 1..Len(session') : k \in 1..n \/ k = n + 1
      BY <1>0, <1>5
    <2>6. DOMAIN session = 1..n /\ DOMAIN session' = 1..Len(session')
      BY <1>0, <1>5
    <2>7. \A i, j \in OpenAt(g)' : i = j
      <3>1. r.id \in OpenAt(g)
        BY <1>2, <2>1, <2>6 DEF OpenAt
      <3>2. \A k \in 1..n : session[k].gate = g /\ session[k].status # "COMPLETED" => k = r.id
        BY <2>1, <2>6, <3>1 DEF OpenAt, Chained
      <3>3. \A k \in OpenAt(g)' : k = n + 1
        BY <2>3, <2>4, <2>5, <2>6, <3>2 DEF OpenAt
      <3> QED
        BY <3>3
    <2>8. \A k \in 1..n : session[k].gate = g /\ session[k].prev # NoId =>
            /\ session[k].prev \in 1..n /\ session[k].prev # r.id
            /\ session[session[k].prev].status = "COMPLETED"
      BY <2>1 DEF Chained, SessionInv, SessionTypes, Links
    <2>9. ASSUME NEW k \in 1..Len(session'), session'[k].gate = g, session'[k].prev # NoId
          PROVE  /\ session'[session'[k].prev].status = "COMPLETED"
                 /\ \A j \in 1..Len(session') :
                      session'[j].gate = g /\ session'[j].prev = session'[k].prev => j = k
      <3>1. CASE k = n + 1
        <4>1. session'[session'[k].prev].status = "COMPLETED"
          BY <2>2, <2>4, <3>1
        <4>2. \A j \in 1..n : session'[j].gate = g => session'[j].prev # r.id
          BY <1>2, <2>3, <2>8
        <4> QED
          BY <2>2, <2>5, <3>1, <4>1, <4>2
      <3>2. CASE k \in 1..n
        <4>1. session[k].gate = g /\ session[k].prev # NoId /\ session'[k].prev = session[k].prev
          BY <2>3, <2>9, <3>2
        <4>2. /\ session[k].prev \in 1..n /\ session[k].prev # r.id
              /\ session[session[k].prev].status = "COMPLETED"
          BY <2>8, <3>2, <4>1
        <4>3. session'[session'[k].prev].status = "COMPLETED"
          BY <2>3, <4>1, <4>2
        <4>4. ASSUME NEW j \in 1..Len(session'), session'[j].gate = g, session'[j].prev = session'[k].prev
              PROVE  j = k
          <5>1. j \in 1..n
            BY <2>2, <2>5, <4>1, <4>2, <4>4
          <5>2. session[j].gate = g /\ session[j].prev = session[k].prev
            BY <2>3, <4>1, <4>4, <5>1
          <5> QED
            BY <2>1, <3>2, <4>1, <5>1, <5>2 DEF Chained
        <4> QED
          BY <4>3, <4>4
      <3> QED
        BY <2>5, <3>1, <3>2
    <2> QED
      BY <2>1, <2>7, <2>9 DEF Chained
  <1> QED
    BY <1>7, <1>8, <1>9 DEF SessionInv

\* The plan: a session's row is not touched.
LEMMA PlanStep ==
    ASSUME SessionInv, NEW a \in Gates \X Shifts, CreateAssignment(a) \/ DeleteAssignment(a)
    PROVE  SessionInv'
  <1>1. UNCHANGED <<session, alerted, req, overlap>>
    BY DEF CreateAssignment, DeleteAssignment
  <1>2. plan' \subseteq Gates \X Shifts
    BY DEF CreateAssignment, DeleteAssignment, SessionInv, SessionTypes
  <1> QED
    BY <1>1, <1>2 DEF SessionInv, SessionTypes, RequestsSound, Decided, Links, CoveredOrAlerted, Chained,
       StillThere, OpenAt

\* The invariant of the worker sessions.
LEMMA SessionsInvariant == SessionSpec => []SessionInv
  <1>1. SessionInit => SessionInv
    <2> SUFFICES ASSUME SessionInit PROVE SessionInv
      OBVIOUS
    <2>1. session = <<>> /\ session \in Seq(SessionRow) /\ Len(session) = 0 /\ DOMAIN session = {}
      BY DEF SessionInit
    <2>2. \A q \in Requests : req[q] = Free
      BY DEF SessionInit
    <2>3. RequestsSound
      BY <2>2 DEF SessionInit, RequestsSound
    <2>4. SessionTypes
      BY <2>1, <2>3, WorkerSessionAssumption DEF SessionInit, SessionTypes, Links
    <2> QED
      BY <2>1, <2>2, <2>4 DEF SessionInv, CoveredOrAlerted, Chained, OpenAt
  <1>2. SessionInv /\ [SessionNext]_sessionVars => SessionInv'
    <2> SUFFICES ASSUME SessionInv, [SessionNext]_sessionVars PROVE SessionInv'
      OBVIOUS
    <2>1. CASE UNCHANGED sessionVars
      BY <2>1 DEF sessionVars, SessionInv, SessionTypes, RequestsSound, Decided, Links,
         CoveredOrAlerted, Chained, StillThere, OpenAt
    <2> QED
      BY <2>1, Reads, CheckInCommits, OneRowCommits, IncomingCommits, PlanStep DEF SessionNext
  <1> QED
    BY <1>1, <1>2, PTL DEF SessionSpec

\* However requests overlap, a session that has ended was taken over at its gate or
\* left by force and reported (worker_session.py confirm_incoming, force_leave).
THEOREM NobodyLeftAlone == SessionSpec => []CoveredOrAlerted
  <1>1. SessionInv => CoveredOrAlerted
    BY DEF SessionInv
  <1> QED
    BY <1>1, SessionsInvariant, PTL

\* The sessions of a gate whose requests do not overlap form a chain
\* (worker_session.py check_in, confirm_outgoing, confirm_incoming).
THEOREM GatesChained == SessionSpec => []OneChainPerGate
  <1>1. SessionInv => OneChainPerGate
    <2> SUFFICES ASSUME SessionInv, NEW g \in Gates \ overlap
                 PROVE  /\ Cardinality(OpenAt(g)) <= 1
                        /\ \A i, j \in DOMAIN session :
                             /\ i # j /\ session[i].gate = g /\ session[j].gate = g
                             /\ session[i].prev # NoId
                             => session[i].prev # session[j].prev
      BY DEF OneChainPerGate
    <2>1. Chained(g) /\ DOMAIN session = 1..Len(session)
      BY DEF SessionInv, SessionTypes
    <2>2. Cardinality(OpenAt(g)) <= 1
      <3>1. CASE OpenAt(g) = {}
        BY <3>1, FS_EmptySet
      <3>2. CASE OpenAt(g) # {}
        <4>1. PICK i : OpenAt(g) = {i}
          BY <2>1, <3>2 DEF Chained
        <4> QED
          BY <4>1, FS_Singleton
      <3> QED
        BY <3>1, <3>2
    <2> QED
      BY <2>1, <2>2 DEF Chained
  <1> QED
    BY <1>1, SessionsInvariant, PTL

\* The rows of the sessions, of the alerts and of the plan have their types
\* (worker_session.py, models WorkerSession and OperatorAlert).
THEOREM SessionTyped == SessionSpec => []SessionTypeOK
  <1>1. SessionInv => SessionTypeOK
    BY DEF SessionInv, SessionTypes, SessionTypeOK, SessionRow, RequestsSound
  <1> QED
    BY <1>1, SessionsInvariant, PTL

\* At a gate without overlap, a session that has ended is never written again.
EndedStand ==
    \A k \in DOMAIN session :
        session[k].status = "COMPLETED" /\ session[k].gate \notin overlap =>
            k \in DOMAIN session' /\ session'[k] = session[k]

\* The session a commit rewrites has not ended.
LEMMA EndedSpared ==
    ASSUME SessionInv, NEW q \in Requests, req[q] # Free, req[q].op # "check_in",
           \A k \in 1..Len(session) :
               k # req[q].id => k \in DOMAIN session' /\ session'[k] = session[k]
    PROVE  EndedStand
  <1> SUFFICES ASSUME NEW k \in DOMAIN session, session[k].status = "COMPLETED",
                      session[k].gate \notin overlap
               PROVE  k # req[q].id
    <2>1. DOMAIN session = 1..Len(session)
      BY DEF SessionInv, SessionTypes
    <2> QED
      BY <2>1 DEF EndedStand
  <1>1. Decided(req[q])
    BY DEF SessionInv, SessionTypes, RequestsSound
  <1>2. CASE req[q].gate \in overlap
    BY <1>1, <1>2 DEF Decided
  <1>3. CASE req[q].gate \notin overlap
    <2>1. StillThere(req[q])
      BY <1>1, <1>3 DEF SessionInv, Chained, Decided
    <2> QED
      BY <1>1, <2>1 DEF Decided, StillThere
  <1> QED
    BY <1>2, <1>3

\* A takeover rewrites the session it takes over, and no other.
LEMMA IncomingWrites ==
    ASSUME SessionInv, NEW q \in Requests, CommitIncoming(q)
    PROVE  \A k \in 1..Len(session) :
               k # req[q].id => k \in DOMAIN session' /\ session'[k] = session[k]
  <1> DEFINE r == req[q]
             n == Len(session)
  <1>0. session \in Seq(SessionRow) /\ n \in Nat
    BY DEF SessionInv, SessionTypes
  <1>1. /\ r.op = "incoming"
        /\ session' = Append([session EXCEPT ![r.id].status = "COMPLETED"], NewSession(r))
    BY DEF CommitIncoming
  <1>2. r # Free /\ Decided(r) /\ r.id \in 1..n
    BY <1>1 DEF SessionInv, SessionTypes, RequestsSound, Free, Decided
  <1>t. PICK t : t = [session EXCEPT ![r.id].status = "COMPLETED"]
    OBVIOUS
  <1>4. /\ t \in Seq(SessionRow) /\ Len(t) = n
        /\ t[r.id].gate = session[r.id].gate /\ t[r.id].prev = session[r.id].prev
        /\ t[r.id].status = "COMPLETED" /\ \A k \in 1..n : k # r.id => t[k] = session[k]
    <2>1. "COMPLETED" \in Statuses
      BY DEF Statuses
    <2> QED
      BY <1>0, <1>2, <1>t, <2>1, StatusSet
  <1> QED
    BY <1>0, <1>1, <1>4, <1>t

\* An ended session keeps its end and is never handed over, left or reopened again, as
\* long as no two requests of its gate overlap: with overlap a late commit may reopen
\* one, since no row is locked (worker_session.py confirm_outgoing, confirm_incoming,
\* force_leave).
THEOREM EndedForGood == SessionSpec => [][EndedStand]_sessionVars
  <1>1. SessionInv /\ [SessionNext]_sessionVars => [EndedStand]_sessionVars
    <2> SUFFICES ASSUME SessionInv, SessionNext PROVE EndedStand
      OBVIOUS
    <2>0. session \in Seq(SessionRow) /\ Len(session) \in Nat /\ DOMAIN session = 1..Len(session)
      BY DEF SessionInv, SessionTypes
    <2>1. CASE UNCHANGED session
      BY <2>1 DEF EndedStand
    <2>2. ASSUME NEW q \in Requests, CommitCheckIn(q) PROVE EndedStand
      <3>1. CASE UNCHANGED session
        BY <2>1, <3>1
      <3>2. CASE session' = Append(session, NewSession(req[q]))
        BY <2>0, <3>2 DEF EndedStand
      <3> QED
        BY <2>2, <3>1, <3>2 DEF CommitCheckIn
    <2>3. ASSUME NEW q \in Requests, CommitOutgoing(q) \/ CommitForceLeave(q) PROVE EndedStand
      <3>1. req[q].op \in {"outgoing", "leave"} /\ req[q] # Free
        BY <2>3 DEF CommitOutgoing, CommitForceLeave, Free
      <3>2. PICK u : session' = [session EXCEPT ![req[q].id] = u]
        BY <2>3 DEF CommitOutgoing, CommitForceLeave
      <3>3. \A k \in 1..Len(session) :
                k # req[q].id => k \in DOMAIN session' /\ session'[k] = session[k]
        BY <2>0, <3>2
      <3> QED
        BY <3>1, <3>3, EndedSpared
    <2>4. ASSUME NEW q \in Requests, CommitIncoming(q) PROVE EndedStand
      <3>1. req[q].op = "incoming" /\ req[q] # Free
        BY <2>4 DEF CommitIncoming, Free
      <3> QED
        BY <2>4, <3>1, IncomingWrites, EndedSpared
    <2>5. ASSUME NEW q \in Requests,
                 \/ \E g \in Gates, w \in Workers : ReadCheckIn(q, g, w)
                 \/ \E i \in DOMAIN session :
                      \/ ReadOutgoing(q, i) \/ ReadForceLeave(q, i)
                      \/ \E w \in Workers : ReadIncoming(q, i, w)
          PROVE  UNCHANGED session
      BY <2>5 DEF ReadCheckIn, ReadOutgoing, ReadForceLeave, ReadIncoming, ReadSession
    <2>6. ASSUME NEW a \in Gates \X Shifts, CreateAssignment(a) \/ DeleteAssignment(a)
          PROVE  UNCHANGED session
      BY <2>6 DEF CreateAssignment, DeleteAssignment
    <2> QED
      BY <2>1, <2>2, <2>3, <2>4, <2>5, <2>6 DEF SessionNext
  <1> QED
    BY <1>1, SessionsInvariant, PTL DEF SessionSpec

-----------------------------------------------------------------------------
(* The migrations *)

GateRow == [code : InCodes \cup OutCodes, dir : {"IN", "OUT"}]
TrxRow  == [in : Nat, out : Nat, gate : Nat, inCode : InCodes, outCode : OutCodes \cup {"none"}]

\* A table of gates in which a code tells the direction.
Directed(gs) ==
    /\ gs \in Seq(GateRow)
    /\ \A k \in DOMAIN gs : gs[k].dir = IF gs[k].code \in InCodes THEN "IN" ELSE "OUT"

\* A transaction's references are there and name the gates it was made at.
RefersRight(t) ==
    /\ schema # "new" => /\ t.in \in DOMAIN ins /\ ins[t.in] = t.inCode
                         /\ t.out # 0 => t.out \in DOMAIN outs /\ outs[t.out] = t.outCode
    /\ schema = "new" => /\ t.in \in DOMAIN gates /\ gates[t.in] = Row(t.inCode, "IN")
                         /\ t.out # 0 => t.out \in DOMAIN gates /\ gates[t.out] = Row(t.outCode, "OUT")
    /\ t.gate # 0 => /\ t.gate \in DOMAIN gates
                     /\ gates[t.gate].code = IF t.out = 0 THEN t.inCode ELSE t.outCode

MigrationInv ==
    /\ ins \in Seq(InCodes) /\ outs \in Seq(OutCodes) /\ Directed(gates) /\ trx \in Seq(TrxRow)
    /\ \A k \in DOMAIN trx : RefersRight(trx[k])

\* INSERT ... SELECT ... ON CONFLICT DO NOTHING keeps the rows that were there, and
\* afterwards every code of the old table has a row of its direction, in whatever
\* order the rows were read.
LEMMA CopyComplete ==
    ASSUME NEW gs, Directed(gs), NEW Cs \in {InCodes, OutCodes}, NEW old \in Seq(Cs),
           NEW d, (d = "IN" /\ Cs = InCodes) \/ (d = "OUT" /\ Cs = OutCodes),
           NEW new \in Copied(gs, old, d)
    PROVE  /\ Directed(new)
           /\ \A k \in DOMAIN gs : k \in DOMAIN new /\ new[k] = gs[k]
           /\ \A c \in Places(old) : \E k \in DOMAIN new : new[k] = Row(c, d)
  <1> DEFINE left == Places(old) \ {gs[k].code : k \in DOMAIN gs}
             n == Cardinality(left)
  <1>1. PICK o \in Orders(left) : new = gs \o [k \in DOMAIN o |-> Row(o[k], d)]
    BY DEF Copied
  <1> DEFINE add == [k \in DOMAIN o |-> Row(o[k], d)]
  <1>2. n \in Nat
    <2>1. IsFiniteSet(1..Len(old))
      BY FS_Interval
    <2>2. old \in Surjection(1..Len(old), Places(old))
      BY DEF Places, Surjection
    <2>3. IsFiniteSet(Places(old))
      BY <2>1, <2>2, FS_Surjection
    <2>4. left \subseteq Places(old)
      OBVIOUS
    <2> HIDE DEF left
    <2> QED
      BY <2>3, <2>4, FS_Subset, FS_CardinalityType
  <1>3. o \in [1..n -> left] /\ Places(o) = left
    BY DEF Orders
  <1>4. left \subseteq Cs
    BY DEF Places
  <1>5. \A c \in Cs : Row(c, d) \in GateRow /\ Row(c, d).code = c /\ Row(c, d).dir = d
    BY DEF Row, GateRow
  <1>6. \A c \in Cs : d = IF c \in InCodes THEN "IN" ELSE "OUT"
    BY MigrationAssumption
  <1> HIDE DEF left, n
  <1>7. add \in Seq(GateRow) /\ Len(add) = n /\ \A k \in 1..n : add[k] = Row(o[k], d) /\ o[k] \in Cs
    <2>1. \A k \in 1..n : Row(o[k], d) \in GateRow /\ o[k] \in Cs
      BY <1>3, <1>4, <1>5
    <2>2. add = [k \in 1..n |-> Row(o[k], d)]
      BY <1>3
    <2> HIDE DEF add
    <2>3. add \in [1..n -> GateRow]
      BY <2>1, <2>2
    <2>4. add \in Seq(GateRow) /\ Len(add) = n
      BY <1>2, <2>3
    <2> QED
      BY <2>1, <2>2, <2>4
  <1> HIDE DEF add
  <1>8. /\ gs \in Seq(GateRow) /\ new = gs \o add /\ new \in Seq(GateRow) /\ Len(gs) \in Nat
        /\ Len(new) = Len(gs) + n
    BY <1>1, <1>7 DEF Directed, add
  <1>9. \A k \in 1..Len(gs) : new[k] = gs[k]
    BY <1>7, <1>8
  <1>10. \A k \in 1..n : new[Len(gs) + k] = add[k]
    BY <1>2, <1>7, <1>8
  <1>11. Directed(new)
    <2> SUFFICES ASSUME NEW k \in 1..Len(new)
                 PROVE  new[k].dir = IF new[k].code \in InCodes THEN "IN" ELSE "OUT"
      BY <1>8 DEF Directed
    <2>1. CASE k \in 1..Len(gs)
      BY <1>8, <1>9, <2>1 DEF Directed
    <2>2. CASE k \notin 1..Len(gs)
      <3>1. k - Len(gs) \in 1..n /\ k = Len(gs) + (k - Len(gs))
        BY <1>2, <1>8, <2>2
      <3>2. PICK j \in 1..n : new[k] = Row(o[j], d) /\ o[j] \in Cs
        BY <1>7, <1>10, <3>1
      <3> QED
        BY <1>5, <1>6, <3>2
    <2> QED
      BY <2>1, <2>2
  <1>12. \A k \in DOMAIN gs : k \in DOMAIN new /\ new[k] = gs[k]
    <2>1. \A k \in 1..Len(gs) : k \in 1..Len(new)
      BY <1>2, <1>8
    <2> QED
      BY <1>8, <1>9, <2>1
  <1>13. ASSUME NEW c \in Places(old) PROVE \E k \in DOMAIN new : new[k] = Row(c, d)
    <2>1. c \in Cs
      BY DEF Places
    <2>2. CASE c \in left
      <3>1. PICK j \in 1..n : o[j] = c
        BY <1>3, <2>2 DEF Places
      <3>2. Len(gs) + j \in 1..Len(new)
        BY <1>2, <1>8
      <3>3. new[Len(gs) + j] = Row(c, d)
        BY <1>7, <1>10, <3>1
      <3> QED
        BY <1>8, <3>2, <3>3
    <2>3. CASE c \notin left
      <3>1. PICK k \in DOMAIN gs : gs[k].code = c
        BY <2>3 DEF left
      <3>2. gs[k] \in GateRow /\ gs[k].dir = d
        BY <1>6, <2>1, <3>1 DEF Directed
      <3>3. gs[k] = Row(c, d)
        BY <3>1, <3>2 DEF GateRow, Row
      <3> QED
        BY <1>12, <3>3
    <2> QED
      BY <2>2, <2>3
  <1> QED
    BY <1>11, <1>12, <1>13

\* UPDATE ... FROM gates finds the gate if there is one.
LEMMA FindsGate ==
    ASSUME NEW gs, NEW c, NEW d, NEW old, \E k \in DOMAIN gs : gs[k] = Row(c, d)
    PROVE  IdOf(gs, c, d, old) \in DOMAIN gs /\ gs[IdOf(gs, c, d, old)] = Row(c, d)
  <1> DEFINE hit == {k \in DOMAIN gs : gs[k] = Row(c, d)}
  <1>1. hit # {}
    OBVIOUS
  <1>2. IdOf(gs, c, d, old) = CHOOSE k \in hit : TRUE
    BY <1>1 DEF IdOf
  <1>3. (CHOOSE k \in hit : TRUE) \in hit
    BY <1>1
  <1> QED
    BY <1>2, <1>3

\* Both tables are copied, entry gates first: every old code has its row.
LEMMA BothComplete ==
    ASSUME MigrationInv, NEW gs, Directed(gs), NEW new \in BothCopied(gs)
    PROVE  /\ Directed(new)
           /\ \A k \in DOMAIN gs : k \in DOMAIN new /\ new[k] = gs[k]
           /\ \A c \in Places(ins) : \E k \in DOMAIN new : new[k] = Row(c, "IN")
           /\ \A c \in Places(outs) : \E k \in DOMAIN new : new[k] = Row(c, "OUT")
  <1>1. PICK mid \in Copied(gs, ins, "IN") : new \in Copied(mid, outs, "OUT")
    BY DEF BothCopied
  <1>2. ins \in Seq(InCodes) /\ outs \in Seq(OutCodes)
    BY DEF MigrationInv
  <1>3. /\ Directed(mid)
        /\ \A k \in DOMAIN gs : k \in DOMAIN mid /\ mid[k] = gs[k]
        /\ \A c \in Places(ins) : \E k \in DOMAIN mid : mid[k] = Row(c, "IN")
    BY <1>2, CopyComplete
  <1>4. /\ Directed(new)
        /\ \A k \in DOMAIN mid : k \in DOMAIN new /\ new[k] = mid[k]
        /\ \A c \in Places(outs) : \E k \in DOMAIN new : new[k] = Row(c, "OUT")
    BY <1>1, <1>2, <1>3, CopyComplete
  <1> QED
    BY <1>3, <1>4

\* The first migration: the gate_id of every transaction is that of its gate.
LEMMA UnifyKeeps ==
    ASSUME MigrationInv, Unify
    PROVE  MigrationInv'
  <1>0. ins \in Seq(InCodes) /\ outs \in Seq(OutCodes) /\ trx \in Seq(TrxRow)
    BY DEF MigrationInv
  <1>1. schema = "old" /\ schema' = "mixed" /\ UNCHANGED <<ins, outs>>
    BY DEF Unify
  <1> DEFINE Id(gs, t) == IF t.out = 0 THEN IdOf(gs, t.inCode, "IN", 0)
                          ELSE IdOf(gs, t.outCode, "OUT", IdOf(gs, t.inCode, "IN", 0))
  <1>2. PICK gs \in BothCopied(<<>>) :
            gates' = gs /\ trx' = [k \in DOMAIN trx |-> [trx[k] EXCEPT !.gate = Id(gs, trx[k])]]
    BY DEF Unify
  <1>3. Directed(<<>>)
    BY DEF Directed
  <1>4. /\ Directed(gs)
        /\ \A c \in Places(ins) : \E k \in DOMAIN gs : gs[k] = Row(c, "IN")
        /\ \A c \in Places(outs) : \E k \in DOMAIN gs : gs[k] = Row(c, "OUT")
    BY <1>3, BothComplete
  <1>5. ASSUME NEW k \in DOMAIN trx
        PROVE  trx'[k] \in TrxRow /\ RefersRight(trx[k])'
    <2>1. PICK t \in TrxRow : t = trx[k]
      BY <1>0
    <2>2. PICK g : g = Id(gs, t)
      OBVIOUS
    <2>3. PICK u : u = [t EXCEPT !.gate = g]
      OBVIOUS
    <2>4. trx'[k] = u
      BY <1>2, <2>1, <2>2, <2>3
    <2>5. /\ t.in \in DOMAIN ins /\ ins[t.in] = t.inCode
          /\ t.out # 0 => t.out \in DOMAIN outs /\ outs[t.out] = t.outCode
      BY <1>1, <2>1 DEF MigrationInv, RefersRight
    <2>6. /\ g \in DOMAIN gs
          /\ gs[g].code = IF t.out = 0 THEN t.inCode ELSE t.outCode
      <3>1. CASE t.out = 0
        <4>1. t.inCode \in Places(ins)
          BY <2>5 DEF Places
        <4>2. g = IdOf(gs, t.inCode, "IN", 0)
          BY <2>2, <3>1
        <4>3. g \in DOMAIN gs /\ gs[g] = Row(t.inCode, "IN")
          BY <1>4, <4>1, <4>2, FindsGate
        <4> QED
          BY <3>1, <4>3 DEF Row
      <3>2. CASE t.out # 0
        <4>1. t.outCode \in Places(outs)
          BY <2>5, <3>2 DEF Places
        <4>2. g = IdOf(gs, t.outCode, "OUT", IdOf(gs, t.inCode, "IN", 0))
          BY <2>2, <3>2
        <4>3. g \in DOMAIN gs /\ gs[g] = Row(t.outCode, "OUT")
          BY <1>4, <4>1, <4>2, FindsGate
        <4> QED
          BY <3>2, <4>3 DEF Row
      <3> QED
        BY <3>1, <3>2
    <2>7. g \in Nat
      <3>1. DOMAIN gs = 1..Len(gs) /\ Len(gs) \in Nat
        BY <1>4 DEF Directed
      <3> QED
        BY <2>6, <3>1
    <2>8. /\ u \in TrxRow /\ u.in = t.in /\ u.out = t.out /\ u.inCode = t.inCode
          /\ u.outCode = t.outCode /\ u.gate = g
      BY <2>3, <2>7 DEF TrxRow
    <2> QED
      BY <1>1, <1>2, <2>4, <2>5, <2>6, <2>8 DEF RefersRight
  <1>6. trx' \in Seq(TrxRow) /\ DOMAIN trx' = DOMAIN trx
    <2>1. DOMAIN trx = 1..Len(trx) /\ Len(trx) \in Nat /\ DOMAIN trx' = DOMAIN trx
      BY <1>0, <1>2
    <2>2. trx' \in [1..Len(trx) -> TrxRow]
      BY <1>2, <1>5, <2>1
    <2> QED
      BY <2>1, <2>2
  <1> QED
    BY <1>0, <1>1, <1>2, <1>4, <1>5, <1>6 DEF MigrationInv

\* The second migration: the references are those of the gates of the same codes.
LEMMA DropKeeps ==
    ASSUME MigrationInv, DropOld
    PROVE  MigrationInv'
  <1>0. ins \in Seq(InCodes) /\ outs \in Seq(OutCodes) /\ trx \in Seq(TrxRow) /\ Directed(gates)
    BY DEF MigrationInv
  <1>1. schema = "mixed"
    BY DEF DropOld
  <1>2. PICK gs \in BothCopied(gates) :
            \/ UNCHANGED migrationVars
            \/ /\ schema' = "new" /\ gates' = gs /\ trx' = Repointed(gs)
               /\ ins' = <<>> /\ outs' = <<>>
    BY DEF DropOld
  <1>3. CASE UNCHANGED migrationVars
    BY <1>3 DEF MigrationInv, RefersRight, migrationVars
  <1>4. CASE /\ schema' = "new" /\ gates' = gs /\ trx' = Repointed(gs)
             /\ ins' = <<>> /\ outs' = <<>>
    <2>1. /\ Directed(gs)
          /\ \A c \in Places(ins) : \E k \in DOMAIN gs : gs[k] = Row(c, "IN")
          /\ \A c \in Places(outs) : \E k \in DOMAIN gs : gs[k] = Row(c, "OUT")
      BY <1>0, BothComplete
    <2>2. DOMAIN gs = 1..Len(gs) /\ Len(gs) \in Nat
      BY <2>1 DEF Directed
    <2>3. ASSUME NEW k \in DOMAIN trx
          PROVE  trx'[k] \in TrxRow /\ RefersRight(trx[k])'
      <3>1. PICK t \in TrxRow : t = trx[k]
        BY <1>0
      <3>2. PICK i : i = IdOf(gs, ins[t.in], "IN", t.in)
        OBVIOUS
      <3>3. PICK o : o = IF t.out = 0 THEN 0 ELSE IdOf(gs, outs[t.out], "OUT", t.out)
        OBVIOUS
      <3>4. PICK u : u = [t EXCEPT !.in = i, !.out = o, !.gate = 0]
        OBVIOUS
      <3>5. trx'[k] = u
        BY <1>4, <3>1, <3>2, <3>3, <3>4 DEF Repointed
      <3>6. /\ t.in \in DOMAIN ins /\ ins[t.in] = t.inCode
            /\ t.out # 0 => t.out \in DOMAIN outs /\ outs[t.out] = t.outCode
        BY <1>1, <3>1 DEF MigrationInv, RefersRight
      <3>7. i \in DOMAIN gs /\ gs[i] = Row(t.inCode, "IN")
        <4>1. t.inCode \in Places(ins)
          BY <3>6 DEF Places
        <4> QED
          BY <2>1, <3>2, <3>6, <4>1, FindsGate
      <3>8. CASE t.out = 0
        <4>1. o = 0
          BY <3>3, <3>8
        <4>2. i \in Nat
          BY <2>2, <3>7
        <4>3. u \in TrxRow /\ u.in = i /\ u.out = 0 /\ u.inCode = t.inCode /\ u.gate = 0
          BY <3>4, <4>1, <4>2 DEF TrxRow
        <4> QED
          BY <1>4, <3>5, <3>7, <4>3 DEF RefersRight
      <3>9. CASE t.out # 0
        <4>1. t.outCode \in Places(outs)
          BY <3>6, <3>9 DEF Places
        <4>2. o = IdOf(gs, t.outCode, "OUT", t.out)
          BY <3>3, <3>6, <3>9
        <4>3. o \in DOMAIN gs /\ gs[o] = Row(t.outCode, "OUT")
          BY <2>1, <4>1, <4>2, FindsGate
        <4>4. i \in Nat /\ o \in Nat
          BY <2>2, <3>7, <4>3
        <4>5. /\ u \in TrxRow /\ u.in = i /\ u.out = o /\ u.inCode = t.inCode
              /\ u.outCode = t.outCode /\ u.gate = 0
          BY <3>4, <4>4 DEF TrxRow
        <4> QED
          BY <1>4, <3>5, <3>7, <4>3, <4>5 DEF RefersRight
      <3> QED
        BY <3>8, <3>9
    <2>4. trx' \in Seq(TrxRow) /\ DOMAIN trx' = DOMAIN trx
      <3>0. DOMAIN trx' = DOMAIN trx
        BY <1>4 DEF Repointed
      <3>1. DOMAIN trx = 1..Len(trx) /\ Len(trx) \in Nat /\ DOMAIN trx' = DOMAIN trx
        BY <1>0, <3>0
      <3>2. trx' \in [1..Len(trx) -> TrxRow]
        BY <1>4, <2>3, <3>1 DEF Repointed
      <3> QED
        BY <3>1, <3>2
    <2>5. ins' \in Seq(InCodes) /\ outs' \in Seq(OutCodes)
      BY <1>4
    <2> QED
      BY <1>4, <2>1, <2>3, <2>4, <2>5 DEF MigrationInv
  <1> QED
    BY <1>2, <1>3, <1>4

\* Rows that are added, and the way back, move no reference.
LEMMA AddKeeps ==
    ASSUME MigrationInv,
           (\E c \in InCodes \cup OutCodes : AddOld(c) \/ AddUnified(c)) \/ AddTransaction \/ Downgrade
    PROVE  MigrationInv'
  <1>0. ins \in Seq(InCodes) /\ outs \in Seq(OutCodes) /\ trx \in Seq(TrxRow) /\ Directed(gates)
    BY DEF MigrationInv
  <1>1. ASSUME NEW c \in InCodes \cup OutCodes, AddOld(c) PROVE MigrationInv'
    <2>1. schema # "new" /\ UNCHANGED <<schema, gates, trx>>
      BY <1>1 DEF AddOld
    <2>2. ins' \in Seq(InCodes) /\ \A i \in DOMAIN ins : i \in DOMAIN ins' /\ ins'[i] = ins[i]
      <3>1. CASE c \in InCodes
        BY <1>0, <1>1, <3>1 DEF AddOld
      <3>2. CASE c \notin InCodes
        BY <1>0, <1>1, <3>2 DEF AddOld
      <3> QED
        BY <3>1, <3>2
    <2>3. outs' \in Seq(OutCodes) /\ \A i \in DOMAIN outs : i \in DOMAIN outs' /\ outs'[i] = outs[i]
      <3>1. CASE c \in OutCodes
        BY <1>0, <1>1, <3>1 DEF AddOld
      <3>2. CASE c \notin OutCodes
        BY <1>0, <1>1, <3>2 DEF AddOld
      <3> QED
        BY <3>1, <3>2
    <2> QED
      BY <1>0, <2>1, <2>2, <2>3 DEF MigrationInv, RefersRight, Directed
  <1>2. ASSUME NEW c \in InCodes \cup OutCodes, AddUnified(c) PROVE MigrationInv'
    <2>1. PICK g : g = Row(c, IF c \in InCodes THEN "IN" ELSE "OUT")
      OBVIOUS
    <2>2. schema = "mixed" /\ gates' = Append(gates, g) /\ UNCHANGED <<schema, ins, outs, trx>>
      BY <1>2, <2>1 DEF AddUnified
    <2>3. g \in GateRow /\ g.code = c /\ g.dir = IF c \in InCodes THEN "IN" ELSE "OUT"
      BY <2>1 DEF GateRow, Row
    <2>4. /\ gates \in Seq(GateRow) /\ gates' \in Seq(GateRow)
          /\ \A k \in DOMAIN gates : k \in DOMAIN gates' /\ gates'[k] = gates[k]
          /\ \A k \in DOMAIN gates' : k \in DOMAIN gates \/ gates'[k] = g
      BY <1>0, <2>2, <2>3 DEF Directed
    <2>5. Directed(gates')
      BY <1>0, <2>3, <2>4 DEF Directed
    <2> QED
      BY <1>0, <2>2, <2>4, <2>5 DEF MigrationInv, RefersRight
  <1>3. CASE AddTransaction
    <2>1. PICK i \in DOMAIN ins, o \in DOMAIN outs \cup {0} :
            trx' = Append(trx, [in |-> i, out |-> o, gate |-> 0, inCode |-> ins[i],
                                outCode |-> IF o = 0 THEN "none" ELSE outs[o]])
      BY <1>3 DEF AddTransaction
    <2>2. PICK oc : oc = IF o = 0 THEN "none" ELSE outs[o]
      OBVIOUS
    <2>3. PICK ic : ic = ins[i]
      OBVIOUS
    <2>4. PICK u : u = [in |-> i, out |-> o, gate |-> 0, inCode |-> ic, outCode |-> oc]
      OBVIOUS
    <2>5. schema # "new" /\ trx' = Append(trx, u) /\ UNCHANGED <<schema, ins, outs, gates>>
      BY <1>3, <2>1, <2>2, <2>3, <2>4 DEF AddTransaction
    <2>6. ic \in InCodes /\ i \in Nat
      BY <1>0, <2>3
    <2>7. oc \in OutCodes \cup {"none"} /\ o \in Nat
      <3>1. CASE o = 0
        BY <2>2, <3>1
      <3>2. CASE o # 0
        BY <1>0, <2>2, <3>2
      <3> QED
        BY <3>1, <3>2
    <2>8. /\ u \in TrxRow /\ u.in = i /\ u.out = o /\ u.gate = 0 /\ u.inCode = ic /\ u.outCode = oc
      BY <2>4, <2>6, <2>7 DEF TrxRow
    <2>9. RefersRight(u)
      BY <2>1, <2>2, <2>3, <2>5, <2>8 DEF RefersRight
    <2>10. /\ trx' \in Seq(TrxRow)
           /\ \A k \in DOMAIN trx' : (k \in DOMAIN trx /\ trx'[k] = trx[k]) \/ trx'[k] = u
      BY <1>0, <2>5, <2>8
    <2>11. \A k \in DOMAIN trx' : RefersRight(trx'[k])
      BY <2>9, <2>10 DEF MigrationInv
    <2> QED
      BY <1>0, <2>5, <2>10, <2>11 DEF MigrationInv, RefersRight
  <1>4. CASE Downgrade
    <2>1. /\ schema = "mixed" /\ schema' = "old" /\ gates' = <<>> /\ UNCHANGED <<ins, outs>>
          /\ trx' = [k \in DOMAIN trx |-> [trx[k] EXCEPT !.gate = 0]]
      BY <1>4 DEF Downgrade
    <2>2. ASSUME NEW k \in DOMAIN trx
          PROVE  trx'[k] \in TrxRow /\ RefersRight(trx[k])'
      <3>1. PICK t \in TrxRow : t = trx[k]
        BY <1>0
      <3>2. PICK u : u = [t EXCEPT !.gate = 0]
        OBVIOUS
      <3>3. trx'[k] = u
        BY <2>1, <3>1, <3>2
      <3>4. /\ u \in TrxRow /\ u.in = t.in /\ u.out = t.out /\ u.inCode = t.inCode
            /\ u.outCode = t.outCode /\ u.gate = 0
        BY <3>2 DEF TrxRow
      <3>5. /\ t.in \in DOMAIN ins /\ ins[t.in] = t.inCode
            /\ t.out # 0 => t.out \in DOMAIN outs /\ outs[t.out] = t.outCode
        BY <2>1, <3>1 DEF MigrationInv, RefersRight
      <3> QED
        BY <2>1, <3>3, <3>4, <3>5 DEF RefersRight
    <2>3. trx' \in Seq(TrxRow) /\ DOMAIN trx' = DOMAIN trx
      <3>1. DOMAIN trx = 1..Len(trx) /\ Len(trx) \in Nat /\ DOMAIN trx' = DOMAIN trx
        BY <1>0, <2>1
      <3>2. trx' \in [1..Len(trx) -> TrxRow]
        BY <2>1, <2>2, <3>1
      <3> QED
        BY <3>1, <3>2
    <2>4. Directed(gates')
      BY <2>1 DEF Directed
    <2> QED
      BY <1>0, <2>1, <2>2, <2>3, <2>4 DEF MigrationInv
  <1> QED
    BY <1>1, <1>2, <1>3, <1>4

\* The invariant holds before the first gate, and every step keeps it.
LEMMA MigrationInvariant == MigrationSpec => []MigrationInv
  <1>1. MigrationInit => MigrationInv
    <2> SUFFICES ASSUME MigrationInit PROVE MigrationInv
      OBVIOUS
    <2>1. ins = <<>> /\ outs = <<>> /\ gates = <<>> /\ trx = <<>>
      BY DEF MigrationInit
    <2>2. ins \in Seq(InCodes) /\ outs \in Seq(OutCodes) /\ trx \in Seq(TrxRow)
      BY <2>1
    <2>3. Directed(gates)
      BY <2>1 DEF Directed
    <2> QED
      BY <2>1, <2>2, <2>3 DEF MigrationInv
  <1>2. MigrationInv /\ [MigrationNext]_migrationVars => MigrationInv'
    <2> SUFFICES ASSUME MigrationInv, [MigrationNext]_migrationVars PROVE MigrationInv'
      OBVIOUS
    <2>1. CASE UNCHANGED migrationVars
      BY <2>1 DEF MigrationInv, RefersRight, migrationVars
    <2> QED
      BY <2>1, UnifyKeeps, DropKeeps, AddKeeps DEF MigrationNext
  <1> QED
    BY <1>1, <1>2, PTL DEF MigrationSpec

\* However many gates and transactions are added before, between and after the two
\* migrations, in whatever order the database copies rows, and however often the first
\* is undone, a transaction refers to the gates it was made at (upgrade and downgrade
\* of 2026_04_27_unified_gate_and_pos.py, upgrade of f0bd4bac1599).
THEOREM ReferencesKept == MigrationSpec => []RefsKept
  <1>1. MigrationInv => RefsKept
    BY DEF MigrationInv, RefersRight, RefsKept, Places
  <1> QED
    BY <1>1, MigrationInvariant, PTL

\* A table of gates in which no code appears twice.
Distinct(gs) == \A j, k \in DOMAIN gs : gs[j].code = gs[k].code => j = k

MigrationKeys ==
    /\ schema \in {"old", "mixed", "new"}
    /\ IsInjective(ins) /\ IsInjective(outs) /\ Distinct(gates)

\* The rows that INSERT ... SELECT adds have codes of their own.
LEMMA CopyDistinct ==
    ASSUME NEW gs, Directed(gs), Distinct(gs), NEW Cs \in {InCodes, OutCodes}, NEW old \in Seq(Cs),
           NEW d, NEW new \in Copied(gs, old, d)
    PROVE  Distinct(new)
  <1> DEFINE left == Places(old) \ {gs[k].code : k \in DOMAIN gs}
             n == Cardinality(left)
  <1>1. PICK o \in Orders(left) : new = gs \o [k \in DOMAIN o |-> Row(o[k], d)]
    BY DEF Copied
  <1>2. n \in Nat
    <2>1. IsFiniteSet(1..Len(old))
      BY FS_Interval
    <2>2. old \in Surjection(1..Len(old), Places(old))
      BY DEF Places, Surjection
    <2>3. IsFiniteSet(Places(old))
      BY <2>1, <2>2, FS_Surjection
    <2>4. left \subseteq Places(old)
      OBVIOUS
    <2> HIDE DEF left
    <2> QED
      BY <2>3, <2>4, FS_Subset, FS_CardinalityType
  <1>3. o \in [1..n -> left] /\ Places(o) = left
    BY DEF Orders
  <1>4. \A c \in left, k \in DOMAIN gs : gs[k].code # c
    OBVIOUS
  <1> HIDE DEF left
  <1>5. \A j, k \in 1..n : o[j] = o[k] => j = k
    <2>1. o \in Surjection(1..n, left)
      BY <1>3 DEF Places, Surjection
    <2>2. IsFiniteSet(1..n) /\ Cardinality(1..n) = n
      BY <1>2, FS_Interval
    <2>3. o \in Injection(1..n, left)
      BY <2>1, <2>2, FS_SurjSameCardinalityImpliesInj
    <2> QED
      BY <2>3 DEF Injection, IsInjective
  <1> DEFINE add == [k \in 1..n |-> Row(o[k], d)]
  <1> HIDE DEF n
  <1>6. /\ \A k \in 1..n : add[k].code = o[k]
        /\ add \in Seq({Row(c, d) : c \in left}) /\ Len(add) = n
    <2>1. \A k \in 1..n : add[k] = Row(o[k], d)
      OBVIOUS
    <2>2. \A c \in left : Row(c, d).code = c
      BY DEF Row
    <2>3. add \in [1..n -> {Row(c, d) : c \in left}]
      BY <1>3
    <2> HIDE DEF add
    <2>4. add \in Seq({Row(c, d) : c \in left}) /\ Len(add) = n
      BY <1>2, <2>3
    <2> QED
      BY <1>3, <2>1, <2>2, <2>4
  <1>7. new = gs \o add
    BY <1>1, <1>3
  <1> HIDE DEF add
  <1>8. gs \in Seq(GateRow) /\ Len(gs) \in Nat
    BY DEF Directed
  <1>9. /\ DOMAIN new = 1..(Len(gs) + n)
        /\ \A k \in 1..Len(gs) : new[k] = gs[k]
        /\ \A k \in (Len(gs) + 1)..(Len(gs) + n) : new[k] = add[k - Len(gs)]
    BY <1>2, <1>6, <1>7, <1>8
  <1>10. \A k \in 1..(Len(gs) + n) :
            \/ k \in 1..Len(gs) /\ new[k].code = gs[k].code
            \/ k \notin 1..Len(gs) /\ k - Len(gs) \in 1..n /\ new[k].code = o[k - Len(gs)]
    <2> SUFFICES ASSUME NEW k \in 1..(Len(gs) + n)
                 PROVE  \/ k \in 1..Len(gs) /\ new[k].code = gs[k].code
                        \/ k \notin 1..Len(gs) /\ k - Len(gs) \in 1..n /\ new[k].code = o[k - Len(gs)]
      OBVIOUS
    <2>1. CASE k \in 1..Len(gs)
      BY <1>9, <2>1
    <2>2. CASE k \notin 1..Len(gs)
      <3>1. k \in (Len(gs) + 1)..(Len(gs) + n) /\ k - Len(gs) \in 1..n
        BY <1>2, <1>8, <2>2
      <3> QED
        BY <1>6, <1>9, <2>2, <3>1
    <2> QED
      BY <2>1, <2>2
  <1> SUFFICES ASSUME NEW j \in 1..(Len(gs) + n), NEW k \in 1..(Len(gs) + n), new[j].code = new[k].code
               PROVE  j = k
    BY <1>9 DEF Distinct
  <1>11. CASE j \in 1..Len(gs) /\ k \in 1..Len(gs)
    <2>1. gs[j].code = gs[k].code /\ DOMAIN gs = 1..Len(gs)
      BY <1>8, <1>10, <1>11
    <2> QED
      BY <1>11, <2>1 DEF Distinct
  <1>12. CASE j \notin 1..Len(gs) /\ k \notin 1..Len(gs)
    <2>1. j - Len(gs) \in 1..n /\ k - Len(gs) \in 1..n /\ o[j - Len(gs)] = o[k - Len(gs)]
      BY <1>10, <1>12
    <2>2. j - Len(gs) = k - Len(gs)
      BY <1>5, <2>1
    <2> QED
      BY <1>2, <1>8, <2>2
  <1>13. ASSUME NEW x \in 1..Len(gs), NEW y \in 1..(Len(gs) + n), y \notin 1..Len(gs)
         PROVE  new[x].code # new[y].code
    <2>1. x \in 1..(Len(gs) + n) /\ DOMAIN gs = 1..Len(gs)
      BY <1>2, <1>8
    <2>2. new[x].code = gs[x].code /\ y - Len(gs) \in 1..n /\ new[y].code = o[y - Len(gs)]
      BY <1>10, <1>13, <2>1
    <2>3. o[y - Len(gs)] \in left
      BY <1>3, <2>2 DEF n
    <2> QED
      BY <1>4, <2>1, <2>2, <2>3
  <1> QED
    BY <1>11, <1>12, <1>13

\* Appending a value that is not there keeps a sequence free of repetitions.
LEMMA AppendOnce ==
    ASSUME NEW S, NEW s \in Seq(S), IsInjective(s), NEW c \in S, c \notin Places(s)
    PROVE  IsInjective(Append(s, c))
  <1>1. Append(s, c) \in Seq(S) /\ Len(s) \in Nat /\ DOMAIN s = 1..Len(s)
    OBVIOUS
  <1>2. /\ DOMAIN Append(s, c) = 1..(Len(s) + 1)
        /\ \A k \in 1..Len(s) : Append(s, c)[k] = s[k]
        /\ Append(s, c)[Len(s) + 1] = c
    OBVIOUS
  <1>3. \A k \in 1..Len(s) : s[k] # c
    BY <1>1 DEF Places
  <1>4. \A j, k \in 1..Len(s) : s[j] = s[k] => j = k
    BY <1>1 DEF IsInjective
  <1>5. \A k \in 1..(Len(s) + 1) : k \in 1..Len(s) \/ k = Len(s) + 1
    BY <1>1
  <1>6. ASSUME NEW j \in 1..(Len(s) + 1), NEW k \in 1..(Len(s) + 1), Append(s, c)[j] = Append(s, c)[k]
        PROVE  j = k
    BY <1>2, <1>3, <1>4, <1>5, <1>6
  <1> QED
    BY <1>2, <1>6 DEF IsInjective

\* Codes stay unique: within a table of the old schema, and within gates.
LEMMA KeysStep ==
    MigrationInv /\ MigrationKeys /\ [MigrationNext]_migrationVars => MigrationKeys'
  <1> SUFFICES ASSUME MigrationInv, MigrationKeys, [MigrationNext]_migrationVars
               PROVE  MigrationKeys'
    OBVIOUS
  <1>0. /\ ins \in Seq(InCodes) /\ outs \in Seq(OutCodes) /\ Directed(gates) /\ Distinct(gates)
        /\ IsInjective(ins) /\ IsInjective(outs) /\ schema \in {"old", "mixed", "new"}
    BY DEF MigrationInv, MigrationKeys
  <1>1. ASSUME NEW gs, Directed(gs), Distinct(gs), NEW new \in BothCopied(gs) PROVE Distinct(new)
    <2>1. PICK mid \in Copied(gs, ins, "IN") : new \in Copied(mid, outs, "OUT")
      BY DEF BothCopied
    <2>2. Distinct(mid)
      BY <1>0, <1>1, CopyDistinct
    <2>3. Directed(mid)
      BY <1>0, <1>1, CopyComplete
    <2> QED
      BY <1>0, <2>1, <2>2, <2>3, CopyDistinct
  <1>2. ASSUME NEW c \in InCodes \cup OutCodes, AddOld(c) PROVE MigrationKeys'
    <2>1. IsInjective(ins')
      <3>1. CASE c \in InCodes
        <4>1. ins' = Append(ins, c) /\ c \notin Places(ins)
          BY <1>2, <3>1 DEF AddOld
        <4>2. IsInjective(Append(ins, c))
          BY <1>0, <3>1, <4>1, AppendOnce
        <4> QED
          BY <4>1, <4>2
      <3>2. CASE c \notin InCodes
        BY <1>0, <1>2, <3>2 DEF AddOld
      <3> QED
        BY <3>1, <3>2
    <2>2. IsInjective(outs')
      <3>1. CASE c \in OutCodes
        <4>1. outs' = Append(outs, c) /\ c \notin Places(outs)
          BY <1>2, <3>1 DEF AddOld
        <4>2. IsInjective(Append(outs, c))
          BY <1>0, <3>1, <4>1, AppendOnce
        <4> QED
          BY <4>1, <4>2
      <3>2. CASE c \notin OutCodes
        BY <1>0, <1>2, <3>2 DEF AddOld
      <3> QED
        BY <3>1, <3>2
    <2>3. UNCHANGED <<schema, gates>>
      BY <1>2 DEF AddOld
    <2> QED
      BY <1>0, <2>1, <2>2, <2>3 DEF MigrationKeys
  <1>3. ASSUME NEW c \in InCodes \cup OutCodes, AddUnified(c) PROVE MigrationKeys'
    <2>1. PICK g : g = Row(c, IF c \in InCodes THEN "IN" ELSE "OUT")
      OBVIOUS
    <2>2. gates' = Append(gates, g) /\ c \notin GateCodes /\ UNCHANGED <<schema, ins, outs>>
      BY <1>3, <2>1 DEF AddUnified
    <2>3. g.code = c /\ g \in GateRow
      BY <2>1 DEF Row, GateRow
    <2>4. \A k \in DOMAIN gates : gates[k].code # c
      BY <2>2 DEF GateCodes, Places
    <2>5. /\ gates \in Seq(GateRow) /\ DOMAIN gates' = 1..(Len(gates) + 1) /\ DOMAIN gates = 1..Len(gates)
          /\ \A k \in 1..Len(gates) : gates'[k] = gates[k]
          /\ gates'[Len(gates) + 1] = g /\ Len(gates) \in Nat
      BY <1>0, <2>2, <2>3 DEF Directed
    <2>6. ASSUME NEW j \in 1..(Len(gates) + 1), NEW k \in 1..(Len(gates) + 1),
                 gates'[j].code = gates'[k].code
          PROVE  j = k
      <3>1. CASE j \in 1..Len(gates) /\ k \in 1..Len(gates)
        BY <1>0, <2>5, <2>6, <3>1 DEF Distinct
      <3>2. CASE j \notin 1..Len(gates) /\ k \notin 1..Len(gates)
        BY <2>5, <3>2
      <3>3. ASSUME NEW x \in 1..Len(gates), NEW y \in 1..(Len(gates) + 1), y \notin 1..Len(gates)
            PROVE  gates'[x].code # gates'[y].code
        <4>1. y = Len(gates) + 1
          BY <2>5, <3>3
        <4> QED
          BY <2>3, <2>4, <2>5, <4>1
      <3> QED
        BY <2>6, <3>1, <3>2, <3>3
    <2>7. Distinct(gates')
      BY <2>5, <2>6 DEF Distinct
    <2> QED
      BY <1>0, <2>2, <2>7 DEF MigrationKeys
  <1>4. CASE AddTransaction
    BY <1>0, <1>4 DEF AddTransaction, MigrationKeys
  <1>5. CASE Unify
    <2>1. Directed(<<>>) /\ Distinct(<<>>)
      BY DEF Directed, Distinct
    <2>2. PICK gs \in BothCopied(<<>>) : gates' = gs
      BY <1>5 DEF Unify
    <2>3. Distinct(gates')
      BY <1>1, <2>1, <2>2
    <2> QED
      BY <1>0, <1>5, <2>3 DEF Unify, MigrationKeys
  <1>6. CASE Downgrade
    <2>1. Distinct(gates')
      BY <1>6 DEF Distinct, Downgrade
    <2> QED
      BY <1>0, <1>6, <2>1 DEF Downgrade, MigrationKeys
  <1>7. CASE DropOld
    <2>1. PICK gs \in BothCopied(gates) :
              \/ UNCHANGED migrationVars
              \/ schema' = "new" /\ gates' = gs /\ ins' = <<>> /\ outs' = <<>>
      BY <1>7 DEF DropOld
    <2>2. CASE UNCHANGED migrationVars
      BY <1>0, <2>2 DEF migrationVars, MigrationKeys
    <2>3. CASE schema' = "new" /\ gates' = gs /\ ins' = <<>> /\ outs' = <<>>
      <3>1. Distinct(gates')
        BY <1>0, <1>1, <2>3
      <3>2. IsInjective(ins') /\ IsInjective(outs')
        BY <2>3 DEF IsInjective
      <3> QED
        BY <2>3, <3>1, <3>2 DEF MigrationKeys
    <2> QED
      BY <2>1, <2>2, <2>3
  <1>8. CASE UNCHANGED migrationVars
    BY <1>0, <1>8 DEF migrationVars, MigrationKeys
  <1> QED
    BY <1>2, <1>3, <1>4, <1>5, <1>6, <1>7, <1>8 DEF MigrationNext

\* No migration and nothing done around them duplicates a gate's code, and every
\* reference of a transaction is an id that one of the tables has: what the unique
\* index on gates.code and the foreign keys of parking_transactions demand
\* (2026_04_27_unified_gate_and_pos.py, f0bd4bac1599).
THEOREM MigrationTyped == MigrationSpec => []MigrationTypeOK
  <1>1. MigrationInit => MigrationKeys
    BY DEF MigrationInit, MigrationKeys, IsInjective, Distinct
  <1>2. MigrationInv /\ MigrationKeys => MigrationTypeOK
    <2> SUFFICES ASSUME MigrationInv, MigrationKeys PROVE MigrationTypeOK
      OBVIOUS
    <2>1. /\ ins \in Seq(InCodes) /\ outs \in Seq(OutCodes) /\ gates \in Seq(GateRow)
          /\ trx \in Seq(TrxRow) /\ DOMAIN ins = 1..Len(ins) /\ DOMAIN outs = 1..Len(outs)
          /\ DOMAIN gates = 1..Len(gates)
          /\ Len(ins) \in Nat /\ Len(outs) \in Nat /\ Len(gates) \in Nat
      BY DEF MigrationInv, Directed
    <2>2. Cardinality(GateCodes) = Len(gates)
      <3> DEFINE f == [k \in 1..Len(gates) |-> gates[k].code]
      <3>1. GateCodes = {f[k] : k \in 1..Len(gates)}
        BY <2>1 DEF GateCodes, Places
      <3>2. \A j, k \in 1..Len(gates) : f[j] = f[k] => j = k
        BY <2>1 DEF MigrationKeys, Distinct
      <3>3. f \in [1..Len(gates) -> GateCodes]
        BY <3>1
      <3> HIDE DEF f
      <3>4. f \in Surjection(1..Len(gates), GateCodes)
        BY <3>1, <3>3 DEF Surjection
      <3>5. f \in Injection(1..Len(gates), GateCodes)
        BY <3>2, <3>3 DEF Injection, IsInjective
      <3>6. IsFiniteSet(1..Len(gates)) /\ Cardinality(1..Len(gates)) = Len(gates)
        <4>1. PICK n \in Nat : n = Len(gates)
          BY <2>1
        <4>2. IsFiniteSet(1..n) /\ Cardinality(1..n) = n
          BY FS_Interval
        <4> QED
          BY <4>1, <4>2
      <3> QED
        BY <3>4, <3>5, <3>6, FS_Surjection
    <2>3. Places(gates) \subseteq [code : InCodes \cup OutCodes, dir : {"IN", "OUT"}]
      <3>1. \A k \in DOMAIN gates : gates[k] \in GateRow
        BY <2>1
      <3>2. Places(gates) \subseteq GateRow
        BY <3>1 DEF Places
      <3> QED
        BY <3>2 DEF GateRow
    <2>4. ASSUME NEW k \in DOMAIN trx
          PROVE  /\ trx[k].in \in 0..(Len(ins) + Len(gates))
                 /\ trx[k].out \in 0..(Len(outs) + Len(gates))
                 /\ trx[k].gate \in 0..Len(gates)
      <3>1. PICK t \in TrxRow : t = trx[k]
        BY <2>1
      <3>2. t.in \in Nat /\ t.out \in Nat /\ t.gate \in Nat
        BY DEF TrxRow
      <3>3. RefersRight(t)
        BY <3>1 DEF MigrationInv
      <3>4. t.in \in 1..Len(ins) \/ t.in \in 1..Len(gates)
        BY <2>1, <3>3 DEF RefersRight
      <3>5. t.out = 0 \/ t.out \in 1..Len(outs) \/ t.out \in 1..Len(gates)
        BY <2>1, <3>3 DEF RefersRight
      <3>6. t.gate = 0 \/ t.gate \in 1..Len(gates)
        BY <2>1, <3>3 DEF RefersRight
      <3>7. /\ t.in \in 0..(Len(ins) + Len(gates)) /\ t.out \in 0..(Len(outs) + Len(gates))
            /\ t.gate \in 0..Len(gates)
        BY <2>1, <3>2, <3>4, <3>5, <3>6
      <3> QED
        BY <3>1, <3>7
    <2> QED
      BY <2>1, <2>2, <2>3, <2>4 DEF MigrationTypeOK, MigrationKeys, Places
  <1> QED
    BY <1>1, <1>2, KeysStep, MigrationInvariant, PTL DEF MigrationSpec

\* Once there is a table of gates, a row keeps its id.
IdsStand ==
    schema # "old" /\ schema' # "old" =>
        \A k \in DOMAIN gates : k \in DOMAIN gates' /\ gates'[k] = gates[k]

\* Between the two migrations and in the second one, whatever is inserted, no gate's id
\* changes its code or its direction: what other tables have stored of gates.id since the
\* first migration stays right (upgrade of f0bd4bac1599, ON CONFLICT DO NOTHING).
THEOREM GateIdsKept == MigrationSpec => [][IdsStand]_migrationVars
  <1>1. MigrationInv /\ [MigrationNext]_migrationVars => [IdsStand]_migrationVars
    <2> SUFFICES ASSUME MigrationInv, MigrationNext, schema # "old", schema' # "old"
                 PROVE  \A k \in DOMAIN gates : k \in DOMAIN gates' /\ gates'[k] = gates[k]
      BY DEF IdsStand
    <2>0. Directed(gates) /\ gates \in Seq(GateRow)
      BY DEF MigrationInv, Directed
    <2>1. CASE UNCHANGED gates
      BY <2>1
    <2>2. ASSUME NEW c \in InCodes \cup OutCodes, AddUnified(c)
          PROVE  \A k \in DOMAIN gates : k \in DOMAIN gates' /\ gates'[k] = gates[k]
      <3>1. PICK g : gates' = Append(gates, g)
        BY <2>2 DEF AddUnified
      <3> QED
        BY <2>0, <3>1
    <2>3. CASE DropOld
      <3>1. PICK gs \in BothCopied(gates) : gates' = gates \/ gates' = gs
        BY <2>3 DEF DropOld, migrationVars
      <3>2. \A k \in DOMAIN gates : k \in DOMAIN gs /\ gs[k] = gates[k]
        BY <2>0, BothComplete
      <3> QED
        BY <3>1, <3>2
    <2>4. ~Unify /\ ~Downgrade
      BY DEF Unify, Downgrade
    <2>5. ASSUME NEW c \in InCodes \cup OutCodes, AddOld(c) PROVE UNCHANGED gates
      BY <2>5 DEF AddOld
    <2>6. AddTransaction => UNCHANGED gates
      BY DEF AddTransaction
    <2> QED
      BY <2>1, <2>2, <2>3, <2>4, <2>5, <2>6 DEF MigrationNext
  <1> QED
    BY <1>1, MigrationInvariant, PTL DEF MigrationSpec

-----------------------------------------------------------------------------
(* The server as a whole *)

\* Each of the server's protocols runs as specified when all of them are put
\* together: they share no variable, and a step is a step of at most one of them.
LEMMA ServerParts ==
    Spec => /\ SessionSpec /\ AuthSpec /\ RateSpec /\ SetupSpec
            /\ MigrationSpec /\ LogSpec /\ ConfigSpec
  <1>1. Init => /\ SessionInit /\ AuthInit /\ RateInit /\ SetupInit
                /\ MigrationInit /\ LogInit /\ ConfigInit
    BY DEF Init
  <1>2. [Next]_vars => [SessionNext]_sessionVars
    BY DEF Next, vars
  <1>3. [Next]_vars => [AuthNext]_authVars
    BY DEF Next, vars
  <1>4. [Next]_vars => [RateNext]_rateVars
    BY DEF Next, vars
  <1>5. [Next]_vars => [SetupNext]_setupVars
    BY DEF Next, vars
  <1>6. [Next]_vars => [MigrationNext]_migrationVars
    BY DEF Next, vars
  <1>7. [Next]_vars => [LogNext]_logVars
    BY DEF Next, vars
  <1>8. [Next]_vars => [ConfigNext]_configVars
    BY DEF Next, vars
  <1> QED
    BY <1>1, <1>2, <1>3, <1>4, <1>5, <1>6, <1>7, <1>8, PTL
       DEF Spec, SessionSpec, AuthSpec, RateSpec, SetupSpec, MigrationSpec, LogSpec, ConfigSpec

\* Whatever requests, crashes and migrations interleave, the state of every protocol of
\* the server keeps its type: sessions and their links, tokens and their denylist, the
\* limiter's marks, the set-up wizard's steps, gates and transactions, the event stream,
\* configuration rows.
THEOREM ServerTypes == Spec => []ServerTypeOK
  <1>1. SessionTypeOK /\ AuthTypeOK /\ RateTypeOK /\ SetupTypeOK
           /\ MigrationTypeOK /\ LogTypeOK /\ ConfigTypeOK => ServerTypeOK
    BY DEF ServerTypeOK
  <1> QED
    BY <1>1, ServerParts, SessionTyped, AuthTyped, RateTyped, SetupTyped, MigrationTyped,
       LogTyped, ConfigTyped, PTL

\* For every stay, tariff and priced vehicle type, every table of shifts, every payload
\* whose length two bytes can say and every status read of up to two messages, the pure
\* functions meet their contracts (tariff.py calculate_tariff, shift_utils.py
\* get_current_shift, frame.py build_frame and parse_response, parser.py parse_stat).
THEOREM RulesHold == Spec => []RulesAgree
  <1>1. Init => IsSample
    BY DEF Init, IsSample
  <1>2. IsSample /\ [Next]_vars => IsSample'
    <2> SUFFICES ASSUME IsSample, [Next]_vars PROVE IsSample'
      OBVIOUS
    <2>1. sample' = sample
      BY DEF Next, vars
    <2> QED
      BY <2>1 DEF IsSample, RulesInit
  <1> QED
    BY <1>1, <1>2, RulesSound, PTL DEF Spec

=============================================================================
