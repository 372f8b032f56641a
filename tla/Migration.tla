------------------------------ MODULE Migration ------------------------------
(***************************************************************************)
(* The change of schema from entry and exit gates in two tables to one     *)
(* table: 2026_04_27_unified_gate_and_pos.py copies them, with the old     *)
(* tables left in place, and f0bd4bac1599_drop_old_gate_in_gate_out_       *)
(* tables.py copies what was added meanwhile, re-points the transactions   *)
(* and drops the old tables.  Each runs in one database transaction.       *)
(* A row's id is its place in its table, the columns that are only copied  *)
(* (names, addresses, hardware_config) are left out.                       *)
(***************************************************************************)
EXTENDS Integers, Sequences, FiniteSets, SequencesExt

CONSTANTS
    InCodes, OutCodes,   \* codes of entry and of exit gates
    MaxRows              \* bound: transactions

\* The naming scheme of the installations: no code is used in both directions.
ASSUME MigrationAssumption == InCodes \cap OutCodes = {} /\ MaxRows \in Nat

VARIABLES
    schema,      \* "old", "mixed" or "new"
    ins, outs,   \* gate_ins and gate_outs: their codes
    gates,       \* the unified table: code and direction
    trx          \* parking_transactions, with (history) the codes of their gates

migrationVars == <<schema, ins, outs, gates, trx>>

Places(s) == {s[i] : i \in DOMAIN s}
Orders(S) == {s \in [1..Cardinality(S) -> S] : Places(s) = S}
Row(c, d) == [code |-> c, dir |-> d]
GateCodes == {g.code : g \in Places(gates)}

MigrationTypeOK ==
    /\ schema \in {"old", "mixed", "new"}
    /\ ins \in Seq(InCodes) /\ outs \in Seq(OutCodes) /\ IsInjective(ins) /\ IsInjective(outs)
    /\ Places(gates) \subseteq [code : InCodes \cup OutCodes, dir : {"IN", "OUT"}]
    /\ Cardinality(GateCodes) = Len(gates)
    /\ \A t \in Places(trx) :
         /\ t.in \in 0..(Len(ins) + Len(gates)) /\ t.out \in 0..(Len(outs) + Len(gates))
         /\ t.gate \in 0..Len(gates)

MigrationInit ==
    /\ schema = "old" /\ ins = <<>> /\ outs = <<>> /\ gates = <<>> /\ trx = <<>>

-----------------------------------------------------------------------------
(* What happens around the migrations *)

\* The application that still uses the old tables adds a gate.
AddOld(c) ==
    /\ schema # "new" /\ c \notin Places(ins) \cup Places(outs)
    /\ ins' = IF c \in InCodes THEN Append(ins, c) ELSE ins
    /\ outs' = IF c \in OutCodes THEN Append(outs, c) ELSE outs
    /\ UNCHANGED <<schema, gates, trx>>

\* A gate is added to the unified table.
AddUnified(c) ==
    /\ schema = "mixed" /\ c \notin GateCodes
    /\ gates' = Append(gates, Row(c, IF c \in InCodes THEN "IN" ELSE "OUT"))
    /\ UNCHANGED <<schema, ins, outs, trx>>

\* A vehicle enters, and leaves again or is still inside.
AddTransaction ==
    /\ schema # "new" /\ Len(trx) < MaxRows
    /\ \E i \in DOMAIN ins, o \in DOMAIN outs \cup {0} :
         trx' = Append(trx, [in |-> i, out |-> o, gate |-> 0, inCode |-> ins[i],
                             outCode |-> IF o = 0 THEN "none" ELSE outs[o]])
    /\ UNCHANGED <<schema, ins, outs, gates>>

-----------------------------------------------------------------------------
(* 2026_04_27_unified_gate_and_pos *)

\* MUTANT of IdOf: the rows are matched by id.
IdOfSame(gs, c, d, old) == old

\* UPDATE ... FROM gates: the id of the gate of this code and direction, or the
\* value there was if there is none.
IdOf(gs, c, d, old) ==
    LET hit == {k \in DOMAIN gs : gs[k] = Row(c, d)}
    IN  IF hit = {} THEN old ELSE CHOOSE k \in hit : TRUE

\* INSERT ... SELECT ... ON CONFLICT (code) DO NOTHING: the rows of the old table
\* whose code is not there yet, in the order in which the database reads them.
Copied(gs, old, d) ==
    LET left == Places(old) \ {gs[k].code : k \in DOMAIN gs}
    IN  {gs \o [k \in DOMAIN o |-> Row(o[k], d)] : o \in Orders(left)}

\* Both tables, entry gates first.
BothCopied(gs) == UNION {Copied(with, outs, "OUT") : with \in Copied(gs, ins, "IN")}

\* The new table, and the transactions' gate_id: the exit gate's if there is one.
Unify ==
    /\ schema = "old" /\ schema' = "mixed"
    /\ \E gs \in BothCopied(<<>>) :
         /\ gates' = gs
         /\ trx' = [k \in DOMAIN trx |->
                      LET t == trx[k]
                          g == IdOf(gs, t.inCode, "IN", 0)
                      IN  [t EXCEPT !.gate = IF t.out = 0 THEN g ELSE IdOf(gs, t.outCode, "OUT", g)]]
    /\ UNCHANGED <<ins, outs>>

\* downgrade: the new structures are removed.
Downgrade ==
    /\ schema = "mixed" /\ schema' = "old" /\ gates' = <<>>
    /\ trx' = [k \in DOMAIN trx |-> [trx[k] EXCEPT !.gate = 0]]
    /\ UNCHANGED <<ins, outs>>

-----------------------------------------------------------------------------
(* f0bd4bac1599_drop_old_gate_in_gate_out_tables *)

\* The references to gates.id.
Repointed(gs) ==
    [k \in DOMAIN trx |->
        LET t == trx[k]
        IN  [t EXCEPT !.in = IdOf(gs, ins[t.in], "IN", t.in),
                      !.out = IF t.out = 0 THEN 0 ELSE IdOf(gs, outs[t.out], "OUT", t.out),
                      !.gate = 0]]

\* The foreign keys to gate_ins and gate_outs are dropped only after the
\* references have been changed: each of these has to be an old id as well.
Refused(ts) ==
    \E t \in Places(ts) :
        t.in \notin DOMAIN ins \/ (t.out # 0 /\ t.out \notin DOMAIN outs)

\* A refused statement rolls the whole migration back.
DropOld ==
    /\ schema = "mixed"
    /\ \E gs \in BothCopied(gates) :
         IF Refused(Repointed(gs))
         THEN UNCHANGED migrationVars
         ELSE /\ schema' = "new" /\ gates' = gs /\ trx' = Repointed(gs)
              /\ ins' = <<>> /\ outs' = <<>>

-----------------------------------------------------------------------------

MigrationNext ==
    \/ \E c \in InCodes \cup OutCodes : AddOld(c) \/ AddUnified(c)
    \/ AddTransaction \/ Unify \/ Downgrade \/ DropOld

MigrationSpec == MigrationInit /\ [][MigrationNext]_migrationVars

-----------------------------------------------------------------------------
(* Properties *)

\* Whatever is added before, between and after, and however often the first
\* migration is undone, a transaction refers to the gates it was made at: by the
\* old tables until these are dropped, by gates then, with its gate_id right in
\* between (upgrade of both migrations).
RefsKept ==
    \A t \in Places(trx) :
        /\ schema # "new" => /\ ins[t.in] = t.inCode
                             /\ t.out # 0 => outs[t.out] = t.outCode
        /\ schema = "new" => /\ gates[t.in] = Row(t.inCode, "IN")
                             /\ t.out # 0 => gates[t.out] = Row(t.outCode, "OUT")
        /\ t.gate # 0 => gates[t.gate].code = (IF t.out = 0 THEN t.inCode ELSE t.outCode)

=============================================================================
