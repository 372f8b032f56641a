-------------------------------- MODULE Config --------------------------------
(***************************************************************************)
(* Editing a configuration row: the routes made by routes/crud_factory.py  *)
(* and their hand-written likes for gates and POS booths, with the lane    *)
(* settings inside a gate's hardware_config and the heartbeat a booth      *)
(* writes into its own row.  A request reads the row, sets some fields and *)
(* commits; SQLAlchemy writes the columns that differ from what was read.  *)
(***************************************************************************)
EXTENDS Integers, FiniteSets

CONSTANTS
    Editors,   \* requests handled at a time
    MaxEdits   \* bound: edits acknowledged

ASSUME ConfigAssumption == MaxEdits \in Nat

\* Fields a request can set, and the columns that hold them.
Fields == {"name", "last_seen_at", "lane_type", "camera"}
ColumnOf(f) == IF f \in {"lane_type", "camera"} THEN "hardware_config" ELSE f
Columns == {ColumnOf(f) : f \in Fields}

\* What the edits may set together: PATCH of a row or of hardware_config,
\* lane-config, the heartbeat.
Edits == {{"name"}, {"name", "camera", "lane_type"}, {"lane_type"}, {"last_seen_at"}}

VARIABLES
    exists, row,   \* the row
    edit,          \* requests between read and commit: what they read and set
    edits,         \* history: edits acknowledged
    acked,         \* history: the value of each field last acknowledged
    crossed        \* history: columns with two edits in flight at once

configVars == <<exists, row, edit, edits, acked, crossed>>

Values == {0, 1}
NoEdit == [read |-> [f \in Fields |-> 0], set |-> {}, value |-> 0]

ConfigTypeOK ==
    /\ exists \in BOOLEAN /\ row \in [Fields -> Values] /\ acked \in [Fields -> Values]
    /\ edit \in [Editors -> [read : [Fields -> Values], set : SUBSET Fields, value : Values]]
    /\ edits \in 0..MaxEdits /\ crossed \subseteq Columns

ConfigInit ==
    /\ exists = TRUE /\ row = [f \in Fields |-> 0] /\ acked = row
    /\ edit = [e \in Editors |-> NoEdit] /\ edits = 0 /\ crossed = {}

Touched(fs) == {ColumnOf(f) : f \in fs}

\* update_item, update_gate, update_gate_lane_config, booth_heartbeat: the read.
ReadRow(e) ==
    /\ exists /\ edit[e] = NoEdit
    /\ \E fs \in Edits, v \in Values :
         /\ edit' = [edit EXCEPT ![e] = [read |-> row, set |-> fs, value |-> v]]
         /\ crossed' = crossed \cup
              {c \in Touched(fs) : \E o \in Editors \ {e} : c \in Touched(edit[o].set)}
    /\ UNCHANGED <<exists, row, edits, acked>>

\* The row as the request has it before the commit.
Desired(r, f) == IF f \in r.set THEN r.value ELSE r.read[f]

\* MUTANT of Written: the whole row is written back.
WrittenAll(r) == Columns

\* The columns the UPDATE names: those set to something else than was read, and
\* hardware_config when update_gate_lane_config flags it as modified.
Written(r) ==
    {c \in Columns :
        \/ \E f \in Fields : ColumnOf(f) = c /\ Desired(r, f) # r.read[f]
        \/ r.set = {"lane_type"} /\ c = "hardware_config"}

\* The commit; on a row deleted in the meantime it fails.
CommitEdit(e) ==
    LET r == edit[e]
    IN  /\ r # NoEdit /\ edits < MaxEdits
        /\ edit' = [edit EXCEPT ![e] = NoEdit]
        /\ IF exists
           THEN /\ row' = [f \in Fields |-> IF ColumnOf(f) \in Written(r)
                                            THEN Desired(r, f) ELSE row[f]]
                /\ acked' = [f \in Fields |-> IF f \in r.set THEN r.value ELSE acked[f]]
                /\ edits' = edits + 1
           ELSE UNCHANGED <<row, acked, edits>>
        /\ UNCHANGED <<exists, crossed>>

\* delete_item.
DeleteRow ==
    /\ exists /\ exists' = FALSE
    /\ UNCHANGED <<row, edit, edits, acked, crossed>>

\* create_item.
CreateRow ==
    /\ ~exists /\ exists' = TRUE
    /\ \A e \in Editors : edit[e] = NoEdit
    /\ row' = [f \in Fields |-> 0] /\ acked' = row'
    /\ UNCHANGED <<edit, edits, crossed>>

ConfigNext ==
    \/ \E e \in Editors : ReadRow(e) \/ CommitEdit(e)
    \/ DeleteRow \/ CreateRow

ConfigSpec == ConfigInit /\ [][ConfigNext]_configVars

-----------------------------------------------------------------------------
(* Properties *)

\* An edit that was acknowledged stands until a later edit of the same column:
\* edits of other columns, a booth's heartbeat among them, never undo it,
\* whatever they had read.  Only overlapping edits of one column can
\* (crud_factory.py update_item, pos.py booth_heartbeat).
ColumnsKept ==
    exists => \A f \in Fields : ColumnOf(f) \notin crossed => row[f] = acked[f]

=============================================================================
