-------------------------------- MODULE Jobs --------------------------------
(***************************************************************************)
(* The critical worker's jobs: printing a ticket or a receipt              *)
(* (workers/critical/print_worker.py), with the paper counter of its       *)
(* printer (also written by routes/printers.py), and taking the snapshots  *)
(* of a transaction (workers/critical/snapshot_worker.py, enqueued by      *)
(* api/app/services/snapshot_utils.py).                                    *)
(*                                                                         *)
(* at[j], the await a print job is at:                                     *)
(*   queued  waiting for a worker    config  reading the printer's row     *)
(*   paper   reading the counter     print   about to write to the printer *)
(*   read, count  reading and writing the counter after the print          *)
(*   alert   publishing print_failed_alert                                 *)
(*   success, skipped, failed, dead  over                                  *)
(* shot[s], where a snapshot job is: none, queued, save (picture on disk), *)
(* commit (row flushed, link read), show, done.                            *)
(***************************************************************************)
EXTENDS Integers, FiniteSets

CONSTANTS
    PrintJobs,    \* print jobs enqueued
    Capacity,     \* paper_capacity, the sheets of a full printer
    MaxTries,     \* max_tries of the worker
    Transactions, \* transactions whose snapshots are taken
    Cameras,      \* the gate's cameras
    JobFaults,    \* "db", "printer", "redis", "kill"
    MaxJobFaults  \* bound: faults

ASSUME JobsAssumption ==
    /\ IsFiniteSet(PrintJobs)
    /\ Capacity \in Nat /\ MaxTries \in Nat \ {0} /\ MaxJobFaults \in Nat
    /\ JobFaults \subseteq {"db", "printer", "redis", "kill"}

Kinds == {"entry", "exit"}
Shots == Transactions \X Kinds \X Cameras
Over  == {"success", "skipped", "failed", "dead"}

VARIABLES
    at, try,      \* of each print job: its await and job_try
    reach,        \* the print_config of the attempt names a printer
    tracked,      \* the printer_id found by the paper check, if any
    held,         \* paper_remaining as read by _decrement_paper_counter
    remaining,    \* paper_remaining
    shot, seen,   \* of each snapshot job: where it is, and the link it read
    rows,         \* the committed snapshots
    linked,       \* entry_snapshot_id and exit_snapshot_id of a transaction
    shown,        \* exit snapshots broadcast to the POS
    \* history
    sheets,       \* the paper really in the printer
    out,          \* sheets that came out for each print job
    told, excused,\* jobs alerted, and jobs whose end the worker could not report
    raced,        \* a refill was booked while a decrement was under way
    jobFaults

printVars == <<at, try, reach, tracked, held, remaining, sheets, out, told, excused, raced>>
shotVars  == <<shot, seen, rows, linked, shown>>
jobsVars  == <<printVars, shotVars, jobFaults>>

JobsTypeOK ==
    /\ at \in [PrintJobs -> Over \cup {"queued", "config", "paper", "print", "read",
                                       "count", "alert"}]
    /\ try \in [PrintJobs -> 1..MaxTries]
    /\ reach \in [PrintJobs -> BOOLEAN] /\ tracked \in [PrintJobs -> BOOLEAN]
    /\ held \in [PrintJobs -> 0..Capacity] /\ remaining \in 0..Capacity
    /\ sheets \in 0..Capacity /\ out \in [PrintJobs -> 0..MaxTries]
    /\ told \subseteq PrintJobs /\ excused \subseteq PrintJobs /\ raced \in BOOLEAN
    /\ shot \in [Shots -> {"none", "queued", "save", "commit", "show", "done"}]
    /\ seen \in [Shots -> Shots \cup {<<>>}] /\ rows \subseteq Shots
    /\ linked \in [Transactions \X Kinds -> Shots \cup {<<>>}]
    /\ shown \subseteq Shots
    /\ jobFaults \in 0..MaxJobFaults

JobsInit ==
    /\ at = [j \in PrintJobs |-> "queued"] /\ try = [j \in PrintJobs |-> 1]
    /\ reach = [j \in PrintJobs |-> TRUE] /\ tracked = [j \in PrintJobs |-> FALSE]
    /\ held = [j \in PrintJobs |-> 0] /\ remaining = Capacity /\ sheets = Capacity
    /\ out = [j \in PrintJobs |-> 0] /\ told = {} /\ excused = {} /\ raced = FALSE
    /\ shot = [s \in Shots |-> "none"] /\ seen = [s \in Shots |-> <<>>]
    /\ rows = {} /\ linked = [x \in Transactions \X Kinds |-> <<>>] /\ shown = {}
    /\ jobFaults = 0

JobFault(f) ==
    /\ f \in JobFaults /\ jobFaults < MaxJobFaults /\ jobFaults' = jobFaults + 1

Fine == UNCHANGED jobFaults

-----------------------------------------------------------------------------
(* print_ticket and print_receipt, which differ in what they print *)

At(j, a) == at' = [at EXCEPT ![j] = a]

TakePrint(j) ==
    /\ at[j] = "queued" /\ At(j, "config") /\ Fine
    /\ UNCHANGED <<try, reach, tracked, held, remaining, sheets, out, told, excused, raced, shotVars>>

\* _get_print_config: a failed query falls back to a passthrough that names no
\* controller, and that attempt cannot print.
GetPrintConfig(j) ==
    /\ at[j] = "config" /\ At(j, "paper")
    /\ \/ Fine /\ reach' = [reach EXCEPT ![j] = TRUE]
       \/ JobFault("db") /\ reach' = [reach EXCEPT ![j] = FALSE]
    /\ UNCHANGED <<try, tracked, held, remaining, sheets, out, told, excused, raced, shotVars>>

\* _check_paper_available: an empty counter ends the job, a failed query lets it
\* print untracked.
CheckPaper(j) ==
    /\ at[j] = "paper"
    /\ \/ /\ Fine /\ tracked' = [tracked EXCEPT ![j] = TRUE]
          /\ At(j, IF remaining <= 0 THEN "skipped" ELSE "print")
       \/ JobFault("db") /\ tracked' = [tracked EXCEPT ![j] = FALSE] /\ At(j, "print")
    /\ UNCHANGED <<try, reach, held, remaining, sheets, out, told, excused, raced, shotVars>>

\* MUTANT of RetryOrAlert: the last attempt asks for a retry that ARQ refuses.
RetryOrAlertLate(j) ==
    IF try[j] <= MaxTries
    THEN /\ At(j, IF try[j] = MaxTries THEN "dead" ELSE "queued")
         /\ try' = [try EXCEPT ![j] = IF @ = MaxTries THEN @ ELSE @ + 1]
    ELSE At(j, "alert") /\ UNCHANGED try

\* _retry_or_alert, up to the publish.
RetryOrAlert(j) ==
    IF try[j] < MaxTries
    THEN At(j, "queued") /\ try' = [try EXCEPT ![j] = @ + 1]
    ELSE At(j, "alert") /\ UNCHANGED try

\* MUTANT of WritePrinter: an attempt that failed goes through the success path.
WritePrinterBlindly(j) ==
    /\ at[j] = "print" /\ At(j, IF tracked[j] THEN "read" ELSE "success") /\ UNCHANGED try
    /\ \/ /\ reach[j] /\ sheets > 0 /\ Fine
          /\ sheets' = sheets - 1 /\ out' = [out EXCEPT ![j] = @ + 1]
       \/ /\ (JobFault("printer") \/ (Fine /\ (~reach[j] \/ sheets = 0)))
          /\ UNCHANGED <<sheets, out>>
    /\ UNCHANGED <<reach, tracked, held, remaining, told, excused, raced, shotVars>>

\* The write to the printer: it succeeds, raises before the paper comes out, or
\* after it (closing the connection raises).
WritePrinter(j) ==
    /\ at[j] = "print"
    /\ \/ /\ reach[j] /\ sheets > 0 /\ Fine
          /\ sheets' = sheets - 1 /\ out' = [out EXCEPT ![j] = @ + 1]
          /\ At(j, IF tracked[j] THEN "read" ELSE "success") /\ UNCHANGED try
       \/ /\ reach[j] /\ sheets > 0 /\ JobFault("printer")
          /\ sheets' = sheets - 1 /\ out' = [out EXCEPT ![j] = @ + 1]
          /\ RetryOrAlert(j)
       \/ /\ (JobFault("printer") \/ (Fine /\ (~reach[j] \/ sheets = 0)))
          /\ RetryOrAlert(j) /\ UNCHANGED <<sheets, out>>
    /\ UNCHANGED <<reach, tracked, held, remaining, told, excused, raced, shotVars>>

\* _decrement_paper_counter reads the row; an empty counter is left alone, and an
\* error is only logged.
ReadCounter(j) ==
    /\ at[j] = "read"
    /\ \/ /\ Fine /\ held' = [held EXCEPT ![j] = remaining]
          /\ At(j, IF remaining > 0 THEN "count" ELSE "success")
       \/ JobFault("db") /\ At(j, "success") /\ UNCHANGED held
    /\ UNCHANGED <<try, reach, tracked, remaining, sheets, out, told, excused, raced, shotVars>>

\* It writes one less than it read, whatever the row says by now.
WriteCounter(j) ==
    /\ at[j] = "count" /\ At(j, "success")
    /\ \/ Fine /\ remaining' = held[j] - 1
       \/ JobFault("db") /\ UNCHANGED remaining
    /\ UNCHANGED <<try, reach, tracked, held, sheets, out, told, excused, raced, shotVars>>

\* print_failed_alert; a failed publish is only logged.
Alert(j) ==
    /\ at[j] = "alert" /\ At(j, "failed")
    /\ \/ Fine /\ told' = told \cup {j} /\ UNCHANGED excused
       \/ JobFault("redis") /\ excused' = excused \cup {j} /\ UNCHANGED told
    /\ UNCHANGED <<try, reach, tracked, held, remaining, sheets, out, raced, shotVars>>

\* The worker dies, and ARQ starts the job again as long as tries are left; a
\* job that exceeds job_timeout is cancelled for good.
KillPrint(j) ==
    /\ at[j] \notin Over \cup {"queued"} /\ JobFault("kill")
    /\ \/ /\ try[j] < MaxTries /\ At(j, "queued") /\ try' = [try EXCEPT ![j] = @ + 1]
          /\ UNCHANGED excused
       \/ At(j, "dead") /\ excused' = excused \cup {j} /\ UNCHANGED try
    /\ UNCHANGED <<reach, tracked, held, remaining, sheets, out, told, raced, shotVars>>

\* The operator fills the printer and posts /printers/{id}/refill.
RefillPaper ==
    /\ sheets < Capacity /\ sheets' = Capacity /\ remaining' = Capacity
    /\ raced' = (raced \/ \E j \in PrintJobs : at[j] \in {"read", "count"})
    /\ UNCHANGED <<at, try, reach, tracked, held, out, told, excused, shotVars, jobFaults>>

-----------------------------------------------------------------------------
(* take_snapshot *)

Shoot(s, a) == shot' = [shot EXCEPT ![s] = a]

\* enqueue_snapshots_for_gate: one job per camera; an error leaves the rest out.
EnqueueSnapshots(x, k) ==
    /\ \A c \in Cameras : shot[<<x, k, c>>] = "none"
    /\ \E cs \in SUBSET Cameras :
         /\ IF cs = Cameras THEN Fine ELSE JobFault("redis")
         /\ shot' = [s \in Shots |-> IF s[1] = x /\ s[2] = k
                                     THEN IF s[3] \in cs THEN "queued" ELSE "done"
                                     ELSE shot[s]]
    /\ UNCHANGED <<printVars, seen, rows, linked, shown>>

\* The picture is taken and written to disk, or the job ends with an error.
Capture(s) ==
    /\ shot[s] = "queued"
    /\ \/ Shoot(s, "save") /\ Fine
       \/ Shoot(s, "done") /\ JobFault("printer")
    /\ UNCHANGED <<printVars, seen, rows, linked, shown>>

\* _save_snapshot_record flushes the row and reads the transaction.
FlushRow(s) ==
    /\ shot[s] = "save" /\ Shoot(s, "commit") /\ Fine
    /\ seen' = [seen EXCEPT ![s] = linked[<<s[1], s[2]>>]]
    /\ UNCHANGED <<printVars, rows, linked, shown>>

\* MUTANT of LinkOf: a second entry picture is taken for the exit's.
LinkOfElse(s) ==
    IF s[2] = "entry" /\ seen[s] = <<>> THEN {<<s[1], "entry">>} ELSE {<<s[1], "exit">>}

\* The link of its transaction that this snapshot sets, if any.
LinkOf(s) == IF seen[s] = <<>> THEN {<<s[1], s[2]>>} ELSE {}

\* Row and link are committed together, or neither.
CommitRow(s) ==
    /\ shot[s] = "commit"
    /\ \/ /\ Fine /\ rows' = rows \cup {s}
          /\ linked' = [x \in Transactions \X Kinds |->
                           IF x \in LinkOf(s) THEN s ELSE linked[x]]
          /\ Shoot(s, IF s[2] = "exit" THEN "show" ELSE "done")
       \/ JobFault("db") /\ Shoot(s, "done") /\ UNCHANGED <<rows, linked>>
    /\ UNCHANGED <<printVars, seen, shown>>

\* _broadcast_exit_snapshot.
ShowShot(s) ==
    /\ shot[s] = "show" /\ Shoot(s, "done")
    /\ \/ Fine /\ shown' = shown \cup {s}
       \/ JobFault("redis") /\ UNCHANGED shown
    /\ UNCHANGED <<printVars, seen, rows, linked>>

-----------------------------------------------------------------------------

PrintNext ==
    \/ \E j \in PrintJobs :
         \/ TakePrint(j) \/ GetPrintConfig(j) \/ CheckPaper(j) \/ WritePrinter(j)
         \/ ReadCounter(j) \/ WriteCounter(j) \/ Alert(j) \/ KillPrint(j)
    \/ RefillPaper

SnapshotNext ==
    \/ \E x \in Transactions, k \in Kinds : EnqueueSnapshots(x, k)
    \/ \E s \in Shots : Capture(s) \/ FlushRow(s) \/ CommitRow(s) \/ ShowShot(s)

JobsNext == PrintNext \/ SnapshotNext

JobsSpec == JobsInit /\ [][JobsNext]_jobsVars

-----------------------------------------------------------------------------
(* Properties *)

\* A print job never ends without paper in silence: it ends skipped, or the
\* operator was alerted, unless the worker was killed or the alert itself could
\* not be published (print_worker.py _retry_or_alert: "would let the job die
\* silently").
NoSilentFailure ==
    \A j \in PrintJobs :
        at[j] \in Over /\ out[j] = 0 => at[j] = "skipped" \/ j \in told \cup excused

\* The counter never says there is less paper than there is, so it never makes a
\* job skip a print that was possible, unless a refill was booked in the middle of
\* a decrement (print_worker.py _decrement_paper_counter).
PaperNotUnderstated == ~raced => remaining >= sheets

\* A transaction's entry and exit links name committed snapshots of that
\* transaction and that kind, each as soon as there is one, and the POS is only
\* shown committed ones (snapshot_worker.py _save_snapshot_record).
SnapshotLinked ==
    /\ \A x \in Transactions \X Kinds :
         LET mine == {s \in rows : <<s[1], s[2]>> = x}
         IN  IF mine = {} THEN linked[x] = <<>> ELSE linked[x] \in mine
    /\ shown \subseteq rows

=============================================================================
