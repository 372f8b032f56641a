----------------------------- MODULE Settlement -----------------------------
(***************************************************************************)
(* Settling e-money charges with the bank: the daily run that writes       *)
(* settlement files (workers/background/settlement_worker.py), the job     *)
(* that uploads one of them and the poll that books the bank's answers     *)
(* (settlement_uploader.py), and the admin's trigger of a run              *)
(* (routes/settlements.py).                                                *)
(*                                                                         *)
(* pc[r], where run r of generate_settlement_file stands:                  *)
(*   idle    not running            scan    before the readers are listed  *)
(*   pick    before a reader's transactions are read                       *)
(*   file    before the next chunk is written to disk                      *)
(*   commit  chunk written, before its row and links are committed         *)
(*   enqueue committed, before the upload job is enqueued                  *)
(* job[i], the upload job of settlement i: none, queued, send, mark.       *)
(* A settlement's row and the file it names are one record: its charges    *)
(* are those in the file.                                                  *)
(***************************************************************************)
EXTENDS Integers, Sequences, FiniteSets

CONSTANTS
    Charges,      \* e-money transactions that succeed one day
    ReaderOf,     \* the emoney_reader_id of each row, or NoReader for NULL
    Configured,   \* readers with a MID and a TID
    Qr,           \* charges of card type 09, which the bank does not settle
    MaxPerFile,   \* MAX_TRX_PER_FILE
    CronRuns,     \* runs started by the workers' cron
    ManualRuns,   \* runs started by POST /settlements/trigger
    SettleFaults, \* "abort", "enqueue", "send", "die", "missing"
    MaxFiles,     \* bound: settlements ever made
    MaxFaults     \* bound: faults

\* A row without a reader.  process_emoney_result, the only code that inserts
\* these rows, names none; a row with a reader has got it by other means.
NoReader == "none"

Runs == CronRuns \cup ManualRuns

ASSUME SettlementAssumption ==
    /\ NoReader \notin Configured
    /\ IsFiniteSet(Charges) /\ Qr \subseteq Charges
    /\ MaxPerFile \in Nat \ {0} /\ MaxFiles \in Nat /\ MaxFaults \in Nat
    /\ CronRuns \cap ManualRuns = {}
    /\ SettleFaults \subseteq {"abort", "enqueue", "send", "die", "missing"}

VARIABLES
    made,     \* the charges recorded so far
    batch,    \* settlement_batch_id of a charge, 0 for none
    code,     \* bank_response_status of a charge
    sets,     \* emoney_settlements, oldest first
    lease,    \* TRUE if lock:settlement:<day> exists
    pc, todo, list, chunk,   \* the runs
    job,      \* the upload jobs, one per settlement
    sent,     \* how often the bank got the file of each settlement
    reply,    \* the bank's answer to each: a file name and the charges accepted
    faults    \* history: faults so far

chargeVars == <<made, batch, code>>
runVars    == <<pc, todo, list, chunk>>
bankVars   == <<job, sent, reply>>
settleVars == <<chargeVars, sets, lease, runVars, bankVars, faults>>

NoReply == [ext |-> "none", listed |-> {}, ok |-> {}]

SettleTypeOK ==
    /\ made \subseteq Charges
    /\ batch \in [Charges -> 0..Len(sets)]
    /\ code \in [Charges -> {"none", "00", "01", "??"}]
    /\ sets \in Seq([charges : SUBSET Charges,
                     status : {"GENERATED", "UPLOADED", "FAILED", "ACKED_OK",
                               "ACKED_NOK", "PARTIAL"}])
    /\ Len(sets) <= MaxFiles
    /\ lease \in BOOLEAN
    /\ pc \in [Runs -> {"idle", "scan", "pick", "file", "commit", "enqueue"}]
    /\ todo \in [Runs -> SUBSET {ReaderOf[t] : t \in Charges}]
    /\ list \in [Runs -> SUBSET Charges] /\ chunk \in [Runs -> SUBSET Charges]
    /\ \A r \in Runs : Cardinality(chunk[r]) <= MaxPerFile
    /\ DOMAIN job = DOMAIN sets /\ DOMAIN sent = DOMAIN sets /\ DOMAIN reply = DOMAIN sets
    /\ faults \in 0..MaxFaults

SettleInit ==
    /\ made = {} /\ batch = [t \in Charges |-> 0] /\ code = [t \in Charges |-> "none"]
    /\ sets = <<>> /\ lease = FALSE
    /\ pc = [r \in Runs |-> "idle"] /\ todo = [r \in Runs |-> {}]
    /\ list = [r \in Runs |-> {}] /\ chunk = [r \in Runs |-> {}]
    /\ job = <<>> /\ sent = <<>> /\ reply = <<>>
    /\ faults = 0

Fault(f) ==
    /\ f \in SettleFaults /\ faults < MaxFaults /\ faults' = faults + 1

\* A deduction is booked with status SUCCESS.
Charge(t) ==
    /\ t \notin made /\ made' = made \cup {t}
    /\ UNCHANGED <<batch, code, sets, lease, runVars, bankVars, faults>>

-----------------------------------------------------------------------------
(* generate_settlement_file *)

Step(r, s) == pc' = [pc EXCEPT ![r] = s]

\* What a run settles: not yet in a batch, and not paid by QR.
Unsettled == {t \in made \ Qr : batch[t] = 0}

\* MUTANT of Start: the lease of another run is not looked at.
StartNoLease(r) ==
    /\ pc[r] = "idle" /\ Len(sets) < MaxFiles
    /\ lease' = (lease \/ r \in CronRuns) /\ Step(r, "scan")
    /\ UNCHANGED <<chargeVars, sets, todo, list, chunk, bankVars, faults>>

\* A run of the workers takes the day's lease and gives up if it is taken; the
\* admin's trigger passes no Redis client and takes none.
Start(r) ==
    /\ pc[r] = "idle" /\ Len(sets) < MaxFiles
    /\ r \in CronRuns => ~lease
    /\ lease' = (lease \/ r \in CronRuns)
    /\ Step(r, "scan")
    /\ UNCHANGED <<chargeVars, sets, todo, list, chunk, bankVars, faults>>

\* The readers with unsettled charges.
Scan(r) ==
    /\ pc[r] = "scan"
    /\ todo' = [todo EXCEPT ![r] = {ReaderOf[t] : t \in Unsettled} \ {NoReader}]
    /\ Step(r, IF todo'[r] = {} THEN "idle" ELSE "pick")
    /\ UNCHANGED <<chargeVars, sets, lease, list, chunk, bankVars, faults>>

\* The next reader; one without MID and TID, or with nothing left, is skipped.
Pick(r) ==
    /\ pc[r] = "pick"
    /\ IF todo[r] = {}
       THEN Step(r, "idle") /\ UNCHANGED <<todo, list>>
       ELSE \E d \in todo[r] :
              /\ todo' = [todo EXCEPT ![r] = @ \ {d}]
              /\ LET mine == {t \in Unsettled : ReaderOf[t] = d}
                 IN  IF d \in Configured /\ mine # {}
                     THEN list' = [list EXCEPT ![r] = mine] /\ Step(r, "file")
                     ELSE UNCHANGED list /\ Step(r, "pick")
    /\ UNCHANGED <<chargeVars, sets, lease, chunk, bankVars, faults>>

\* MUTANT of Chunks: the last place of a file is counted twice.
ChunksOneMore(s) == {c \in SUBSET s : Cardinality(c) <= MaxPerFile + 1 /\ c # {}}

\* The first MAX_TRX_PER_FILE of a list, or all of it (created_at is not kept
\* here, so any of them may be the first).
Chunks(s) ==
    {c \in SUBSET s : \/ Cardinality(c) = MaxPerFile
                      \/ c = s /\ Cardinality(s) < MaxPerFile}

\* A chunk gets a batch number and is written to disk.
WriteFile(r) ==
    /\ pc[r] = "file" /\ Len(sets) < MaxFiles
    /\ \E c \in Chunks(list[r]) :
         /\ chunk' = [chunk EXCEPT ![r] = c]
         /\ list' = [list EXCEPT ![r] = @ \ c]
    /\ Step(r, "commit")
    /\ UNCHANGED <<chargeVars, sets, lease, todo, bankVars, faults>>

\* The settlement's row and the links of its charges, in one transaction.  The
\* links are written whatever they were in the meantime.
Commit(r) ==
    /\ pc[r] = "commit" /\ Len(sets) < MaxFiles
    /\ sets' = Append(sets, [charges |-> chunk[r], status |-> "GENERATED"])
    /\ batch' = [t \in Charges |-> IF t \in chunk[r] THEN Len(sets') ELSE batch[t]]
    /\ job' = Append(job, "none") /\ sent' = Append(sent, 0) /\ reply' = Append(reply, NoReply)
    /\ Step(r, "enqueue")
    /\ UNCHANGED <<made, code, lease, todo, list, chunk, faults>>

\* _enqueue_upload for the settlement just committed, which a run of the
\* trigger has no client for and a failing client only logs; then the next chunk.
Enqueue(r) ==
    /\ pc[r] = "enqueue"
    /\ LET i == CHOOSE k \in DOMAIN sets :
                  /\ sets[k].charges = chunk[r]
                  /\ \A m \in DOMAIN sets : sets[m].charges = chunk[r] => m <= k
       IN  \/ /\ job' = IF r \in CronRuns THEN [job EXCEPT ![i] = "queued"] ELSE job
              /\ UNCHANGED faults
           \/ r \in CronRuns /\ Fault("enqueue") /\ UNCHANGED job
    /\ chunk' = [chunk EXCEPT ![r] = {}]
    /\ Step(r, IF list[r] = {} THEN "pick" ELSE "file")
    /\ UNCHANGED <<chargeVars, sets, lease, todo, list, sent, reply>>

\* The run raises before a commit: what it has committed stays.
Abort(r) ==
    /\ pc[r] \in {"scan", "pick", "file", "commit"} /\ Fault("abort")
    /\ Step(r, "idle")
    /\ todo' = [todo EXCEPT ![r] = {}] /\ list' = [list EXCEPT ![r] = {}]
    /\ chunk' = [chunk EXCEPT ![r] = {}]
    /\ UNCHANGED <<chargeVars, sets, lease, bankVars>>

\* MUTANT of LeaseExpires: the lease has no time to live.
LeaseStays == FALSE /\ UNCHANGED settleVars

\* The lease runs out after an hour; a run ends within job_timeout, sooner.
LeaseExpires ==
    /\ lease /\ \A r \in CronRuns : pc[r] = "idle"
    /\ lease' = FALSE
    /\ UNCHANGED <<chargeVars, sets, runVars, bankVars, faults>>

-----------------------------------------------------------------------------
(* upload_settlement_job *)

Mark(i, s) == sets' = [sets EXCEPT ![i].status = s]

\* The job starts, and stops at once unless the file is still to be sent.
UploadStart(i) ==
    /\ job[i] = "queued"
    /\ job' = [job EXCEPT ![i] =
                  IF sets[i].status \in {"GENERATED", "FAILED"} THEN "send" ELSE "none"]
    /\ UNCHANGED <<chargeVars, sets, lease, runVars, sent, reply, faults>>

\* Put and rename: from now on the bank sees the file.  A file that is not on
\* disk any more is reported as False, which the job does not look at.
Send(i) ==
    /\ job[i] = "send" /\ job' = [job EXCEPT ![i] = "mark"]
    /\ \E onDisk \in IF "missing" \in SettleFaults THEN BOOLEAN ELSE {TRUE} :
         sent' = IF onDisk THEN [sent EXCEPT ![i] = @ + 1] ELSE sent
    /\ UNCHANGED <<chargeVars, sets, lease, runVars, reply, faults>>

\* MUTANT of SendFails: the exception is swallowed.
SendFailsSilently(i) ==
    /\ job[i] = "send" /\ Fault("send") /\ Mark(i, "UPLOADED")
    /\ job' = [job EXCEPT ![i] = "none"]
    /\ UNCHANGED <<chargeVars, lease, runVars, sent, reply>>

\* The transfer raises: FAILED, and ARQ may run the job again or not.
SendFails(i) ==
    /\ job[i] = "send" /\ Fault("send") /\ Mark(i, "FAILED")
    /\ job' \in {[job EXCEPT ![i] = s] : s \in {"queued", "none"}}
    /\ UNCHANGED <<chargeVars, lease, runVars, sent, reply>>

MarkUploaded(i) ==
    /\ job[i] = "mark" /\ Mark(i, "UPLOADED") /\ job' = [job EXCEPT ![i] = "none"]
    /\ UNCHANGED <<chargeVars, lease, runVars, sent, reply, faults>>

\* The worker dies in the middle of the job, which ARQ then runs again.
WorkerDies(i) ==
    /\ job[i] \in {"send", "mark"} /\ Fault("die")
    /\ job' = [job EXCEPT ![i] = "queued"]
    /\ UNCHANGED <<chargeVars, sets, lease, runVars, sent, reply>>

-----------------------------------------------------------------------------
(* The bank, and poll_settlement_responses *)

\* The bank answers a file with an .OK or a .NOK that lists some of its charges
\* and accepts some of these.
BankAnswers(i) ==
    /\ sent[i] > 0 /\ reply[i] = NoReply
    /\ \E e \in {"OK", "NOK"}, l \in SUBSET sets[i].charges :
         \E k \in SUBSET l : reply' = [reply EXCEPT ![i] = [ext |-> e, listed |-> l, ok |-> k]]
    /\ UNCHANGED <<chargeVars, sets, lease, runVars, job, sent, faults>>

\* MUTANT of Verdict: a charge the bank does not mention counts as accepted.
VerdictAssumed(a, t) == IF t \in a.listed \ a.ok THEN "01" ELSE "00"

\* What the answer says of one charge.
Verdict(a, t) ==
    IF t \in a.ok THEN "00" ELSE IF t \in a.listed THEN "01" ELSE "??"

\* One settlement of a poll: the codes of its charges, and its status.
Poll(i) ==
    /\ sets[i].status = "UPLOADED" /\ reply[i] # NoReply
    /\ LET mine == {t \in Charges : batch[t] = i}
           good == {t \in mine : Verdict(reply[i], t) = "00"}
       IN  /\ code' = [t \in Charges |-> IF t \in mine THEN Verdict(reply[i], t) ELSE code[t]]
           /\ Mark(i, IF reply[i].ext = "NOK" \/ good = {} THEN "ACKED_NOK"
                      ELSE IF good = mine THEN "ACKED_OK" ELSE "PARTIAL")
    /\ UNCHANGED <<made, batch, lease, runVars, bankVars, faults>>

-----------------------------------------------------------------------------

RunStep(r) ==
    Start(r) \/ Scan(r) \/ Pick(r) \/ WriteFile(r) \/ Commit(r) \/ Enqueue(r)

UploadStep(i) == UploadStart(i) \/ Send(i) \/ MarkUploaded(i)

SettleNext ==
    \/ \E t \in Charges : Charge(t)
    \/ \E r \in Runs : RunStep(r) \/ Abort(r)
    \/ LeaseExpires
    \/ \E i \in DOMAIN sets :
         UploadStep(i) \/ SendFails(i) \/ WorkerDies(i) \/ BankAnswers(i) \/ Poll(i)

SettleSpec == SettleInit /\ [][SettleNext]_settleVars

\* The cron starts a run every day and a started run goes on; the lease expires.
SettleFairness ==
    /\ \A r \in CronRuns : WF_settleVars(RunStep(r))
    /\ WF_settleVars(LeaseExpires)

-----------------------------------------------------------------------------
(* Properties *)

\* No charge is in two settlement files: the bank is never asked twice for the
\* same money, whatever runs overlap or abort (settlement_worker.py
\* generate_settlement_file).
OneFilePerCharge ==
    \A i, j \in DOMAIN sets : i # j => sets[i].charges \cap sets[j].charges = {}

\* A settlement counts as uploaded, or answered, only if the bank has got its
\* file, whatever transfers fail and workers die in between
\* (settlement_uploader.py upload_settlement_job).
UploadedIsSent ==
    \A i \in DOMAIN sets :
        sets[i].status \notin {"GENERATED", "FAILED"} => sent[i] > 0

\* What the tables say of the bank's verdict is what the bank said: a charge is
\* accepted only if the answer to its own file accepts it, and a settlement is
\* ACKED_OK only if that holds of all its charges (settlement_uploader.py
\* poll_settlement_responses).
VerdictIsTheBanks ==
    /\ \A t \in Charges : code[t] = "00" => t \in reply[batch[t]].ok
    /\ \A i \in DOMAIN sets :
         sets[i].status = "ACKED_OK" => sets[i].charges \subseteq reply[i].ok

\* Every charge the bank has to settle is written to a settlement file in the
\* end: an aborted run, which leaves its lease behind, only delays it
\* (settlement_worker.py generate_settlement_file).
EveryChargeSettled ==
    \A t \in Charges \ Qr :
        ReaderOf[t] \in Configured => (t \in made ~> batch[t] # 0)

\* Every successful charge of a bank's card reaches a settlement file, whatever
\* its row names as its reader (settlement_worker.py generate_settlement_file:
\* "Generate daily settlement files from successful e-money transactions").
SuccessIsSettled == \A t \in Charges \ Qr : t \in made ~> batch[t] # 0

=============================================================================
