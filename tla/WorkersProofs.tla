---------------------------- MODULE WorkersProofs ----------------------------
(***************************************************************************)
(* Proofs about the background work: the settlement of charges             *)
(* (Settlement), the print and snapshot jobs (Jobs) and the clean-up       *)
(* (Retention), for any charges, readers, runs and file sizes, any number  *)
(* of jobs, tries, cameras, stays and days.  The results about the content *)
(* of files are those of the workers' own runs (ManualRuns = {}): the      *)
(* admin's trigger takes no lease, and with it they fail.                  *)
(***************************************************************************)
EXTENDS MCWorkers, TLAPS, FiniteSetTheorems, SequenceTheorems

-----------------------------------------------------------------------------
(* Settlement: the types *)

JobStates == {"none", "queued", "send", "mark"}
SetStates == {"GENERATED", "UPLOADED", "FAILED", "ACKED_OK", "ACKED_NOK", "PARTIAL"}
SetRow    == [charges : SUBSET Charges, status : SetStates]
Reply     == [ext : {"none", "OK", "NOK"}, listed : SUBSET Charges, ok : SUBSET Charges]

\* The bank's side, of which SettleTypeOK states the lengths only.
BankTypeOK ==
    /\ job \in Seq(JobStates) /\ sent \in Seq(Nat) /\ reply \in Seq(Reply)
    /\ Len(job) = Len(sets) /\ Len(sent) = Len(sets) /\ Len(reply) = Len(sets)

Types == SettleTypeOK /\ BankTypeOK

-----------------------------------------------------------------------------
(* Types *)

\* A chunk of generate_settlement_file is part of what it was cut from and
\* fits into a file.
LEMMA ChunkFits ==
    ASSUME NEW s \in SUBSET Charges, NEW c \in Chunks(s)
    PROVE  c \subseteq s /\ Cardinality(c) <= MaxPerFile
  <1>1. Cardinality(s) \in Nat
    BY SettlementAssumption, FS_Subset, FS_CardinalityType
  <1> QED
    BY <1>1, SettlementAssumption DEF Chunks

\* The first state is well typed.
LEMMA InitTypes == SettleInit => Types
  <1> SUFFICES ASSUME SettleInit PROVE Types
    OBVIOUS
  <1>1. Cardinality({}) <= MaxPerFile
    BY FS_EmptySet, SettlementAssumption
  <1>2. \A r \in Runs : Cardinality(chunk[r]) <= MaxPerFile
    BY <1>1, SettlementAssumption DEF SettleInit
  <1>3. SettleTypeOK
    <2>1. sets \in Seq(SetRow) /\ Len(sets) = 0
      BY EmptySeq DEF SettleInit
    <2>2. batch \in [Charges -> 0..Len(sets)] /\ code \in [Charges -> {"none", "00", "01", "??"}]
      BY <2>1 DEF SettleInit
    <2>3. todo \in [Runs -> SUBSET {ReaderOf[t] : t \in Charges}]
      BY DEF SettleInit
    <2>4. /\ pc \in [Runs -> {"idle", "scan", "pick", "file", "commit", "enqueue"}]
          /\ list \in [Runs -> SUBSET Charges] /\ chunk \in [Runs -> SUBSET Charges]
      BY DEF SettleInit
    <2>5. DOMAIN job = DOMAIN sets /\ DOMAIN sent = DOMAIN sets /\ DOMAIN reply = DOMAIN sets
      BY DEF SettleInit
    <2>6. made \subseteq Charges /\ faults \in 0..MaxFaults
      BY SettlementAssumption DEF SettleInit
    <2>7. lease \in BOOLEAN
      BY DEF SettleInit
    <2> QED
      BY <1>2, <2>1, <2>2, <2>3, <2>4, <2>5, <2>6, <2>7, SettlementAssumption
      DEF SettleTypeOK, SetRow, SetStates
  <1>4. BankTypeOK
    BY EmptySeq DEF SettleInit, BankTypeOK
  <1> QED
    BY <1>3, <1>4 DEF Types

\* A step of a run that leaves the tables and the bank alone.
LEMMA RunTypes ==
    ASSUME Types, NEW r \in Runs, Start(r) \/ Scan(r) \/ Pick(r) \/ WriteFile(r) \/ Abort(r)
    PROVE  Types'
  <1> USE DEF Types
  <1>1. BankTypeOK'
    BY DEF BankTypeOK, bankVars, Start, Scan, Pick, WriteFile, Abort
  <1>2. CASE Start(r)
    BY <1>1, <1>2 DEF SettleTypeOK, Start, Step, chargeVars, bankVars
  <1>3. CASE Scan(r)
    <2>1. todo' \in [Runs -> SUBSET {ReaderOf[t] : t \in Charges}]
      <3>1. {ReaderOf[t] : t \in Unsettled} \subseteq {ReaderOf[t] : t \in Charges}
        BY DEF Unsettled, SettleTypeOK
      <3> QED
        BY <1>3, <3>1 DEF Scan, SettleTypeOK
    <2> QED
      BY <1>1, <1>3, <2>1 DEF SettleTypeOK, Scan, Step, chargeVars, bankVars
  <1>4. CASE Pick(r)
    <2>1. todo' \in [Runs -> SUBSET {ReaderOf[t] : t \in Charges}]
      BY <1>4 DEF Pick, SettleTypeOK
    <2>2. list' \in [Runs -> SUBSET Charges]
      BY <1>4 DEF Pick, SettleTypeOK, Unsettled
    <2>3. pc' \in [Runs -> {"idle", "scan", "pick", "file", "commit", "enqueue"}]
      BY <1>4 DEF Pick, SettleTypeOK, Step
    <2> QED
      BY <1>1, <1>4, <2>1, <2>2, <2>3 DEF SettleTypeOK, Pick, chargeVars, bankVars
  <1>5. CASE WriteFile(r)
    <2>1. PICK c \in Chunks(list[r]) :
              /\ chunk' = [chunk EXCEPT ![r] = c] /\ list' = [list EXCEPT ![r] = @ \ c]
      BY <1>5 DEF WriteFile
    <2>2. c \subseteq list[r] /\ Cardinality(c) <= MaxPerFile
      BY ChunkFits DEF SettleTypeOK
    <2> QED
      BY <1>1, <1>5, <2>1, <2>2 DEF SettleTypeOK, WriteFile, Step, chargeVars, bankVars
  <1>6. CASE Abort(r)
    <2>1. Cardinality({}) <= MaxPerFile
      BY FS_EmptySet, SettlementAssumption
    <2> QED
      BY <1>1, <1>6, <2>1, SettlementAssumption DEF SettleTypeOK, Abort, Fault, Step, chargeVars, bankVars
  <1> QED
    BY <1>2, <1>3, <1>4, <1>5, <1>6

\* A chunk is committed: one more settlement.
LEMMA CommitTypes ==
    ASSUME Types, NEW r \in Runs, Commit(r)
    PROVE  Types'
  <1> USE DEF Types
  <1>1. /\ sets \in Seq(SetRow) /\ chunk[r] \in SUBSET Charges
        /\ [charges |-> chunk[r], status |-> "GENERATED"] \in SetRow
    BY DEF SettleTypeOK, SetRow, SetStates
  <1>2. /\ sets' \in Seq(SetRow) /\ Len(sets') = Len(sets) + 1
        /\ DOMAIN sets' = 1..(Len(sets) + 1)
    BY <1>1 DEF Commit
  <1>3. batch' \in [Charges -> 0..Len(sets')]
    BY <1>2 DEF Commit, SettleTypeOK
  <1>4. BankTypeOK'
    <2>2. NoReply \in Reply
      BY DEF NoReply, Reply
    <2>3. /\ job' \in Seq(JobStates) /\ Len(job') = Len(sets')
          /\ sent' \in Seq(Nat) /\ Len(sent') = Len(sets')
          /\ reply' \in Seq(Reply) /\ Len(reply') = Len(sets')
      BY <1>2, <2>2 DEF Commit, BankTypeOK, JobStates
    <2> QED
      BY <1>2, <2>3 DEF BankTypeOK
  <1>5. SettleTypeOK'
    <2>1. pc' \in [Runs -> {"idle", "scan", "pick", "file", "commit", "enqueue"}]
      BY DEF Commit, Step, SettleTypeOK
    <2>2. Len(sets') <= MaxFiles
      BY <1>2, SettlementAssumption DEF Commit, SettleTypeOK
    <2>3. DOMAIN job' = DOMAIN sets' /\ DOMAIN sent' = DOMAIN sets' /\ DOMAIN reply' = DOMAIN sets'
      BY <1>4 DEF BankTypeOK
    <2> QED
      BY <1>2, <1>3, <2>1, <2>2, <2>3 DEF SettleTypeOK, Commit, SetRow, SetStates
  <1> QED
    BY <1>4, <1>5

\* Writing one element, in the sequence or not, leaves a sequence of that length.
LEMMA ExceptAny ==
    ASSUME NEW S, NEW s \in Seq(S), NEW i, NEW v \in S
    PROVE  LET e == [s EXCEPT ![i] = v]
           IN  e \in Seq(S) /\ Len(e) = Len(s) /\ DOMAIN e = DOMAIN s
  <1>1. CASE i \in DOMAIN s
    BY <1>1, ExceptSeq
  <1>2. CASE i \notin DOMAIN s
    <2>1. [s EXCEPT ![i] = v] = s
      BY <1>2
    <2> QED
      BY <2>1
  <1> QED
    BY <1>1, <1>2

\* A run that has committed a file enqueues its upload or fails to, and goes on.
LEMMA EnqueueTypes ==
    ASSUME Types, NEW r \in Runs, Enqueue(r)
    PROVE  Types'
  <1> USE DEF Types
  <1>1. \E i : job' = [job EXCEPT ![i] = "queued"] \/ job' = job
    BY DEF Enqueue
  <1>2. job' \in Seq(JobStates) /\ Len(job') = Len(job) /\ DOMAIN job' = DOMAIN job
    BY <1>1, ExceptAny DEF BankTypeOK, JobStates
  <1>3. BankTypeOK'
    BY <1>2 DEF BankTypeOK, Enqueue
  <1>4. SettleTypeOK'
    <2>1. pc' \in [Runs -> {"idle", "scan", "pick", "file", "commit", "enqueue"}]
      BY DEF Enqueue, Step, SettleTypeOK
    <2>2. /\ chunk' \in [Runs -> SUBSET Charges]
          /\ \A q \in Runs : Cardinality(chunk'[q]) <= MaxPerFile
      BY FS_EmptySet, SettlementAssumption DEF Enqueue, SettleTypeOK
    <2>3. faults' \in 0..MaxFaults
      BY SettlementAssumption DEF Enqueue, Fault, SettleTypeOK
    <2> QED
      BY <1>2, <2>1, <2>2, <2>3 DEF SettleTypeOK, Enqueue, chargeVars
  <1> QED
    BY <1>3, <1>4

\* A step of a settlement's upload job or answer writes one element of each list.
LEMMA FileTypes ==
    ASSUME Types, NEW i \in DOMAIN sets,
           UploadStep(i) \/ SendFails(i) \/ WorkerDies(i) \/ BankAnswers(i) \/ Poll(i)
    PROVE  Types'
  <1> USE DEF Types
  <1>0. sets \in Seq(SetRow)
    BY DEF SettleTypeOK, SetRow, SetStates
  <1>1. /\ i \in 1..Len(sets) /\ sets[i] \in SetRow
        /\ i \in DOMAIN job /\ i \in DOMAIN sent /\ i \in DOMAIN reply
    BY <1>0 DEF SettleTypeOK
  <1>2. job' \in Seq(JobStates) /\ Len(job') = Len(job)
    <2>1. job' = job \/ \E v \in JobStates : job' = [job EXCEPT ![i] = v]
      BY DEF UploadStep, UploadStart, Send, MarkUploaded, SendFails, WorkerDies, BankAnswers,
             Poll, bankVars, JobStates
    <2> QED
      BY <2>1, ExceptAny DEF BankTypeOK
  <1>3. sent' \in Seq(Nat) /\ Len(sent') = Len(sent)
    <2>1. sent[i] + 1 \in Nat
      BY <1>1 DEF BankTypeOK
    <2>2. sent' = sent \/ sent' = [sent EXCEPT ![i] = sent[i] + 1]
      BY DEF UploadStep, UploadStart, Send, MarkUploaded, SendFails, WorkerDies, BankAnswers,
             Poll, bankVars
    <2> QED
      BY <2>1, <2>2, ExceptAny DEF BankTypeOK
  <1>4. reply' \in Seq(Reply) /\ Len(reply') = Len(reply)
    <2>1. reply' = reply \/ \E v \in Reply : reply' = [reply EXCEPT ![i] = v]
      BY <1>1 DEF UploadStep, UploadStart, Send, MarkUploaded, SendFails, WorkerDies, BankAnswers,
             Poll, bankVars, Reply, SetRow
    <2> QED
      BY <2>1, ExceptAny DEF BankTypeOK
  <1>5. sets' \in Seq(SetRow) /\ Len(sets') = Len(sets)
    <2>1. sets' = sets \/ \E s \in SetStates : sets' = [sets EXCEPT ![i].status = s]
      BY DEF UploadStep, UploadStart, Send, MarkUploaded, SendFails, WorkerDies, BankAnswers,
             Poll, Mark, SetStates
    <2>2. \A s \in SetStates : [sets[i] EXCEPT !.status = s] \in SetRow
      BY <1>1 DEF SetRow
    <2> QED
      BY <1>0, <2>1, <2>2, ExceptAny
  <1>6. code' \in [Charges -> {"none", "00", "01", "??"}]
    BY DEF UploadStep, UploadStart, Send, MarkUploaded, SendFails, WorkerDies, BankAnswers,
           Poll, chargeVars, Verdict, SettleTypeOK
  <1>7. UNCHANGED <<made, batch, lease, pc, todo, list, chunk>>
    BY DEF UploadStep, UploadStart, Send, MarkUploaded, SendFails, WorkerDies,
           BankAnswers, Poll, chargeVars, runVars
  <1>10. faults' \in 0..MaxFaults
    <2>1. faults' = faults \/ (faults < MaxFaults /\ faults' = faults + 1)
      BY DEF UploadStep, UploadStart, Send, MarkUploaded, SendFails, WorkerDies,
             BankAnswers, Poll, Fault
    <2> QED
      BY <2>1, SettlementAssumption DEF SettleTypeOK
  <1>8. BankTypeOK'
    BY <1>2, <1>3, <1>4, <1>5 DEF BankTypeOK
  <1>9. SettleTypeOK'
    BY <1>2, <1>3, <1>4, <1>5, <1>6, <1>7, <1>8, <1>10 DEF SettleTypeOK, BankTypeOK, SetRow, SetStates
  <1> QED
    BY <1>8, <1>9

\* Every step keeps the types, the action lemmas above put together.
LEMMA StepTypes == Types /\ [SettleNext]_settleVars => Types'
  <1> SUFFICES ASSUME Types, [SettleNext]_settleVars PROVE Types'
    OBVIOUS
  <1>1. ASSUME NEW t \in Charges, Charge(t) PROVE Types'
    BY <1>1 DEF Types, SettleTypeOK, BankTypeOK, Charge, runVars, bankVars
  <1>2. CASE LeaseExpires
    BY <1>2 DEF Types, SettleTypeOK, BankTypeOK, LeaseExpires, chargeVars, runVars, bankVars
  <1>3. CASE UNCHANGED settleVars
    BY <1>3 DEF Types, SettleTypeOK, BankTypeOK, settleVars, chargeVars, runVars, bankVars
  <1> QED
    BY <1>1, <1>2, <1>3, RunTypes, CommitTypes, EnqueueTypes, FileTypes DEF SettleNext, RunStep

\* Every variable of the settlement keeps its type, whatever runs overlap.
\* (settlement_worker.py, settlement_uploader.py: rows, files, jobs and the lease).
THEOREM SettlementTypes == SettleSpec => []SettleTypeOK
  <1>1. SettleSpec => []Types
    BY InitTypes, StepTypes, PTL DEF SettleSpec
  <1>2. Types => SettleTypeOK
    BY DEF Types
  <1> QED
    BY <1>1, <1>2, PTL

-----------------------------------------------------------------------------
(* What the bank has got *)

\* A job that is about to mark its file as uploaded has sent it.
SentBeforeMark ==
    \A i \in DOMAIN sets : job[i] = "mark" => sent[i] > 0

\* Only a file the bank has got counts as uploaded, for any number of transfers
\* that fail and workers that die, as long as no file is gone from disk: for that
\* case upload_settlement_file returns False and its caller does not look.
THEOREM UploadsReal ==
    ASSUME "missing" \notin SettleFaults
    PROVE  SettleSpec => []UploadedIsSent
  <1> DEFINE Inv == Types /\ SentBeforeMark /\ UploadedIsSent
  <1>1. SettleInit => Inv
    BY InitTypes DEF SettleInit, SentBeforeMark, UploadedIsSent
  <1>2. Inv /\ [SettleNext]_settleVars => Inv'
    <2> SUFFICES ASSUME Types, SentBeforeMark, UploadedIsSent, [SettleNext]_settleVars
                 PROVE  SentBeforeMark' /\ UploadedIsSent'
      BY StepTypes
    <2> USE DEF SentBeforeMark, UploadedIsSent
    <2>0. /\ sets \in Seq(SetRow) /\ job \in Seq(JobStates) /\ sent \in Seq(Nat)
          /\ Len(job) = Len(sets) /\ Len(sent) = Len(sets)
      BY DEF Types, SettleTypeOK, BankTypeOK, SetRow, SetStates
    <2>1. ASSUME NEW r \in Runs, Commit(r) PROVE SentBeforeMark' /\ UploadedIsSent'
      <3>1. sets' = Append(sets, [charges |-> chunk[r], status |-> "GENERATED"])
            /\ job' = Append(job, "none") /\ sent' = Append(sent, 0)
        BY <2>1 DEF Commit
      <3> QED
        BY <2>0, <3>1
    <2>2. ASSUME NEW r \in Runs, Enqueue(r) PROVE SentBeforeMark' /\ UploadedIsSent'
      <3>1. PICK i : job' = [job EXCEPT ![i] = "queued"] \/ job' = job
        BY <2>2 DEF Enqueue
      <3>2. \A k \in DOMAIN sets : job'[k] = "mark" => job[k] = "mark"
        BY <2>0, <3>1
      <3> QED
        BY <2>2, <3>2 DEF Enqueue
    <2>3. ASSUME NEW i \in DOMAIN sets, UploadStart(i) \/ WorkerDies(i)
          PROVE  SentBeforeMark' /\ UploadedIsSent'
      BY <2>0, <2>3 DEF UploadStart, WorkerDies
    <2>4. ASSUME NEW i \in DOMAIN sets, Send(i) PROVE SentBeforeMark' /\ UploadedIsSent'
      <3>1. /\ sent' = [sent EXCEPT ![i] = @ + 1] /\ sets' = sets
            /\ job' = [job EXCEPT ![i] = "mark"]
        BY <2>4 DEF Send
      <3>2. \A k \in DOMAIN sets : sent'[k] >= sent[k] /\ (k = i => sent'[k] > 0)
                                   /\ (k # i => job'[k] = job[k])
        BY <2>0, <3>1
      <3> QED
        BY <2>0, <3>1, <3>2
    <2>5. ASSUME NEW i \in DOMAIN sets, SendFails(i) \/ MarkUploaded(i)
          PROVE  SentBeforeMark' /\ UploadedIsSent'
      <3>1. /\ DOMAIN sets' = DOMAIN sets /\ sent' = sent
            /\ \A k \in DOMAIN sets \ {i} : sets'[k] = sets[k] /\ job'[k] = job[k]
            /\ job'[i] # "mark"
            /\ sets'[i].status = "FAILED" \/ job[i] = "mark"
        <4>1. CASE SendFails(i)
          <5>1. PICK v \in {"queued", "none"} : job' = [job EXCEPT ![i] = v]
            BY <4>1 DEF SendFails
          <5>2. /\ sets' = [sets EXCEPT ![i] = [sets[i] EXCEPT !.status = "FAILED"]]
                /\ sets[i] \in SetRow /\ sent' = sent
            BY <2>0, <4>1 DEF SendFails, Mark
          <5>3. sets'[i].status = "FAILED"
            BY <2>0, <5>2 DEF SetRow
          <5> QED
            BY <2>0, <5>1, <5>2, <5>3
        <4>2. CASE MarkUploaded(i)
          BY <2>0, <4>2 DEF MarkUploaded, Mark
        <4> QED
          BY <2>5, <4>1, <4>2
      <3> QED
        BY <2>0, <3>1
    <2>6. ASSUME NEW i \in DOMAIN sets, BankAnswers(i) PROVE SentBeforeMark' /\ UploadedIsSent'
      BY <2>6 DEF BankAnswers
    <2>7. ASSUME NEW i \in DOMAIN sets, Poll(i) PROVE SentBeforeMark' /\ UploadedIsSent'
      <3>1. /\ DOMAIN sets' = DOMAIN sets /\ sent' = sent /\ job' = job
            /\ \A k \in DOMAIN sets \ {i} : sets'[k] = sets[k]
            /\ sets[i].status = "UPLOADED"
        BY <2>0, <2>7 DEF Poll, Mark, bankVars, SetRow
      <3> QED
        BY <2>0, <3>1
    <2>8. ASSUME NEW r \in Runs, Start(r) \/ Scan(r) \/ Pick(r) \/ WriteFile(r) \/ Abort(r)
          PROVE  SentBeforeMark' /\ UploadedIsSent'
      BY <2>8 DEF Start, Scan, Pick, WriteFile, Abort, bankVars
    <2>9. CASE (\E t \in Charges : Charge(t)) \/ LeaseExpires \/ UNCHANGED settleVars
      BY <2>9 DEF Charge, LeaseExpires, settleVars, bankVars
    <2> QED
      BY <2>1, <2>2, <2>3, <2>4, <2>5, <2>6, <2>7, <2>8, <2>9
      DEF SettleNext, RunStep, UploadStep
  <1>3. Inv => UploadedIsSent
    OBVIOUS
  <1> QED
    BY <1>1, <1>2, <1>3, PTL DEF SettleSpec

-----------------------------------------------------------------------------
(* What is in the files *)

\* The lease keeps the workers' runs apart.
OneRun ==
    /\ \A r \in Runs : pc[r] # "idle" => lease
    /\ \A r, q \in Runs : pc[r] # "idle" /\ pc[q] # "idle" => r = q

\* What a run still has to write, and what it has written and not committed, is in
\* no file yet, and the two do not meet.
InHand ==
    \A r \in Runs :
        /\ pc[r] \in {"file", "commit", "enqueue"} => \A t \in list[r] : batch[t] = 0
        /\ pc[r] = "commit" => \A t \in chunk[r] : batch[t] = 0
        /\ pc[r] \in {"commit", "enqueue"} => list[r] \cap chunk[r] = {}

\* The links of the charges and the contents of the files are the same.
LinksMatch ==
    \A t \in Charges : \A i \in DOMAIN sets : t \in sets[i].charges <=> batch[t] = i

\* The bank has spoken of no charge that is in no file.
Unspoken == \A t \in Charges : batch[t] = 0 => code[t] = "none"

FInv == Types /\ OneRun /\ InHand /\ LinksMatch /\ Unspoken /\ VerdictIsTheBanks

\* At first there are no files, no runs and no verdicts.
LEMMA InitFiles == SettleInit => FInv
  <1> SUFFICES ASSUME SettleInit PROVE FInv
    OBVIOUS
  <1>1. OneRun /\ InHand /\ Unspoken
    BY DEF SettleInit, OneRun, InHand, Unspoken
  <1>2. DOMAIN sets = {}
    BY DEF SettleInit
  <1>3. LinksMatch
    BY <1>2 DEF LinksMatch
  <1>4. VerdictIsTheBanks
    BY <1>2 DEF SettleInit, VerdictIsTheBanks
  <1> QED
    BY <1>1, <1>3, <1>4, InitTypes DEF FInv

\* A step of a run that commits nothing.
LEMMA RunFiles ==
    ASSUME ManualRuns = {}, FInv, NEW r \in Runs,
           Start(r) \/ Scan(r) \/ Pick(r) \/ WriteFile(r) \/ Enqueue(r) \/ Abort(r)
    PROVE  OneRun' /\ InHand' /\ LinksMatch' /\ Unspoken' /\ VerdictIsTheBanks'
  <1> USE DEF FInv
  <1>0. /\ pc \in [Runs -> {"idle", "scan", "pick", "file", "commit", "enqueue"}]
        /\ list \in [Runs -> SUBSET Charges] /\ chunk \in [Runs -> SUBSET Charges]
        /\ r \in CronRuns
    BY DEF Types, SettleTypeOK, Runs
  <1>1. LinksMatch' /\ Unspoken' /\ VerdictIsTheBanks'
    BY DEF LinksMatch, Unspoken, VerdictIsTheBanks, Start, Scan, Pick, WriteFile, Enqueue,
           Abort, chargeVars, bankVars
  <1>2. OneRun'
    <2>1. CASE Start(r)
      BY <1>0, <2>1 DEF OneRun, Start, Step
    <2>2. CASE ~Start(r)
      <3>1. pc[r] # "idle" /\ lease' = lease /\ \A q \in Runs \ {r} : pc'[q] = pc[q]
        BY <1>0, <2>2 DEF Scan, Pick, WriteFile, Enqueue, Abort, Step
      <3> QED
        BY <3>1 DEF OneRun
    <2> QED
      BY <2>1, <2>2
  <1>3. InHand'
    <2>1. \A q \in Runs \ {r} : pc'[q] = pc[q] /\ list'[q] = list[q] /\ chunk'[q] = chunk[q]
      BY <1>0 DEF Start, Scan, Pick, WriteFile, Enqueue, Abort, Step
    <2>2. batch' = batch
      BY DEF Start, Scan, Pick, WriteFile, Enqueue, Abort, chargeVars
    <2>3. CASE Start(r) \/ Scan(r) \/ Abort(r)
      <3>1. pc'[r] \in {"idle", "scan", "pick"}
        BY <1>0, <2>3 DEF Start, Scan, Abort, Step
      <3> QED
        BY <2>1, <2>2, <3>1 DEF InHand
    <2>4. CASE Pick(r)
      <3>1. pc'[r] \in {"idle", "pick"} \/ (pc'[r] = "file" /\ \A t \in list'[r] : batch[t] = 0)
        BY <1>0, <2>4 DEF Pick, Step, Unsettled
      <3> QED
        BY <2>1, <2>2, <3>1 DEF InHand
    <2>5. CASE WriteFile(r)
      <3>1. PICK c \in Chunks(list[r]) :
              /\ chunk' = [chunk EXCEPT ![r] = c] /\ list' = [list EXCEPT ![r] = @ \ c]
        BY <2>5 DEF WriteFile
      <3>2. c \subseteq list[r]
        BY <1>0, ChunkFits
      <3>3. pc[r] = "file" /\ pc'[r] = "commit" /\ chunk'[r] = c /\ list'[r] = list[r] \ c
        BY <1>0, <2>5, <3>1 DEF WriteFile, Step
      <3> QED
        BY <2>1, <2>2, <3>2, <3>3 DEF InHand
    <2>6. CASE Enqueue(r)
      <3>1. /\ pc[r] = "enqueue" /\ pc'[r] \in {"pick", "file"} /\ list' = list
        BY <1>0, <2>6 DEF Enqueue, Step
      <3> QED
        BY <2>1, <2>2, <3>1 DEF InHand
    <2> QED
      BY <2>3, <2>4, <2>5, <2>6
  <1> QED
    BY <1>1, <1>2, <1>3

\* A commit: its charges were in no file, and no other run holds any.
LEMMA CommitFiles ==
    ASSUME FInv, NEW r \in Runs, Commit(r)
    PROVE  OneRun' /\ InHand' /\ LinksMatch' /\ Unspoken' /\ VerdictIsTheBanks'
  <1> USE DEF FInv
  <1>0. /\ pc \in [Runs -> {"idle", "scan", "pick", "file", "commit", "enqueue"}]
        /\ list \in [Runs -> SUBSET Charges] /\ chunk \in [Runs -> SUBSET Charges]
        /\ batch \in [Charges -> 0..Len(sets)]
        /\ sets \in Seq(SetRow) /\ reply \in Seq(Reply) /\ Len(reply) = Len(sets)
    BY DEF Types, SettleTypeOK, BankTypeOK, SetRow, SetStates
  <1>1. /\ pc[r] = "commit" /\ pc'[r] = "enqueue" /\ \A q \in Runs \ {r} : pc'[q] = pc[q]
        /\ list' = list /\ chunk' = chunk /\ lease' = lease /\ code' = code
    BY <1>0 DEF Commit, Step
  <1>2. \A q \in Runs \ {r} : pc[q] = "idle"
    BY <1>1 DEF OneRun
  <1>3. /\ sets' \in Seq(SetRow) /\ DOMAIN sets' = 1..(Len(sets) + 1)
        /\ \A i \in 1..Len(sets) : sets'[i] = sets[i] /\ reply'[i] = reply[i]
        /\ sets'[Len(sets) + 1].charges = chunk[r]
        /\ sets'[Len(sets) + 1].status = "GENERATED"
        /\ \A t \in Charges : batch'[t] = (IF t \in chunk[r] THEN Len(sets) + 1 ELSE batch[t])
    <2>1. [charges |-> chunk[r], status |-> "GENERATED"] \in SetRow
      BY <1>0 DEF SetRow, SetStates
    <2>2. /\ sets' = Append(sets, [charges |-> chunk[r], status |-> "GENERATED"])
          /\ reply' = Append(reply, NoReply)
          /\ batch' = [t \in Charges |-> IF t \in chunk[r] THEN Len(sets') ELSE batch[t]]
      BY DEF Commit
    <2> QED
      BY <1>0, <2>1, <2>2
  <1>4. \A t \in chunk[r] : batch[t] = 0
    BY <1>1 DEF InHand
  <1>5. OneRun'
    BY <1>1 DEF OneRun
  <1>6. InHand'
    BY <1>0, <1>1, <1>2, <1>3 DEF InHand
  <1>7. LinksMatch'
    <2> SUFFICES ASSUME NEW t \in Charges, NEW i \in 1..(Len(sets) + 1)
                 PROVE  t \in sets'[i].charges <=> batch'[t] = i
      BY <1>3 DEF LinksMatch
    <2>1. CASE i = Len(sets) + 1
      BY <1>0, <1>3, <2>1
    <2>2. CASE i \in 1..Len(sets)
      BY <1>0, <1>3, <1>4, <2>2 DEF LinksMatch
    <2> QED
      BY <1>0, <2>1, <2>2
  <1>8. Unspoken'
    BY <1>0, <1>1, <1>3 DEF Unspoken
  <1>9. VerdictIsTheBanks'
    <2>1. ASSUME NEW t \in Charges, code'[t] = "00" PROVE t \in reply'[batch'[t]].ok
      <3>1. batch[t] # 0 /\ t \notin chunk[r]
        BY <1>1, <1>4, <2>1 DEF Unspoken
      <3> QED
        BY <1>0, <1>1, <1>3, <2>1, <3>1 DEF VerdictIsTheBanks
    <2>2. ASSUME NEW i \in DOMAIN sets', sets'[i].status = "ACKED_OK"
          PROVE  sets'[i].charges \subseteq reply'[i].ok
      BY <1>0, <1>3, <2>2 DEF VerdictIsTheBanks
    <2> QED
      BY <2>1, <2>2 DEF VerdictIsTheBanks
  <1> QED
    BY <1>5, <1>6, <1>7, <1>8, <1>9

\* A step of an upload or of the bank.
LEMMA FileFiles ==
    ASSUME FInv, NEW i \in DOMAIN sets,
           UploadStep(i) \/ SendFails(i) \/ WorkerDies(i) \/ BankAnswers(i) \/ Poll(i)
    PROVE  OneRun' /\ InHand' /\ LinksMatch' /\ Unspoken' /\ VerdictIsTheBanks'
  <1> USE DEF FInv
  <1>a. /\ sets \in Seq(SetRow) /\ reply \in Seq(Reply) /\ Len(reply) = Len(sets)
        /\ batch \in [Charges -> 0..Len(sets)]
        /\ code \in [Charges -> {"none", "00", "01", "??"}]
    BY DEF Types, SettleTypeOK, BankTypeOK, SetRow, SetStates
  <1>b. sets[i] \in SetRow
    BY <1>a
  <1>0. /\ sets \in Seq(SetRow) /\ reply \in Seq(Reply) /\ Len(reply) = Len(sets)
        /\ batch \in [Charges -> 0..Len(sets)] /\ sets[i] \in SetRow
        /\ code \in [Charges -> {"none", "00", "01", "??"}]
    BY <1>a, <1>b
  <1>1. UNCHANGED <<batch, lease, pc, list, chunk>>
    BY DEF UploadStep, UploadStart, Send, MarkUploaded, SendFails, WorkerDies, BankAnswers,
           Poll, chargeVars, runVars
  <1>2. OneRun' /\ InHand'
    BY <1>1 DEF OneRun, InHand
  <1>3. /\ DOMAIN sets' = DOMAIN sets
        /\ \A k \in DOMAIN sets : sets'[k].charges = sets[k].charges
        /\ \A k \in DOMAIN sets \ {i} : sets'[k] = sets[k]
    <2>1. sets' = sets \/ \E s \in SetStates : sets' = [sets EXCEPT ![i].status = s]
      BY DEF UploadStep, UploadStart, Send, MarkUploaded, SendFails, WorkerDies, BankAnswers,
             Poll, Mark, SetStates
    <2>2. \A s : /\ [sets EXCEPT ![i].status = s] = [sets EXCEPT ![i] = [sets[i] EXCEPT !.status = s]]
                 /\ [sets[i] EXCEPT !.status = s].charges = sets[i].charges
      BY <1>0 DEF SetRow
    <2> QED
      BY <1>0, <2>1, <2>2
  <1>4. LinksMatch'
    BY <1>1, <1>3 DEF LinksMatch
  <1>5. CASE BankAnswers(i)
    <2>1. PICK v : reply[i] = NoReply /\ reply' = [reply EXCEPT ![i] = v]
      BY <1>5 DEF BankAnswers
    <2>2. \A k \in DOMAIN sets \ {i} : reply'[k] = reply[k]
      BY <1>0, <2>1
    <2>3. sets' = sets /\ code' = code
      BY <1>5 DEF BankAnswers, chargeVars
    <2>4. Unspoken'
      BY <1>1, <2>3 DEF Unspoken
    <2>5. ASSUME NEW t \in Charges, code'[t] = "00" PROVE t \in reply'[batch'[t]].ok
      <3>1. batch[t] \in DOMAIN sets /\ t \in reply[batch[t]].ok
        BY <1>0, <2>3, <2>5 DEF Unspoken, VerdictIsTheBanks
      <3>2. batch[t] # i
        BY <2>1, <3>1 DEF NoReply
      <3> QED
        BY <1>1, <2>2, <3>1, <3>2
    <2>6. ASSUME NEW k \in DOMAIN sets, sets[k].status = "ACKED_OK"
          PROVE  sets[k].charges \subseteq reply'[k].ok
      BY <2>1, <2>2, <2>6 DEF VerdictIsTheBanks, NoReply
    <2> QED
      BY <1>2, <1>4, <2>3, <2>4, <2>5, <2>6 DEF VerdictIsTheBanks
  <1>6. CASE Poll(i)
    <2> DEFINE mine == {t \in Charges : batch[t] = i}
               good == {t \in mine : Verdict(reply[i], t) = "00"}
    <2>1. /\ code' = [t \in Charges |-> IF t \in mine THEN Verdict(reply[i], t) ELSE code[t]]
          /\ reply' = reply
          /\ sets' = [sets EXCEPT ![i].status =
                         IF reply[i].ext = "NOK" \/ good = {} THEN "ACKED_NOK"
                         ELSE IF good = mine THEN "ACKED_OK" ELSE "PARTIAL"]
      BY <1>6 DEF Poll, Mark, bankVars
    <2>2. \A t \in good : t \in reply[i].ok
      BY DEF Verdict
    <2>3. Unspoken'
      BY <1>0, <1>1, <2>1 DEF Unspoken
    <2>4. ASSUME NEW t \in Charges, code'[t] = "00" PROVE t \in reply'[batch'[t]].ok
      <3>1. CASE t \in mine
        BY <1>1, <2>1, <2>2, <2>4, <3>1
      <3>2. CASE t \notin mine
        BY <1>1, <2>1, <2>4, <3>2 DEF VerdictIsTheBanks
      <3> QED
        BY <3>1, <3>2
    <2>5. sets'[i].status = "ACKED_OK" => good = mine
      <3>1. sets'[i].status = IF reply[i].ext = "NOK" \/ good = {} THEN "ACKED_NOK"
                              ELSE IF good = mine THEN "ACKED_OK" ELSE "PARTIAL"
        <4> HIDE DEF good, mine
        <4> QED
          BY <1>0, <2>1 DEF SetRow
      <3> QED
        BY <3>1
    <2>6. sets[i].charges \subseteq mine
      BY <1>0 DEF LinksMatch, SetRow
    <2>7. ASSUME NEW k \in DOMAIN sets, sets'[k].status = "ACKED_OK"
          PROVE  sets'[k].charges \subseteq reply'[k].ok
      <3>1. CASE k = i
        BY <1>3, <2>1, <2>2, <2>5, <2>6, <2>7, <3>1
      <3>2. CASE k # i
        BY <1>3, <2>1, <2>7, <3>2 DEF VerdictIsTheBanks
      <3> QED
        BY <3>1, <3>2
    <2> QED
      BY <1>2, <1>3, <1>4, <2>3, <2>4, <2>7 DEF VerdictIsTheBanks
  <1>7. CASE UploadStep(i) \/ SendFails(i) \/ WorkerDies(i)
    <2>1. code' = code /\ reply' = reply
      BY <1>7 DEF UploadStep, UploadStart, Send, MarkUploaded, SendFails, WorkerDies, chargeVars
    <2>2. \A k \in DOMAIN sets : sets'[k].status = "ACKED_OK" => sets[k].status = "ACKED_OK"
      <3>1. sets' = sets \/ \E s \in {"UPLOADED", "FAILED"} :
                                sets' = [sets EXCEPT ![i].status = s]
        BY <1>7 DEF UploadStep, UploadStart, Send, MarkUploaded, SendFails, WorkerDies, Mark
      <3> QED
        BY <1>0, <1>3, <3>1 DEF SetRow
    <2> QED
      BY <1>1, <1>2, <1>3, <1>4, <2>1, <2>2 DEF Unspoken, VerdictIsTheBanks
  <1> QED
    BY <1>5, <1>6, <1>7

\* Every step of the workers' own runs, of the uploads and of the bank keeps FInv.
LEMMA StepFiles ==
    ASSUME ManualRuns = {}, FInv, [SettleNext]_settleVars
    PROVE  FInv'
  <1>1. Types'
    BY StepTypes DEF FInv
  <1>2. ASSUME (\E t \in Charges : Charge(t)) \/ LeaseExpires \/ UNCHANGED settleVars
        PROVE  OneRun' /\ InHand' /\ LinksMatch' /\ Unspoken' /\ VerdictIsTheBanks'
    <2>1. UNCHANGED <<batch, code, sets, reply, pc, list, chunk>>
      BY <1>2 DEF Charge, LeaseExpires, settleVars, chargeVars, runVars, bankVars
    <2>2. InHand' /\ LinksMatch' /\ Unspoken' /\ VerdictIsTheBanks'
      BY <2>1 DEF FInv, InHand, LinksMatch, Unspoken, VerdictIsTheBanks
    <2>3. OneRun'
      <3>1. CASE LeaseExpires
        BY <2>1, <3>1 DEF FInv, OneRun, LeaseExpires, Runs
      <3>2. CASE ~LeaseExpires
        <4>1. lease' = lease
          BY <1>2, <3>2 DEF Charge, settleVars
        <4> QED
          BY <2>1, <4>1 DEF FInv, OneRun
      <3> QED
        BY <3>1, <3>2
    <2> QED
      BY <2>2, <2>3
  <1> QED
    BY <1>1, <1>2, RunFiles, CommitFiles, FileFiles DEF FInv, SettleNext, RunStep

\* The workers' own runs never put a charge into two files, for any number of
\* runs, aborts and leases that expire.
THEOREM NoDoubleSettlement ==
    ASSUME ManualRuns = {}
    PROVE  SettleSpec => []OneFilePerCharge
  <1>1. FInv /\ [SettleNext]_settleVars => FInv'
    BY StepFiles
  <1>2. FInv => OneFilePerCharge
    <2> SUFFICES ASSUME FInv, NEW i \in DOMAIN sets, NEW j \in DOMAIN sets, i # j,
                        NEW t \in sets[i].charges, t \in sets[j].charges
                 PROVE  FALSE
      BY DEF OneFilePerCharge
    <2>1. t \in Charges
      <3>1. sets \in Seq(SetRow)
        BY DEF FInv, Types, SettleTypeOK, SetRow, SetStates
      <3>2. sets[i] \in SetRow
        BY <3>1
      <3> QED
        BY <3>2 DEF SetRow
    <2> QED
      BY <2>1 DEF FInv, LinksMatch
  <1> QED
    BY <1>1, <1>2, InitFiles, PTL DEF SettleSpec

\* What the tables say the bank said is what the bank said.
\* (settlement_uploader.py poll_settlement_responses), unless the admin's trigger runs
\* beside the worker's run.
THEOREM VerdictsReal ==
    ASSUME ManualRuns = {}
    PROVE  SettleSpec => []VerdictIsTheBanks
  <1>1. FInv /\ [SettleNext]_settleVars => FInv'
    BY StepFiles
  <1>2. FInv => VerdictIsTheBanks
    BY DEF FInv
  <1> QED
    BY <1>1, <1>2, InitFiles, PTL DEF SettleSpec

\* A step links no charge that is linked already.
LEMMA BatchStands ==
    ASSUME FInv, [SettleNext]_settleVars, NEW t \in Charges, batch[t] # 0
    PROVE  batch'[t] = batch[t]
  <1>1. ASSUME NEW r \in Runs, Commit(r) PROVE batch'[t] = batch[t]
    BY <1>1 DEF FInv, InHand, Commit
  <1>2. ASSUME NEW r \in Runs, ~Commit(r), RunStep(r) \/ Abort(r) PROVE batch' = batch
    BY <1>2 DEF RunStep, Start, Scan, Pick, WriteFile, Enqueue, Abort, chargeVars
  <1>3. ASSUME NEW i \in DOMAIN sets,
               UploadStep(i) \/ SendFails(i) \/ WorkerDies(i) \/ BankAnswers(i) \/ Poll(i)
        PROVE  batch' = batch
    BY <1>3 DEF UploadStep, UploadStart, Send, MarkUploaded, SendFails, WorkerDies,
                BankAnswers, Poll, chargeVars
  <1>4. CASE (\E c \in Charges : Charge(c)) \/ LeaseExpires \/ UNCHANGED settleVars
    BY <1>4 DEF Charge, LeaseExpires, settleVars, chargeVars
  <1> QED
    BY <1>1, <1>2, <1>3, <1>4 DEF SettleNext

\* Once a charge is in a file it stays in that file: no later run, upload or
\* answer of the bank moves or drops it.
\* (settlement_worker.py selects rows without a batch only).
THEOREM SettledForGood ==
    ASSUME ManualRuns = {}
    PROVE  SettleSpec => [][\A t \in Charges : batch[t] # 0 => batch'[t] = batch[t]]_settleVars
  <1>1. FInv /\ [SettleNext]_settleVars => FInv'
    BY StepFiles
  <1>2. FInv /\ [SettleNext]_settleVars =>
            [\A t \in Charges : batch[t] # 0 => batch'[t] = batch[t]]_settleVars
    BY BatchStands
  <1> QED
    BY <1>1, <1>2, InitFiles, PTL DEF SettleSpec

-----------------------------------------------------------------------------
(* What has been uploaded *)

ToSend == {"GENERATED", "FAILED"}
Acked  == {"ACKED_OK", "ACKED_NOK", "PARTIAL"}

\* The lease keeps the runs that take it apart, whatever the admin triggers.
OneCron ==
    \A r \in CronRuns : pc[r] # "idle" => lease /\ \A q \in CronRuns : pc[q] # "idle" => r = q

\* A settlement that counts as uploaded has no job.
NoJobLeft == \A i \in DOMAIN sets : sets[i].status \notin ToSend => job[i] = "none"

\* k is the newest settlement with the charges of run r, and nothing was ever done
\* about it or about a newer one.
Fresh(r, k) ==
    /\ k \in DOMAIN sets /\ sets[k].charges = chunk[r]
    /\ \A m \in DOMAIN sets : sets[m].charges = chunk[r] => m <= k
    /\ \A m \in DOMAIN sets : m >= k => job[m] = "none" /\ sets[m].status = "GENERATED"

\* What a worker's run is about to enqueue has never been enqueued.
EnqueuesFresh == \A r \in CronRuns : pc[r] = "enqueue" => \E k \in DOMAIN sets : Fresh(r, k)

QInv == Types /\ OneCron /\ NoJobLeft /\ EnqueuesFresh

\* A settlement that counts as uploaded is never sent again, its content stands,
\* it is never taken back, and a verdict of the bank is final.
UploadStands ==
    \A i \in DOMAIN sets : sets[i].status \notin ToSend =>
        /\ i \in DOMAIN sets' /\ sent'[i] = sent[i] /\ sets'[i].charges = sets[i].charges
        /\ sets'[i].status \in Acked \cup {sets[i].status}
        /\ sets[i].status \in Acked => sets'[i].status = sets[i].status

\* The lists of settlements, jobs and uploads have the same indices.
LEMMA ListTypes ==
    ASSUME Types
    PROVE  /\ sets \in Seq(SetRow) /\ job \in Seq(JobStates) /\ sent \in Seq(Nat)
           /\ Len(job) = Len(sets) /\ Len(sent) = Len(sets) /\ Len(sets) \in Nat
           /\ DOMAIN sets = 1..Len(sets) /\ DOMAIN job = 1..Len(sets) /\ DOMAIN sent = 1..Len(sets)
           /\ pc \in [Runs -> {"idle", "scan", "pick", "file", "commit", "enqueue"}]
           /\ chunk \in [Runs -> SUBSET Charges] /\ CronRuns \subseteq Runs
  BY DEF Types, SettleTypeOK, BankTypeOK, SetRow, SetStates, Runs

\* The lease is taken by one run of the workers at a time.
LEMMA CronStep ==
    ASSUME Types, OneCron, [SettleNext]_settleVars
    PROVE  OneCron'
  <1>0. /\ pc \in [Runs -> {"idle", "scan", "pick", "file", "commit", "enqueue"}]
        /\ CronRuns \subseteq Runs
    BY ListTypes
  <1>1. ASSUME NEW r \in Runs, Start(r) PROVE OneCron'
    <2>1. /\ r \in CronRuns => ~lease
          /\ lease' = (lease \/ r \in CronRuns) /\ pc' = [pc EXCEPT ![r] = "scan"]
      BY <1>1 DEF Start, Step
    <2> QED
      BY <1>0, <2>1 DEF OneCron
  <1>2. ASSUME NEW r \in Runs, ~Start(r), RunStep(r) \/ Abort(r) PROVE OneCron'
    <2>1. lease' = lease /\ pc[r] # "idle" /\ \E v : pc' = [pc EXCEPT ![r] = v]
      BY <1>2 DEF RunStep, Scan, Pick, WriteFile, Commit, Enqueue, Abort, Step
    <2> QED
      BY <1>0, <2>1 DEF OneCron
  <1>3. CASE LeaseExpires
    <2>1. pc' = pc /\ \A r \in CronRuns : pc[r] = "idle"
      BY <1>3 DEF LeaseExpires, runVars
    <2> QED
      BY <2>1 DEF OneCron
  <1>4. ASSUME NEW i \in DOMAIN sets,
               UploadStep(i) \/ SendFails(i) \/ WorkerDies(i) \/ BankAnswers(i) \/ Poll(i)
        PROVE  OneCron'
    <2>1. UNCHANGED <<lease, pc>>
      BY <1>4 DEF UploadStep, UploadStart, Send, MarkUploaded, SendFails, WorkerDies, BankAnswers,
             Poll, runVars
    <2> QED
      BY <2>1 DEF OneCron
  <1>5. CASE (\E t \in Charges : Charge(t)) \/ UNCHANGED settleVars
    BY <1>5 DEF Charge, settleVars, runVars, OneCron
  <1> QED
    BY <1>1, <1>2, <1>3, <1>4, <1>5 DEF SettleNext

\* A new settlement is the newest, and nobody has touched it.
LEMMA CommitQuiet ==
    ASSUME QInv, NEW r \in Runs, Commit(r)
    PROVE  NoJobLeft' /\ EnqueuesFresh' /\ UploadStands
  <1>0. PICK n \in Nat : n = Len(sets) + 1
    BY ListTypes DEF QInv
  <1>1. /\ sets' = Append(sets, [charges |-> chunk[r], status |-> "GENERATED"])
        /\ job' = Append(job, "none") /\ sent' = Append(sent, 0) /\ chunk' = chunk
        /\ pc' = [pc EXCEPT ![r] = "enqueue"] /\ pc[r] = "commit"
    BY DEF Commit, Step
  <1>2. /\ sets \in Seq(SetRow) /\ job \in Seq(JobStates) /\ sent \in Seq(Nat)
        /\ Len(job) = Len(sets) /\ Len(sent) = Len(sets) /\ Len(sets) \in Nat
        /\ DOMAIN sets = 1..Len(sets)
        /\ pc \in [Runs -> {"idle", "scan", "pick", "file", "commit", "enqueue"}]
        /\ CronRuns \subseteq Runs
    BY ListTypes DEF QInv
  <1>3. /\ DOMAIN sets' = 1..n /\ n \in Nat /\ sets'[n].charges = chunk[r] /\ job'[n] = "none"
        /\ sets'[n].status = "GENERATED"
    BY <1>0, <1>1, <1>2
  <1>4. \A m \in DOMAIN sets : sets'[m] = sets[m] /\ job'[m] = job[m] /\ sent'[m] = sent[m]
    BY <1>1, <1>2
  <1>5. \A m \in DOMAIN sets' : m \in DOMAIN sets \/ m = n
    BY <1>0, <1>2, <1>3
  <1>6. NoJobLeft'
    BY <1>3, <1>4, <1>5 DEF QInv, NoJobLeft, ToSend
  <1>7. UploadStands
    BY <1>0, <1>2, <1>3, <1>4 DEF UploadStands
  <1>8. ASSUME NEW q \in CronRuns, pc'[q] = "enqueue" PROVE \E k \in DOMAIN sets' : Fresh(q, k)'
    <2>1. CASE chunk[q] = chunk[r] /\ (\A m \in DOMAIN sets' : m >= n => m = n)
      <3>1. Fresh(q, n)'
        <4>1. \A m \in DOMAIN sets' : m <= n
          BY <1>3
        <4> QED
          BY <1>0, <1>1, <1>2, <1>3, <2>1, <4>1 DEF Fresh
      <3> QED
        BY <1>0, <1>2, <1>3, <3>1
    <2>2. CASE chunk[q] # chunk[r]
      <3>1. pc[q] = "enqueue"
        BY <1>1, <1>2, <1>8, <2>2
      <3>2. PICK k \in DOMAIN sets : Fresh(q, k)
        BY <3>1 DEF QInv, EnqueuesFresh
      <3>3. k \in DOMAIN sets'
        BY <1>0, <1>2, <1>3
      <3>4. sets'[k].charges = chunk'[q]
        BY <1>1, <1>4, <3>2 DEF Fresh
      <3>5. ASSUME NEW m \in DOMAIN sets', sets'[m].charges = chunk'[q] PROVE m <= k
        BY <1>1, <1>3, <1>4, <1>5, <2>2, <3>2, <3>5 DEF Fresh
      <3>6. ASSUME NEW m \in DOMAIN sets', m >= k
            PROVE  job'[m] = "none" /\ sets'[m].status = "GENERATED"
        BY <1>3, <1>4, <1>5, <3>2, <3>6 DEF Fresh
      <3> QED
        BY <3>3, <3>4, <3>5, <3>6 DEF Fresh
    <2>3. \A m \in DOMAIN sets' : m >= n => m = n
      BY <1>3
    <2> QED
      BY <2>1, <2>2, <2>3
  <1>9. EnqueuesFresh'
    BY <1>8 DEF EnqueuesFresh
  <1> QED
    BY <1>6, <1>7, <1>9

\* The job that is enqueued is the one of a settlement nobody has touched.
LEMMA EnqueueQuiet ==
    ASSUME QInv, NEW r \in Runs, Enqueue(r)
    PROVE  NoJobLeft' /\ EnqueuesFresh' /\ UploadStands
  <1> DEFINE Newest(k) == /\ sets[k].charges = chunk[r]
                          /\ \A m \in DOMAIN sets : sets[m].charges = chunk[r] => m <= k
  <1>1. /\ pc[r] = "enqueue" /\ UNCHANGED <<sets, sent>> /\ chunk' = [chunk EXCEPT ![r] = {}]
        /\ \E v \in {"pick", "file"} : pc' = [pc EXCEPT ![r] = v]
        /\ \/ job' = job
           \/ r \in CronRuns /\ job' = [job EXCEPT ![CHOOSE k \in DOMAIN sets : Newest(k)] = "queued"]
    BY DEF Enqueue, Step
  <1>2. /\ DOMAIN sets = 1..Len(sets) /\ DOMAIN job = 1..Len(sets) /\ Len(sets) \in Nat
        /\ job \in Seq(JobStates) /\ CronRuns \subseteq Runs /\ chunk \in [Runs -> SUBSET Charges]
        /\ pc \in [Runs -> {"idle", "scan", "pick", "file", "commit", "enqueue"}]
    BY ListTypes DEF QInv
  <1>3. UploadStands
    BY <1>1 DEF UploadStands
  <1>4. CASE job' = job
    <2>1. \A q \in CronRuns : pc'[q] = "enqueue" => pc[q] = "enqueue" /\ chunk'[q] = chunk[q]
      BY <1>1, <1>2
    <2>2. EnqueuesFresh'
      BY <1>1, <1>4, <2>1 DEF QInv, EnqueuesFresh, Fresh
    <2> QED
      BY <1>1, <1>3, <1>4, <2>2 DEF QInv, NoJobLeft
  <1>5. CASE r \in CronRuns /\ job' = [job EXCEPT ![CHOOSE k \in DOMAIN sets : Newest(k)] = "queued"]
    <2>1. PICK k \in DOMAIN sets : Fresh(r, k)
      BY <1>1, <1>5 DEF QInv, EnqueuesFresh
    <2>2. Newest(k)
      BY <2>1 DEF Fresh
    <2> DEFINE i == CHOOSE j \in DOMAIN sets : Newest(j)
    <2>3. i \in DOMAIN sets /\ Newest(i)
      BY <2>2
    <2>4. i <= k /\ k <= i
      BY <2>2, <2>3
    <2> HIDE DEF i, Newest
    <2>5. i = k
      BY <1>2, <2>1, <2>3, <2>4
    <2>6. sets[i].status = "GENERATED"
      BY <1>2, <2>1, <2>5 DEF Fresh
    <2>7. NoJobLeft'
      BY <1>1, <1>2, <1>5, <2>6 DEF QInv, NoJobLeft, ToSend, i
    <2>8. \A q \in CronRuns : pc'[q] # "enqueue"
      <3> SUFFICES ASSUME NEW q \in CronRuns, pc'[q] = "enqueue" PROVE FALSE
        OBVIOUS
      <3>1. q # r /\ pc[q] = "enqueue"
        BY <1>1, <1>2
      <3> QED
        BY <1>1, <1>5, <3>1 DEF QInv, OneCron
    <2> QED
      BY <1>3, <2>7, <2>8 DEF EnqueuesFresh
  <1> QED
    BY <1>1, <1>4, <1>5

\* The upload job and the poll of a settlement leave the others alone, and end with
\* its status.
LEMMA FileQuiet ==
    ASSUME QInv, NEW i \in DOMAIN sets,
           UploadStep(i) \/ SendFails(i) \/ WorkerDies(i) \/ BankAnswers(i) \/ Poll(i)
    PROVE  NoJobLeft' /\ EnqueuesFresh' /\ UploadStands
  <1>0. /\ sets \in Seq(SetRow) /\ job \in Seq(JobStates) /\ sent \in Seq(Nat)
        /\ Len(sets) \in Nat /\ DOMAIN sets = 1..Len(sets) /\ DOMAIN job = 1..Len(sets)
        /\ DOMAIN sent = 1..Len(sets)
    BY ListTypes DEF QInv
  <1>1. sets[i] \in SetRow
    BY <1>0
  <1>2. /\ sets' = sets \/ \E v \in SetStates : sets' = [sets EXCEPT ![i].status = v]
        /\ job' = job \/ \E v : job' = [job EXCEPT ![i] = v]
        /\ sent' = sent \/ \E v : sent' = [sent EXCEPT ![i] = v]
        /\ UNCHANGED <<pc, chunk>>
    BY DEF UploadStep, UploadStart, Send, MarkUploaded, SendFails, WorkerDies, BankAnswers,
           Poll, Mark, bankVars, runVars, SetStates
  <1>3. DOMAIN sets' = DOMAIN sets /\ \A m \in DOMAIN sets : sets'[m].charges = sets[m].charges
    <2>1. CASE sets' = sets
      BY <2>1
    <2>2. ASSUME NEW v \in SetStates, sets' = [sets EXCEPT ![i].status = v]
          PROVE  DOMAIN sets' = DOMAIN sets /\ \A m \in DOMAIN sets : sets'[m].charges = sets[m].charges
      <3>1. sets' = [sets EXCEPT ![i] = [sets[i] EXCEPT !.status = v]]
        BY <2>2
      <3>2. [sets[i] EXCEPT !.status = v].charges = sets[i].charges
        BY <1>1 DEF SetRow
      <3> QED
        BY <1>0, <3>1, <3>2
    <2> QED
      BY <1>2, <2>1, <2>2
  <1>4. \A m \in DOMAIN sets \ {i} : sets'[m] = sets[m] /\ job'[m] = job[m] /\ sent'[m] = sent[m]
    BY <1>0, <1>2
  <1>5. sets[i].status \notin ToSend =>
            /\ UNCHANGED <<job, sent>> /\ sets'[i].status \in Acked \cup {sets[i].status}
            /\ sets[i].status \in Acked => sets' = sets
    <2> SUFFICES ASSUME sets[i].status \notin ToSend
                 PROVE  /\ UNCHANGED <<job, sent>> /\ sets'[i].status \in Acked \cup {sets[i].status}
                        /\ sets[i].status \in Acked => sets' = sets
      OBVIOUS
    <2>1. job[i] = "none"
      BY DEF QInv, NoJobLeft
    <2>2. BankAnswers(i) \/ Poll(i)
      BY <2>1 DEF UploadStep, UploadStart, Send, MarkUploaded, SendFails, WorkerDies
    <2>3. CASE BankAnswers(i)
      BY <2>3 DEF BankAnswers
    <2>4. CASE Poll(i)
      <3>1. UNCHANGED <<job, sent>> /\ sets[i].status = "UPLOADED"
        BY <2>4 DEF Poll, bankVars
      <3>2. \E v \in Acked : sets' = [sets EXCEPT ![i].status = v]
        BY <2>4 DEF Poll, Mark, Acked
      <3> QED
        BY <1>0, <1>1, <3>1, <3>2 DEF Acked, SetRow
    <2> QED
      BY <2>2, <2>3, <2>4
  <1>6. sets[i].status \in ToSend => sets'[i].status \in ToSend \/ job'[i] = "none"
    <2> SUFFICES ASSUME sets[i].status \in ToSend
                 PROVE  sets'[i].status \in ToSend \/ job'[i] = "none"
      OBVIOUS
    <2>1. CASE MarkUploaded(i)
      BY <1>0, <2>1 DEF MarkUploaded
    <2>2. CASE SendFails(i)
      BY <1>0, <1>1, <2>2 DEF SendFails, Mark, ToSend, SetRow
    <2>3. CASE UploadStart(i) \/ Send(i) \/ WorkerDies(i) \/ BankAnswers(i)
      BY <2>3 DEF UploadStart, Send, WorkerDies, BankAnswers
    <2>4. CASE Poll(i)
      BY <2>4 DEF Poll, ToSend
    <2> QED
      BY <2>1, <2>2, <2>3, <2>4 DEF UploadStep
  <1>7. job[i] = "none" /\ sets[i].status = "GENERATED" => UNCHANGED <<job, sets>>
    <2> SUFFICES ASSUME job[i] = "none", sets[i].status = "GENERATED" PROVE UNCHANGED <<job, sets>>
      OBVIOUS
    <2>1. BankAnswers(i)
      BY DEF UploadStep, UploadStart, Send, MarkUploaded, SendFails, WorkerDies, Poll
    <2> QED
      BY <2>1 DEF BankAnswers
  <1>8. NoJobLeft'
    <2> SUFFICES ASSUME NEW m \in DOMAIN sets, sets'[m].status \notin ToSend PROVE job'[m] = "none"
      BY <1>3 DEF NoJobLeft
    <2> QED
      BY <1>4, <1>5, <1>6 DEF QInv, NoJobLeft
  <1>9. UploadStands
    BY <1>3, <1>4, <1>5 DEF UploadStands
  <1>10. ASSUME NEW q \in CronRuns, pc'[q] = "enqueue" PROVE \E k \in DOMAIN sets' : Fresh(q, k)'
    <2>1. PICK k \in DOMAIN sets : Fresh(q, k)
      BY <1>2, <1>10 DEF QInv, EnqueuesFresh
    <2>2. \A m \in DOMAIN sets : m >= k => job'[m] = "none" /\ sets'[m].status = "GENERATED"
      BY <1>4, <1>7, <2>1 DEF Fresh
    <2> QED
      BY <1>2, <1>3, <2>1, <2>2 DEF Fresh
  <1>11. EnqueuesFresh'
    BY <1>10 DEF EnqueuesFresh
  <1> QED
    BY <1>8, <1>9, <1>11

\* Every step keeps QInv and lets what was uploaded stand.
LEMMA StepQuiet ==
    ASSUME QInv, [SettleNext]_settleVars
    PROVE  QInv' /\ UploadStands
  <1>1. Types' /\ OneCron'
    BY StepTypes, CronStep DEF QInv
  <1>2. ASSUME UNCHANGED <<sets, job, sent>>,
               \A q \in CronRuns : pc'[q] = "enqueue" => pc[q] = "enqueue" /\ chunk'[q] = chunk[q]
        PROVE  NoJobLeft' /\ EnqueuesFresh' /\ UploadStands
    <2>1. NoJobLeft' /\ UploadStands
      BY <1>2 DEF QInv, NoJobLeft, UploadStands
    <2>2. ASSUME NEW q \in CronRuns, pc'[q] = "enqueue" PROVE \E k \in DOMAIN sets' : Fresh(q, k)'
      <3>1. PICK k \in DOMAIN sets : Fresh(q, k)
        BY <1>2, <2>2 DEF QInv, EnqueuesFresh
      <3> QED
        BY <1>2, <2>2, <3>1 DEF Fresh
    <2> QED
      BY <2>1, <2>2 DEF EnqueuesFresh
  <1>3. ASSUME NEW r \in Runs, ~Commit(r), ~Enqueue(r), RunStep(r) \/ Abort(r)
        PROVE  NoJobLeft' /\ EnqueuesFresh' /\ UploadStands
    <2>1. /\ UNCHANGED <<sets, job, sent>>
          /\ \E v \in {"idle", "scan", "pick", "file", "commit"} : pc' = [pc EXCEPT ![r] = v]
          /\ chunk' = chunk \/ \E v : chunk' = [chunk EXCEPT ![r] = v]
      BY <1>3 DEF RunStep, Start, Scan, Pick, WriteFile, Abort, Step, bankVars
    <2>2. /\ pc \in [Runs -> {"idle", "scan", "pick", "file", "commit", "enqueue"}]
          /\ chunk \in [Runs -> SUBSET Charges] /\ CronRuns \subseteq Runs
      BY ListTypes DEF QInv
    <2>3. \A q \in CronRuns : pc'[q] = "enqueue" => pc[q] = "enqueue" /\ chunk'[q] = chunk[q]
      BY <2>1, <2>2
    <2> QED
      BY <1>2, <2>1, <2>3
  <1>4. ASSUME (\E t \in Charges : Charge(t)) \/ LeaseExpires \/ UNCHANGED settleVars
        PROVE  NoJobLeft' /\ EnqueuesFresh' /\ UploadStands
    <2>1. UNCHANGED <<sets, job, sent, pc, chunk>>
      BY <1>4 DEF Charge, LeaseExpires, settleVars, runVars, bankVars
    <2> QED
      BY <1>2, <2>1
  <1>5. NoJobLeft' /\ EnqueuesFresh' /\ UploadStands
    <2>1. ASSUME NEW r \in Runs, RunStep(r) \/ Abort(r)
          PROVE  NoJobLeft' /\ EnqueuesFresh' /\ UploadStands
      BY <1>3, <2>1, CommitQuiet, EnqueueQuiet
    <2>2. ASSUME NEW i \in DOMAIN sets,
                 UploadStep(i) \/ SendFails(i) \/ WorkerDies(i) \/ BankAnswers(i) \/ Poll(i)
          PROVE  NoJobLeft' /\ EnqueuesFresh' /\ UploadStands
      BY <2>2, FileQuiet
    <2> QED
      BY <1>4, <2>1, <2>2 DEF SettleNext
  <1> QED
    BY <1>1, <1>5 DEF QInv

\* Nothing is settled yet.
LEMMA InitQuiet == SettleInit => QInv
  <1> SUFFICES ASSUME SettleInit PROVE QInv
    OBVIOUS
  <1>1. DOMAIN sets = {}
    BY DEF SettleInit
  <1>2. CronRuns \subseteq Runs /\ \A r \in Runs : pc[r] = "idle"
    BY DEF SettleInit, Runs
  <1> QED
    BY <1>1, <1>2, InitTypes DEF QInv, OneCron, NoJobLeft, EnqueuesFresh

\* A settlement that counts as uploaded is never sent to the bank again, never
\* marked FAILED and keeps its charges, and the bank's verdict on it is final: for
\* any retries, dying workers and runs, the admin's included, which may write a
\* charge to two files and still never have one file uploaded twice
\* (settlement_uploader.py upload_settlement_job, poll_settlement_responses).
THEOREM UploadedForGood == SettleSpec => [][UploadStands]_settleVars
  <1>1. QInv /\ [SettleNext]_settleVars => QInv' /\ [UploadStands]_settleVars
    BY StepQuiet
  <1> QED
    BY <1>1, InitQuiet, PTL DEF SettleSpec

\* The bank has spoken only of charges whose settlement it has answered.
SpokenIsAcked ==
    \A t \in Charges : code[t] # "none" =>
        batch[t] \in DOMAIN sets /\ sets[batch[t]].status \in Acked

\* Every step of the workers' own runs keeps this, and no verdict changes.
LEMMA SpokenStep ==
    ASSUME ManualRuns = {}, FInv, QInv, SpokenIsAcked, [SettleNext]_settleVars
    PROVE  /\ SpokenIsAcked'
           /\ \A t \in Charges : code[t] # "none" => code'[t] = code[t]
  <1>0. UploadStands
    BY StepQuiet
  <1>1. \A i \in DOMAIN sets : sets[i].status \in Acked =>
            i \in DOMAIN sets' /\ sets'[i].status \in Acked
    BY <1>0 DEF UploadStands, Acked, ToSend
  <1>2. ASSUME NEW i \in DOMAIN sets, Poll(i)
        PROVE  /\ SpokenIsAcked'
               /\ \A t \in Charges : code[t] # "none" => code'[t] = code[t]
    <2>1. /\ sets[i].status = "UPLOADED" /\ batch' = batch
          /\ \E v \in Acked : sets' = [sets EXCEPT ![i].status = v]
          /\ code' = [t \in Charges |-> IF batch[t] = i THEN Verdict(reply[i], t) ELSE code[t]]
      BY <1>2 DEF Poll, Mark, Acked
    <2>2. sets \in Seq(SetRow) /\ sets[i] \in SetRow
      BY ListTypes DEF QInv
    <2>3. sets'[i].status \in Acked /\ DOMAIN sets' = DOMAIN sets
      BY <2>1, <2>2 DEF SetRow
    <2>4. \A t \in Charges : code[t] # "none" => batch[t] # i
      BY <2>1 DEF SpokenIsAcked, Acked
    <2> QED
      BY <1>1, <2>1, <2>3, <2>4 DEF SpokenIsAcked
  <1>3. ASSUME ~(\E i \in DOMAIN sets : Poll(i)) PROVE code' = code
    BY <1>3 DEF SettleNext, Charge, RunStep, Start, Scan, Pick, WriteFile, Commit, Enqueue, Abort,
       LeaseExpires, UploadStep, UploadStart, Send, MarkUploaded, SendFails, WorkerDies, BankAnswers,
       chargeVars, settleVars
  <1>4. ASSUME code' = code PROVE SpokenIsAcked'
    <2> SUFFICES ASSUME NEW t \in Charges, code[t] # "none"
                 PROVE  batch'[t] \in DOMAIN sets' /\ sets'[batch'[t]].status \in Acked
      BY <1>4 DEF SpokenIsAcked
    <2>1. batch[t] \in DOMAIN sets /\ sets[batch[t]].status \in Acked /\ batch[t] # 0
      BY DEF SpokenIsAcked, FInv, Unspoken
    <2>2. batch'[t] = batch[t]
      BY <2>1, BatchStands
    <2> QED
      BY <1>1, <2>1, <2>2
  <1> QED
    BY <1>2, <1>3, <1>4

\* What the bank has said of a charge is never overwritten, unless the admin's
\* trigger runs beside the worker's run
\* (settlement_uploader.py poll_settlement_responses).
THEOREM VerdictForGood ==
    ASSUME ManualRuns = {}
    PROVE  SettleSpec => [][\A t \in Charges : code[t] # "none" => code'[t] = code[t]]_settleVars
  <1>1. SettleInit => SpokenIsAcked
    BY DEF SettleInit, SpokenIsAcked
  <1>2. FInv /\ [SettleNext]_settleVars => FInv'
    BY StepFiles
  <1>3. QInv /\ [SettleNext]_settleVars => QInv'
    BY StepQuiet
  <1>4. FInv /\ QInv /\ SpokenIsAcked /\ [SettleNext]_settleVars =>
            /\ SpokenIsAcked'
            /\ [\A t \in Charges : code[t] # "none" => code'[t] = code[t]]_settleVars
    BY SpokenStep
  <1> QED
    BY <1>1, <1>2, <1>3, <1>4, InitFiles, InitQuiet, PTL DEF SettleSpec

-----------------------------------------------------------------------------
(* Printing *)

PrintStates == Over \cup {"queued", "config", "paper", "print", "read", "count", "alert"}

PrintTypes ==
    /\ at \in [PrintJobs -> PrintStates]
    /\ try \in [PrintJobs -> 1..MaxTries]
    /\ reach \in [PrintJobs -> BOOLEAN] /\ tracked \in [PrintJobs -> BOOLEAN]
    /\ held \in [PrintJobs -> 0..Capacity] /\ remaining \in 0..Capacity
    /\ sheets \in 0..Capacity /\ out \in [PrintJobs -> 0..MaxTries]
    /\ told \subseteq PrintJobs /\ excused \subseteq PrintJobs /\ raced \in BOOLEAN

\* Where a job stands tells what it has done: an attempt prints at most one
\* sheet, one that is counting has printed it, and a counter is only written
\* if it was not empty.
Attempted ==
    \A j \in PrintJobs :
        /\ at[j] \in {"queued", "config", "paper", "print"} => out[j] < try[j]
        /\ out[j] <= try[j]
        /\ at[j] \in {"read", "count"} => out[j] > 0
        /\ at[j] = "count" => held[j] > 0

PInv == PrintTypes /\ Attempted /\ NoSilentFailure

\* At first nothing has been tried.
LEMMA InitPrint == JobsInit => PInv
  <1> SUFFICES ASSUME JobsInit PROVE PInv
    OBVIOUS
  <1>1. /\ reach \in [PrintJobs -> BOOLEAN] /\ tracked \in [PrintJobs -> BOOLEAN]
        /\ raced \in BOOLEAN
    BY DEF JobsInit
  <1>2. /\ at \in [PrintJobs -> PrintStates] /\ try \in [PrintJobs -> 1..MaxTries]
        /\ held \in [PrintJobs -> 0..Capacity] /\ remaining \in 0..Capacity
        /\ sheets \in 0..Capacity /\ out \in [PrintJobs -> 0..MaxTries]
        /\ told \subseteq PrintJobs /\ excused \subseteq PrintJobs
    BY JobsAssumption DEF JobsInit, PrintStates
  <1>3. Attempted /\ NoSilentFailure
    BY DEF JobsInit, Attempted, NoSilentFailure, Over
  <1> QED
    BY <1>1, <1>2, <1>3 DEF PInv, PrintTypes

\* What a step of a print job may do, in terms of the job alone.
LEMMA PrintStep ==
    ASSUME PInv, PrintNext
    PROVE  PInv'
  <1> USE DEF PInv
  <1>1. ASSUME NEW j \in PrintJobs, TakePrint(j) PROVE PInv'
    BY <1>1 DEF TakePrint, At, PrintTypes, PrintStates, Attempted, NoSilentFailure, Over
  <1>2. ASSUME NEW j \in PrintJobs, GetPrintConfig(j) PROVE PInv'
    BY <1>2 DEF GetPrintConfig, At, PrintTypes, PrintStates, Attempted, NoSilentFailure, Over
  <1>3. ASSUME NEW j \in PrintJobs, CheckPaper(j) PROVE PInv'
    BY <1>3 DEF CheckPaper, At, PrintTypes, PrintStates, Attempted, NoSilentFailure, Over
  <1>4. ASSUME NEW j \in PrintJobs, WritePrinter(j) PROVE PInv'
    BY <1>4, JobsAssumption DEF WritePrinter, RetryOrAlert, At, PrintTypes, PrintStates, Attempted, NoSilentFailure, Over
  <1>5. ASSUME NEW j \in PrintJobs, ReadCounter(j) PROVE PInv'
    BY <1>5 DEF ReadCounter, At, PrintTypes, PrintStates, Attempted, NoSilentFailure, Over
  <1>6. ASSUME NEW j \in PrintJobs, WriteCounter(j) PROVE PInv'
    BY <1>6, JobsAssumption DEF WriteCounter, At, PrintTypes, PrintStates, Attempted, NoSilentFailure, Over
  <1>7. ASSUME NEW j \in PrintJobs, Alert(j) PROVE PInv'
    BY <1>7 DEF Alert, At, PrintTypes, PrintStates, Attempted, NoSilentFailure, Over
  <1>8. ASSUME NEW j \in PrintJobs, KillPrint(j) PROVE PInv'
    BY <1>8, JobsAssumption DEF KillPrint, At, PrintTypes, PrintStates, Attempted, NoSilentFailure, Over
  <1>9. CASE RefillPaper
    BY <1>9, JobsAssumption DEF RefillPaper, PrintTypes, PrintStates, Attempted, NoSilentFailure, Over
  <1> QED
    BY <1>1, <1>2, <1>3, <1>4, <1>5, <1>6, <1>7, <1>8, <1>9 DEF PrintNext

\* Steps of the snapshot jobs leave the printing alone.
LEMMA PrintKept == PInv /\ [JobsNext]_jobsVars => PInv'
  <1> SUFFICES ASSUME PInv, [JobsNext]_jobsVars PROVE PInv'
    OBVIOUS
  <1>1. CASE SnapshotNext \/ UNCHANGED jobsVars
    <2>1. UNCHANGED printVars
      BY <1>1 DEF SnapshotNext, EnqueueSnapshots, Capture, FlushRow, CommitRow, ShowShot, jobsVars
    <2> QED
      BY <2>1 DEF printVars, PInv, PrintTypes, Attempted, NoSilentFailure
  <1> QED
    BY <1>1, PrintStep DEF JobsNext

\* No print fails unseen: whatever the tries, errors and kills, a job that is over
\* has printed, was skipped for lack of paper, or its failure was told to the
\* operator, unless the worker was killed or the alert could not be published
\* (print_worker.py _retry_or_alert).
THEOREM FailuresSeen == JobsSpec => []NoSilentFailure
  <1>1. PInv => NoSilentFailure
    BY DEF PInv
  <1> QED
    BY <1>1, InitPrint, PrintKept, PTL DEF JobsSpec

-----------------------------------------------------------------------------
(* The paper counter *)

\* The jobs whose sheet is out and not yet off the counter.
Counting == {j \in PrintJobs : at[j] \in {"read", "count"}}

\* The counter, and what a job will write back to it, cover the paper that is
\* left and the sheets still to be counted.
Covered ==
    ~raced =>
        /\ remaining >= sheets + Cardinality(Counting)
        /\ \A j \in PrintJobs :
             at[j] = "count" => held[j] >= sheets + Cardinality(Counting)

\* The effect of one job's move on the number of jobs that count.
LEMMA CountingMoves ==
    ASSUME NEW j \in PrintJobs, PrintTypes, NEW a, At(j, a)
    PROVE  /\ Cardinality(Counting) \in Nat /\ Cardinality(Counting') \in Nat
           /\ a \in {"read", "count"} /\ j \notin Counting =>
                 Cardinality(Counting') = Cardinality(Counting) + 1
           /\ a \in {"read", "count"} /\ j \in Counting =>
                 Cardinality(Counting') = Cardinality(Counting)
           /\ a \notin {"read", "count"} /\ j \in Counting =>
                 Cardinality(Counting') = Cardinality(Counting) - 1
           /\ a \notin {"read", "count"} /\ j \notin Counting =>
                 Cardinality(Counting') = Cardinality(Counting)
  <1>1. /\ IsFiniteSet(Counting) /\ IsFiniteSet(Counting')
        /\ Cardinality(Counting) \in Nat /\ Cardinality(Counting') \in Nat
    <2>1. Counting \subseteq PrintJobs /\ Counting' \subseteq PrintJobs
      BY DEF Counting
    <2> QED
      BY <2>1, JobsAssumption, FS_Subset, FS_CardinalityType
  <1>2. Counting' = IF a \in {"read", "count"} THEN Counting \cup {j} ELSE Counting \ {j}
    BY DEF Counting, At, PrintTypes
  <1>3. /\ j \notin Counting => Cardinality(Counting \cup {j}) = Cardinality(Counting) + 1
        /\ j \in Counting => Cardinality(Counting \ {j}) = Cardinality(Counting) - 1
    BY <1>1, FS_AddElement, FS_RemoveElement
  <1>4. /\ j \in Counting => Counting \cup {j} = Counting
        /\ j \notin Counting => Counting \ {j} = Counting
    OBVIOUS
  <1> QED
    BY <1>1, <1>2, <1>3, <1>4

\* No step of a print job, and no refill outside a decrement, uncovers the counter.
LEMMA CoveredKept ==
    ASSUME PInv, Covered, PrintNext
    PROVE  Covered'
  <1> DEFINE c == Cardinality(Counting)
  <1>0. PrintTypes /\ PrintTypes'
    BY PrintStep DEF PInv
  <1>1. ASSUME NEW j \in PrintJobs,
               TakePrint(j) \/ GetPrintConfig(j) \/ CheckPaper(j) \/ Alert(j)
        PROVE  Covered'
    <2>1. PICK a : At(j, a) /\ a \notin {"read", "count"} /\ j \notin Counting
      BY <1>1 DEF TakePrint, GetPrintConfig, CheckPaper, Alert, Counting
    <2>2. UNCHANGED <<raced, remaining, sheets, held>>
      BY <1>1 DEF TakePrint, GetPrintConfig, CheckPaper, Alert
    <2>3. \A k \in PrintJobs : at'[k] = "count" => at[k] = "count"
      BY <1>0, <2>1 DEF At, PrintTypes
    <2>4. Cardinality(Counting') = c /\ c \in Nat
      BY <1>0, <2>1, CountingMoves
    <2> QED
      BY <1>0, <2>2, <2>3, <2>4 DEF Covered, PrintTypes
  <1>2. ASSUME NEW j \in PrintJobs, WritePrinter(j) PROVE Covered'
    <2>1. PICK a : At(j, a) /\ j \notin Counting /\ a # "count"
      BY <1>2 DEF WritePrinter, RetryOrAlert, Counting
    <2>2. /\ UNCHANGED <<raced, remaining, held>>
          /\ sheets' = sheets - 1 \/ (sheets' = sheets /\ a # "read")
      BY <1>0, <1>2, <2>1 DEF WritePrinter, RetryOrAlert, At, PrintTypes
    <2>3. \A k \in PrintJobs : at'[k] = "count" => at[k] = "count"
      BY <1>0, <2>1 DEF At, PrintTypes
    <2>4. /\ c \in Nat /\ Cardinality(Counting') \in Nat
          /\ Cardinality(Counting') = c \/ (a = "read" /\ Cardinality(Counting') = c + 1)
      BY <1>0, <2>1, CountingMoves
    <2>5. sheets' + Cardinality(Counting') <= sheets + c
      BY <1>0, <2>2, <2>4 DEF PrintTypes
    <2> QED
      BY <1>0, <2>2, <2>3, <2>4, <2>5 DEF Covered, PrintTypes
  <1>3. ASSUME NEW j \in PrintJobs, ReadCounter(j) PROVE Covered'
    <2>1. PICK a : At(j, a) /\ j \in Counting /\ (a = "count" => held'[j] = remaining)
      BY <1>0, <1>3 DEF ReadCounter, Counting, PrintTypes
    <2>2. /\ UNCHANGED <<raced, remaining, sheets>>
          /\ \A k \in PrintJobs \ {j} : held'[k] = held[k] /\ at'[k] = at[k]
          /\ at'[j] = a
      BY <1>0, <1>3, <2>1 DEF ReadCounter, At, PrintTypes
    <2>4. /\ c \in Nat /\ Cardinality(Counting') \in Nat
          /\ Cardinality(Counting') <= c
      BY <1>0, <2>1, CountingMoves
    <2> QED
      BY <1>0, <2>1, <2>2, <2>4 DEF Covered, PrintTypes
  <1>4. ASSUME NEW j \in PrintJobs, WriteCounter(j) PROVE Covered'
    <2>1. At(j, "success") /\ j \in Counting /\ at[j] = "count"
      BY <1>4 DEF WriteCounter, Counting
    <2>2. /\ UNCHANGED <<raced, sheets, held>>
          /\ remaining' = remaining \/ remaining' = held[j] - 1
          /\ \A k \in PrintJobs : at'[k] = "count" => at[k] = "count"
      BY <1>0, <1>4, <2>1 DEF WriteCounter, At, PrintTypes
    <2>4. c \in Nat /\ Cardinality(Counting') = c - 1
      BY <1>0, <2>1, CountingMoves
    <2> QED
      BY <1>0, <2>1, <2>2, <2>4 DEF Covered, PrintTypes
  <1>5. ASSUME NEW j \in PrintJobs, KillPrint(j) PROVE Covered'
    <2>1. PICK a : At(j, a) /\ a \notin {"read", "count"}
      BY <1>5 DEF KillPrint
    <2>2. UNCHANGED <<raced, remaining, sheets, held>>
      BY <1>5 DEF KillPrint
    <2>3. \A k \in PrintJobs : at'[k] = "count" => at[k] = "count"
      BY <1>0, <2>1 DEF At, PrintTypes
    <2>4. /\ c \in Nat /\ Cardinality(Counting') \in Nat
          /\ Cardinality(Counting') <= c
      BY <1>0, <2>1, CountingMoves
    <2> QED
      BY <1>0, <2>2, <2>3, <2>4 DEF Covered, PrintTypes
  <1>6. CASE RefillPaper
    <2>1. CASE Counting = {}
      <3>1. Counting' = {} /\ Cardinality({}) = 0
        BY <1>6, <2>1, FS_EmptySet DEF RefillPaper, Counting
      <3>2. remaining' = Capacity /\ sheets' = Capacity /\ at' = at
        BY <1>6 DEF RefillPaper
      <3>3. \A j \in PrintJobs : at'[j] # "count"
        BY <2>1, <3>2 DEF Counting
      <3> QED
        BY <3>1, <3>2, <3>3, JobsAssumption DEF Covered
    <2>2. CASE Counting # {}
      BY <1>6, <2>2 DEF RefillPaper, Counting, Covered
    <2> QED
      BY <2>1, <2>2
  <1> QED
    BY <1>1, <1>2, <1>3, <1>4, <1>5, <1>6 DEF PrintNext

\* The counter is never below the paper that is left, for any number of printers'
\* jobs that count at once, errors and kills, while no refill is booked in the
\* middle of a decrement (print_worker.py _decrement_paper_counter).
THEOREM CounterSafe == JobsSpec => []PaperNotUnderstated
  <1> DEFINE Inv == PInv /\ Covered
  <1>1. JobsInit => Inv
    <2> SUFFICES ASSUME JobsInit PROVE Covered
      BY InitPrint
    <2>1. Counting = {} /\ remaining = Capacity /\ sheets = Capacity
          /\ \A j \in PrintJobs : at[j] # "count"
      BY DEF JobsInit, Counting
    <2> QED
      BY <2>1, FS_EmptySet, JobsAssumption DEF Covered
  <1>2. Inv /\ [JobsNext]_jobsVars => Inv'
    <2> SUFFICES ASSUME PInv, Covered, [JobsNext]_jobsVars PROVE Covered'
      BY PrintKept
    <2>1. CASE SnapshotNext \/ UNCHANGED jobsVars
      <3>1. UNCHANGED printVars
        BY <2>1 DEF SnapshotNext, EnqueueSnapshots, Capture, FlushRow, CommitRow, ShowShot, jobsVars
      <3> QED
        BY <3>1 DEF printVars, Covered, Counting
    <2> QED
      BY <2>1, CoveredKept DEF JobsNext
  <1>3. Inv => PaperNotUnderstated
    <2> SUFFICES ASSUME PInv, Covered, ~raced PROVE remaining >= sheets
      BY DEF PaperNotUnderstated
    <2>1. Cardinality(Counting) \in Nat
      BY JobsAssumption, FS_Subset, FS_CardinalityType DEF Counting
    <2> QED
      BY <2>1 DEF Covered, PInv, PrintTypes
  <1> QED
    BY <1>1, <1>2, <1>3, PTL DEF JobsSpec

-----------------------------------------------------------------------------
(* Snapshots *)

ShotTypes ==
    /\ shot \in [Shots -> {"none", "queued", "save", "commit", "show", "done"}]
    /\ seen \in [Shots -> Shots \cup {<<>>}] /\ rows \subseteq Shots
    /\ linked \in [Transactions \X Kinds -> Shots \cup {<<>>}]
    /\ shown \subseteq Shots

\* The picture a link names is a committed one of that transaction and kind.
LinkedRight ==
    \A x \in Transactions \X Kinds :
        \/ linked[x] = <<>> /\ \A s \in rows : <<s[1], s[2]>> # x
        \/ linked[x] \in rows /\ <<linked[x][1], linked[x][2]>> = x

\* A link once read as set stays set, and only committed pictures are shown.
ReadIsKept ==
    \A s \in Shots :
        /\ shot[s] = "commit" /\ seen[s] # <<>> => linked[<<s[1], s[2]>>] # <<>>
        /\ shot[s] = "show" => s \in rows

SInv == ShotTypes /\ LinkedRight /\ ReadIsKept /\ shown \subseteq rows

\* A picture names its transaction, its kind and its camera.
LEMMA ShotParts ==
    ASSUME NEW s \in Shots
    PROVE  /\ s # <<>> /\ s[1] \in Transactions /\ s[2] \in Kinds /\ s[3] \in Cameras
           /\ <<s[1], s[2]>> \in Transactions \X Kinds
  BY DEF Shots

\* The invariant holds while no picture has been taken.
LEMMA InitShots == JobsInit => SInv
  BY DEF JobsInit, SInv, ShotTypes, LinkedRight, ReadIsKept

\* Each step of take_snapshot and of enqueue_snapshots_for_gate preserves it.
LEMMA ShotStep ==
    ASSUME SInv, SnapshotNext
    PROVE  SInv'
  <1> USE DEF SInv, ShotTypes
  <1>1. ASSUME NEW x \in Transactions, NEW k \in Kinds, EnqueueSnapshots(x, k) PROVE SInv'
    <2>1. UNCHANGED <<seen, rows, linked, shown>>
      BY <1>1 DEF EnqueueSnapshots
    <2>2. /\ shot' \in [Shots -> {"none", "queued", "save", "commit", "show", "done"}]
          /\ \A s \in Shots : shot'[s] \in {"commit", "show"} => shot'[s] = shot[s]
      BY <1>1 DEF EnqueueSnapshots
    <2> QED
      BY <2>1, <2>2 DEF LinkedRight, ReadIsKept
  <1>2. ASSUME NEW s \in Shots, Capture(s) PROVE SInv'
    BY <1>2 DEF Capture, Shoot, LinkedRight, ReadIsKept
  <1>3. ASSUME NEW s \in Shots, FlushRow(s) PROVE SInv'
    BY <1>3, ShotParts DEF FlushRow, Shoot, LinkedRight, ReadIsKept
  <1>4. ASSUME NEW s \in Shots, CommitRow(s) PROVE SInv'
    <2>1. CASE UNCHANGED <<rows, linked>>
      BY <1>4, <2>1 DEF CommitRow, Shoot, LinkedRight, ReadIsKept
    <2>2. CASE /\ rows' = rows \cup {s}
               /\ linked' = [x \in Transactions \X Kinds |->
                                IF x \in LinkOf(s) THEN s ELSE linked[x]]
               /\ Shoot(s, IF s[2] = "exit" THEN "show" ELSE "done")
      <3>1. UNCHANGED <<seen, shown>>
        BY <1>4 DEF CommitRow
      <3>2. ShotTypes' /\ shown' \subseteq rows'
        BY <2>2, <3>1 DEF Shoot
      <3>3. \A x \in Transactions \X Kinds :
               linked'[x] = s \/ (linked'[x] = linked[x] /\ (x # <<s[1], s[2]>> \/ linked[x] # <<>>))
        BY <1>4, <2>2 DEF CommitRow, LinkOf, ReadIsKept
      <3>4. \A x \in Transactions \X Kinds : linked'[x] = s => x = <<s[1], s[2]>> \/ linked[x] = s
        BY <2>2 DEF LinkOf
      <3>5. LinkedRight'
        BY <2>2, <3>3, <3>4, ShotParts DEF LinkedRight
      <3>6. ReadIsKept'
        BY <2>2, <3>1, <3>3, ShotParts DEF ReadIsKept, Shoot
      <3> QED
        BY <3>2, <3>5, <3>6
    <2> QED
      BY <1>4, <2>1, <2>2 DEF CommitRow
  <1>5. ASSUME NEW s \in Shots, ShowShot(s) PROVE SInv'
    BY <1>5 DEF ShowShot, Shoot, LinkedRight, ReadIsKept
  <1> QED
    BY <1>1, <1>2, <1>3, <1>4, <1>5 DEF SnapshotNext

\* Printing leaves the snapshots alone.
LEMMA ShotsKept == SInv /\ [JobsNext]_jobsVars => SInv'
  <1> SUFFICES ASSUME SInv, [JobsNext]_jobsVars PROVE SInv'
    OBVIOUS
  <1>1. CASE PrintNext \/ UNCHANGED jobsVars
    <2>1. UNCHANGED shotVars
      BY <1>1 DEF PrintNext, TakePrint, GetPrintConfig, CheckPaper, WritePrinter, ReadCounter,
                  WriteCounter, Alert, KillPrint, RefillPaper, jobsVars
    <2> QED
      BY <2>1 DEF shotVars, SInv, ShotTypes, LinkedRight, ReadIsKept
  <1> QED
    BY <1>1, ShotStep DEF JobsNext

\* For any number of cameras whose jobs commit in any order, with errors: a
\* transaction's entry and exit links name committed snapshots of it and of that
\* kind as soon as there is one (snapshot_worker.py _save_snapshot_record).
THEOREM LinksSound == JobsSpec => []SnapshotLinked
  <1>1. SInv => SnapshotLinked
    BY ShotParts DEF SInv, ShotTypes, LinkedRight, SnapshotLinked
  <1> QED
    BY <1>1, InitShots, ShotsKept, PTL DEF JobsSpec

\* The states of the critical worker's jobs have their types, whatever the number of
\* jobs (print_worker.py, snapshot_worker.py): no attempt beyond max_tries, no
\* counter below zero or above a full printer.
THEOREM JobsTypes == JobsSpec => []JobsTypeOK
  <1> DEFINE FaultsOK == jobFaults \in 0..MaxJobFaults
  <1>1. JobsInit => FaultsOK
    BY JobsAssumption DEF JobsInit
  <1>2. FaultsOK /\ [JobsNext]_jobsVars => FaultsOK'
    <2> SUFFICES ASSUME FaultsOK, [JobsNext]_jobsVars PROVE FaultsOK'
      OBVIOUS
    <2>1. jobFaults' = jobFaults \/ (jobFaults < MaxJobFaults /\ jobFaults' = jobFaults + 1)
      BY DEF JobsNext, PrintNext, SnapshotNext, TakePrint, GetPrintConfig, CheckPaper, WritePrinter,
             ReadCounter, WriteCounter, Alert, KillPrint, RefillPaper, EnqueueSnapshots, Capture,
             FlushRow, CommitRow, ShowShot, JobFault, Fine, jobsVars
    <2> QED
      BY <2>1, JobsAssumption
  <1>3. PInv /\ SInv /\ FaultsOK => JobsTypeOK
    BY DEF PInv, PrintTypes, PrintStates, SInv, ShotTypes, JobsTypeOK
  <1> QED
    BY <1>1, <1>2, <1>3, InitPrint, PrintKept, InitShots, ShotsKept, PTL DEF JobsSpec

-----------------------------------------------------------------------------
(* Clean-up *)

\* A row says no more than what happened: an ACTIVE row is of a vehicle inside, a
\* COMPLETED one of a vehicle that left on the day it says.
RowsTrue ==
    \A v \in Visits :
        /\ stay[v].status = "ACTIVE" => life[v].is = "in"
        /\ stay[v].status = "COMPLETED" => life[v].is = "out" /\ stay[v].left = life[v].day

RInv == RetentionTypeOK /\ RowsTrue /\ Retained

\* It holds before the first vehicle.
LEMMA InitStays == RetentionInit => RInv
  BY RetentionAssumption DEF RetentionInit, NoRow, RInv, RetentionTypeOK, RowsTrue, Retained

\* Every step preserves it; the clean-up because it takes only rows that are
\* expired, and none at all when an e-money row names one of them.
LEMMA StayStep == RInv /\ [RetentionNext]_retentionVars => RInv'
  <1> SUFFICES ASSUME RInv, [RetentionNext]_retentionVars PROVE RInv'
    OBVIOUS
  <1> USE RetentionAssumption DEF RInv, RetentionTypeOK, RowsTrue, Retained
  <1>1. ASSUME NEW v \in Visits, Enters(v) PROVE RInv'
    <2>1. /\ stay' = [stay EXCEPT ![v] = [stay[v] EXCEPT !.status = "ACTIVE"]]
          /\ life' = [life EXCEPT ![v] = [life[v] EXCEPT !.is = "in"]]
          /\ UNCHANGED <<day, armed, charged>>
      BY <1>1 DEF Enters
    <2>2. /\ stay[v] \in [status : {"none", "ACTIVE", "COMPLETED"},
                           method : {"none", "PENDING", "CASH", "EMONEY"}, left : 0..MaxDays]
          /\ life[v] \in [is : {"none", "in", "out"}, day : 0..MaxDays]
      OBVIOUS
    <2> QED
      BY <2>1, <2>2
  <1>2. ASSUME NEW v \in Visits, Arms(v) PROVE RInv'
    BY <1>2 DEF Arms
  <1>3. ASSUME NEW v \in Visits, DeductFails(v) PROVE RInv'
    BY <1>3 DEF DeductFails
  <1>4. ASSUME NEW v \in Visits, NEW m \in {"CASH", "EMONEY"}, Leaves(v, m) PROVE RInv'
    BY <1>4 DEF Leaves
  <1>5. CASE CleanupOldSessions
    BY <1>5 DEF CleanupOldSessions, Expired, NoRow
  <1>6. CASE TimeoutPendingPayments
    BY <1>6 DEF TimeoutPendingPayments
  <1>7. CASE DayPasses
    BY <1>7 DEF DayPasses
  <1>8. CASE UNCHANGED retentionVars
    BY <1>8 DEF retentionVars
  <1> QED
    BY <1>1, <1>2, <1>3, <1>4, <1>5, <1>6, <1>7, <1>8 DEF RetentionNext

\* No clean-up takes a row that is still needed, for any retention and any number of
\* stays: not while the vehicle is inside, not within the retention, not while an
\* e-money row names it (cleanup_worker.py cleanup_old_sessions).
THEOREM StaysRetained == RetentionSpec => []Retained
  <1>1. RInv => Retained
    BY DEF RInv
  <1> QED
    BY <1>1, InitStays, StayStep, PTL DEF RetentionSpec

\* The stays and the clean-up's clock keep their types: no row gets a status, a method
\* or a day of exit the code has no name for (cleanup_worker.py, parking_transaction.py).
THEOREM StayTypes == RetentionSpec => []RetentionTypeOK
  <1>1. RInv => RetentionTypeOK
    BY DEF RInv
  <1> QED
    BY <1>1, InitStays, StayStep, PTL DEF RetentionSpec

-----------------------------------------------------------------------------
(* The workers as a whole *)

\* Whatever cron runs, jobs and clean-ups interleave, fail and are repeated, charges,
\* files, jobs, the paper counter, snapshots and stays keep their types (the workers of
\* src/workers).
THEOREM WorkersTypes == Spec => []WorkersTypeOK
  <1>1. Init => SettleInit /\ JobsInit /\ RetentionInit
    BY DEF Init
  <1>2. [Next]_vars => [SettleNext]_settleVars
    BY DEF Next, Settling, vars
  <1>3. [Next]_vars => [JobsNext]_jobsVars
    BY DEF Next, Settling, vars, JobsNext
  <1>4. [Next]_vars => [RetentionNext]_retentionVars
    BY DEF Next, Settling, vars
  <1>5. Spec => SettleSpec /\ JobsSpec /\ RetentionSpec
    BY <1>1, <1>2, <1>3, <1>4, PTL DEF Spec, SettleSpec, JobsSpec, RetentionSpec
  <1>6. SettleTypeOK /\ JobsTypeOK /\ RetentionTypeOK => WorkersTypeOK
    BY DEF WorkersTypeOK
  <1> QED
    BY <1>5, <1>6, SettlementTypes, JobsTypes, StayTypes, PTL

=============================================================================
