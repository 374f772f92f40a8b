-------------------------- MODULE DiagnosticsUpload --------------------------
(***************************************************************************)
(* The opt-in log lane: records wait in SQLite, a batch scheduler with one *)
(* timer and one upload in flight decides when to send them, and consent   *)
(* may be withdrawn and given again at any time.  Writes and flushes of    *)
(* the diagnostic queue share one serial lane; a withdrawal purges the     *)
(* rows without waiting for it.                                            *)
(*                                                                         *)
(* Records are numbered in the order they are recorded.  Time is the timer *)
(* that is set or not.  The performance queue and the MetricKit payloads   *)
(* of the same upload are its second half, which takes time and may leave  *)
(* something behind.                                                       *)
(***************************************************************************)
EXTENDS Naturals, Sequences, FiniteSets

CONSTANTS
  Records,     \* records 1 .. Records
  Errors,      \* those that are ad failures, which are flushed at once
  Threshold,   \* LOG_BATCH_RECORD_THRESHOLD
  MaxBatch,    \* MAX_UPLOAD_BATCH
  MaxFaults,   \* bound: failed uploads, failed reads and restarts
  MaxGrants    \* bound: times consent is given

LogAssumption ==
  /\ Records \in Nat /\ Errors \subseteq 1 .. Records
  /\ Threshold \in Nat \ {0} /\ MaxBatch \in Nat \ {0}
  /\ MaxFaults \in Nat /\ MaxGrants \in Nat

VARIABLES
  on, revision, granting,   \* diagnosticConsent: enabled, choiceRevision, a
                            \* choice being stored (or 0)
  mounted,                  \* revision the App effect was set up with, or 0
  rows, era,                \* pending rows; the revision of each record
  lane, batch,              \* serial lane of the queue; the flush at its head
  upload, timer, writes,    \* the scheduler: its upload, timer and counter
  leaked, crossed, untold,  \* history, see the properties
  recorded, faults

consentVars == <<on, revision, granting, mounted>>
queueVars == <<rows, era, lane, batch>>
schedulerVars == <<timer, writes>>
vars == <<consentVars, queueVars, upload, schedulerVars, leaked, crossed,
          untold, recorded, faults>>

Record == 1 .. Records
UploadFlush == 0             \* tasks of the lane: a record to write, the
StepFlush == Records + 1     \* flush of an upload, the one of an ad failure
Revision == 0 .. 2 * MaxGrants
NoBatch == [phase |-> "none", recs |-> {}, revision |-> 0]
NoUpload == [phase |-> "none", left |-> FALSE, revision |-> 0]

TypeOK ==
  /\ on \in BOOLEAN
  /\ revision \in Revision /\ granting \in Revision /\ mounted \in Revision
  /\ rows \subseteq Record /\ era \in [Record -> Revision]
  /\ lane \in Seq(0 .. Records + 1)
  /\ batch \in [phase : {"none", "read", "sent"}, recs : SUBSET Record,
                revision : Revision]
  /\ upload \in [phase : {"none", "logs", "rest"}, left : BOOLEAN,
                 revision : Revision]
  /\ timer \in BOOLEAN /\ writes \in Nat
  /\ leaked \subseteq Record /\ crossed \subseteq Record
  /\ untold \subseteq Record
  /\ recorded \in 0 .. Records /\ faults \in 0 .. MaxFaults

Init ==
  /\ on = FALSE /\ revision = 0 /\ granting = 0 /\ mounted = 0
  /\ rows = {} /\ era = [r \in Record |-> 0]
  /\ lane = <<>> /\ batch = NoBatch
  /\ upload = NoUpload /\ timer = FALSE /\ writes = 0
  /\ leaked = {} /\ crossed = {} /\ untold = {}
  /\ recorded = 0 /\ faults = 0

InFlight == upload.phase # "none"
IsCurrent(r) == on /\ revision = r
Fault == faults < MaxFaults /\ faults' = faults + 1

-----------------------------------------------------------------------------
(* The scheduler: schedule() refuses while an upload is in flight.         *)

(* notifyErrorRecorded, notifyLogRecorded: an error and a full batch clear *)
(* the timer before they set it, so in flight they leave none.             *)
Notify(r) ==
  /\ writes' = IF mounted = 0 THEN writes ELSE writes + 1
  /\ timer' = (IF mounted = 0 THEN timer ELSE ~InFlight)

TimerFires ==
  /\ timer
  /\ timer' = FALSE
  /\ upload' = [phase |-> "logs", left |-> FALSE, revision |-> mounted]
  /\ lane' = Append(lane, UploadFlush)
  /\ UNCHANGED <<consentVars, rows, era, batch, writes, leaked, crossed,
                 untold, recorded, faults>>

(* Mutant: an upload that failed is not followed by another. *)
FinishOnce(left) ==
  /\ upload' = NoUpload
  /\ IF mounted = 0 THEN UNCHANGED schedulerVars
     ELSE writes' = 0 /\ timer' = FALSE

(* The end of runFlush: whatever is left is tried again after a delay. *)
Finish(left) ==
  /\ upload' = NoUpload
  /\ IF mounted = 0 THEN UNCHANGED schedulerVars
     ELSE writes' = 0 /\ timer' = (timer \/ left)

(* The second half ends the upload, in which anything may have failed. *)
UploadEnds ==
  /\ upload.phase = "rest"
  /\ \/ /\ Finish(upload.left /\ IsCurrent(upload.revision))
        /\ UNCHANGED faults
     \/ Fault /\ Finish(TRUE)
  /\ UNCHANGED <<consentVars, queueVars, leaked, crossed, untold, recorded>>

-----------------------------------------------------------------------------
(* The serial lane of the diagnostic queue. *)

AtHead(tasks) == lane # <<>> /\ Head(lane) \in tasks

RecordEvent ==
  /\ recorded < Records /\ recorded' = recorded + 1
  /\ lane' = Append(lane, recorded + 1)
  /\ UNCHANGED <<consentVars, rows, era, batch, upload, schedulerVars, leaked,
                 crossed, untold, faults>>

(* write(): the consent is read in the lane; an ad failure is flushed. *)
Write ==
  /\ AtHead(Record)
  /\ LET r == Head(lane) IN
       \/ /\ on
          /\ rows' = rows \cup {r} /\ era' = [era EXCEPT ![r] = revision]
          /\ lane' = IF r \in Errors THEN Append(Tail(lane), StepFlush)
                     ELSE Tail(lane)
          /\ Notify(r)
          /\ untold' = IF upload.phase = "rest"
                          \/ (InFlight /\ upload.revision # mounted)
                       THEN untold \cup {r} ELSE untold
       \/ /\ ~on
          /\ lane' = IF r \in Errors THEN Append(Tail(lane), StepFlush)
                     ELSE Tail(lane)
          /\ UNCHANGED <<rows, era, schedulerVars, untold>>
  /\ UNCHANGED <<consentVars, batch, upload, leaked, crossed, recorded, faults>>

(* flush() returns; the upload that asked for it goes on to its second half. *)
FlushReturns(left) ==
  /\ lane' = Tail(lane) /\ batch' = NoBatch
  /\ upload' = IF Head(lane) = UploadFlush
               THEN [upload EXCEPT !.phase = "rest", !.left = left] ELSE upload

Oldest == {r \in rows : Cardinality({q \in rows : q < r}) < MaxBatch}

FlushReads ==
  /\ AtHead({UploadFlush, StepFlush}) /\ batch.phase = "none"
  /\ \/ /\ on /\ rows # {}
        /\ batch' = [phase |-> "read", recs |-> Oldest, revision |-> 0]
        /\ UNCHANGED <<rows, lane, upload>>
     \/ /\ on /\ rows = {} /\ FlushReturns(FALSE)
        /\ UNCHANGED rows
     \/ /\ ~on /\ rows' = {} /\ FlushReturns(FALSE)
  /\ UNCHANGED <<consentVars, era, schedulerVars, leaked, crossed, untold,
                 recorded, faults>>

(* Consent can change while SQLite reads are in flight: it is read again,  *)
(* and its revision fences the request from here on.                       *)
FlushSends ==
  /\ batch.phase = "read"
  /\ \/ /\ on
        /\ batch' = [batch EXCEPT !.phase = "sent", !.revision = revision]
        /\ UNCHANGED <<rows, lane, upload>>
     \/ /\ ~on /\ rows' = {} /\ FlushReturns(FALSE)
  /\ UNCHANGED <<consentVars, era, schedulerVars, leaked, crossed, untold,
                 recorded, faults>>

(* Mutant: the request is not fenced by the revision of the consent. *)
SubmittedAnyway(recs, r) ==
  leaked' = leaked \cup {q \in recs : era[q] # revision \/ ~on}

(* A batch reaches the server: the revision at that moment is what counts. *)
Submitted(recs, r) ==
  /\ IsCurrent(r)
  /\ leaked' = leaked \cup {q \in recs : era[q] # revision}

(* The answer: accepted rows are settled, an aborted or failed request     *)
(* leaves its rows for the next upload.                                    *)
FlushAnswered ==
  /\ batch.phase = "sent"
  /\ \/ /\ Submitted(batch.recs, batch.revision)
        /\ rows' = rows \ batch.recs
        /\ FlushReturns(rows' # {})
        /\ UNCHANGED faults
     \/ /\ ~IsCurrent(batch.revision)
        /\ FlushReturns(rows # {})
        /\ UNCHANGED <<rows, leaked, faults>>
     \/ /\ Fault /\ FlushReturns(rows # {})
        /\ UNCHANGED <<rows, leaked>>
  /\ UNCHANGED <<consentVars, era, schedulerVars, crossed, untold, recorded>>

(* SQLite fails under the flush: uploadLocalLogs reports -1 remaining.  *)
FlushFails ==
  /\ AtHead({UploadFlush, StepFlush}) /\ batch.phase # "sent"
  /\ Fault /\ FlushReturns(FALSE)
  /\ untold' = IF Head(lane) = UploadFlush THEN untold \cup rows ELSE untold
  /\ UNCHANGED <<consentVars, rows, era, schedulerVars, leaked, crossed,
                 recorded>>

-----------------------------------------------------------------------------
(* Consent, and the App effect that follows it. *)

Grant ==
  /\ ~on /\ granting = 0 /\ revision + 2 <= 2 * MaxGrants
  /\ revision' = revision + 1 /\ granting' = revision + 1
  /\ UNCHANGED <<on, mounted, queueVars, upload, schedulerVars, leaked,
                 crossed, untold, recorded, faults>>

(* The effect enables the scheduler afresh and records the foreground. *)
Mount(r) ==
  /\ recorded < Records /\ recorded' = recorded + 1
  /\ mounted' = r /\ timer' = FALSE /\ writes' = 0

GrantStored ==
  /\ granting # 0 /\ granting' = 0
  /\ \/ /\ granting = revision
        /\ on' = TRUE /\ Mount(revision)
        /\ lane' = Append(lane, recorded + 1)
     \/ /\ granting # revision
        /\ UNCHANGED <<on, mounted, lane, schedulerVars, recorded>>
  /\ UNCHANGED <<revision, rows, era, batch, upload, leaked, crossed, untold,
                 faults>>

Revoke ==
  /\ on \/ (granting # 0 /\ granting = revision)
  /\ on' = FALSE /\ revision' = revision + 1
  /\ mounted' = 0 /\ timer' = FALSE /\ writes' = 0
  /\ rows' = {}
  /\ crossed' = IF batch.phase = "read" THEN crossed \cup batch.recs
                ELSE crossed
  /\ UNCHANGED <<granting, era, lane, batch, upload, leaked, untold, recorded,
                 faults>>

(* The process dies; rows and consent are stored. *)
Crash ==
  /\ Fault
  /\ batch' = NoBatch /\ upload' = NoUpload /\ granting' = 0
  /\ \/ /\ on /\ Mount(revision)
        /\ lane' = <<recorded + 1>>
     \/ /\ ~on /\ lane' = <<>>
        /\ UNCHANGED <<mounted, schedulerVars, recorded>>
  /\ UNCHANGED <<on, revision, rows, era, leaked, crossed, untold>>

Internal == \/ TimerFires \/ UploadEnds
            \/ Write \/ FlushReads \/ FlushSends \/ FlushAnswered
Next == \/ Internal \/ RecordEvent \/ FlushFails
        \/ Grant \/ GrantStored \/ Revoke \/ Crash

Spec == Init /\ [][Next]_vars

(* Timers fire, SQLite and the network answer in the end. *)
Fairness == WF_vars(Internal)

-----------------------------------------------------------------------------
(* What is sent was recorded under the consent in force when it is sent:   *)
(* the revision fence of the request, with the purge, keeps a withdrawn    *)
(* record off the wire.  The exception is named: rows that a flush had     *)
(* read before the withdrawal, and sends under the next consent, because   *)
(* its second look asks whether consent is on and not which one.           *)
SentInConsent == leaked \subseteq crossed

(* A pending row is never forgotten: with consent on, every row leaves, by *)
(* being sent or purged (a run has finitely many records, so this says     *)
(* that of each of them).  The exception is a row the scheduler was never  *)
(* told of: written behind the count of the upload in flight, or under an  *)
(* upload that an earlier consent left in flight (the notification is      *)
(* refused and the upload reports nothing left), or left by a flush that   *)
(* failed in SQLite.                                                       *)
RowsLeave == []<>(rows \subseteq untold)
=============================================================================
