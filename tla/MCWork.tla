------------------------------- MODULE MCWork -------------------------------
(***************************************************************************)
(* Work that must come to an end, in one run: the background location task *)
(* of a device, the wake-ups of its operation outbox, the upload of its    *)
(* log, and the closing of coordination requests on the server.  The       *)
(* components share no state: "part" says which of them a behaviour is     *)
(* about, and the others stay in an initial state that owes no step.       *)
(***************************************************************************)
EXTENDS Naturals, Sequences, FiniteSets

CONSTANTS
  Parts,                                          \* the components to explore
  Owners, NoOne, Sessions, NoSession, MaxRequests, MaxFaults, MaxSequence,
                                                  \* of BackgroundJourney
  Rows, MaxFailures, MaxPauses, MaxPolls,         \* SyncScheduler
  Requests, Members, Leaders, Options, Policy, Default, MaxClaim, MaxCalls,
                                                  \* CoordinationRequests
  Records, Errors, Threshold, MaxUpload, MaxLogFaults, MaxGrants
                                                  \* DiagnosticsUpload

VARIABLES
  part,
  app, access, epoch, epochs, config, task, jobs, opening, sample, deaf,
  stuck, stray, torn, mixed, cold, requests, troubles,
  row, kicks, active, timer, worker, wakeRequested, emptyWakeFlushConsumed,
  flight, unseen, failures, pauses, polls,
  status, outcome, source, votes, log, members, overdue, locks, tx, voters,
  calls,
  on, revision, granting, mounted, rows, era, disk, batch, upload, alarm,
  counter, leaked, crossed, untold, recorded, mishaps

journeyVars == <<app, access, epoch, epochs, config, task, jobs, opening,
                 sample, deaf, stuck, stray, torn, mixed, cold, requests,
                 troubles>>
schedulerVars == <<row, kicks, active, timer, worker, wakeRequested,
                   emptyWakeFlushConsumed, flight, unseen, failures, pauses,
                   polls>>
decisionVars == <<status, outcome, source, votes, log, members, overdue, locks,
                  tx, voters, calls>>
logVars == <<on, revision, granting, mounted, rows, era, disk, batch, upload,
             alarm, counter, leaked, crossed, untold, recorded, mishaps>>

Journey == INSTANCE BackgroundJourneyProofs
  WITH issued <- epochs, faults <- troubles

Scheduler == INSTANCE SyncScheduler

Decision == INSTANCE CoordinationRequests WITH NoOption <- NoOne

Log == INSTANCE DiagnosticsUpload
  WITH MaxBatch <- MaxUpload, MaxFaults <- MaxLogFaults, lane <- disk,
       timer <- alarm, writes <- counter, faults <- mishaps

(* The first request falls back on an option that cannot be applied. *)
MCPolicy == [first |-> "majority", second |-> "unanimity"]
MCDefault == [first |-> "bad", second |-> "meet"]

ASSUME WorkAssumption ==
  /\ Journey!JourneyAssumption /\ Scheduler!SchedulerAssumption
  /\ Decision!CoordinationAssumption /\ Log!LogAssumption

vars == <<part, journeyVars, schedulerVars, decisionVars, logVars>>

Init ==
  /\ part \in Parts
  /\ Journey!Init /\ Scheduler!Init /\ Decision!Init /\ Log!Init
  /\ part # "journey" => access = CHOOSE a \in Owners : TRUE
  /\ part # "scheduler" => ~active

Next ==
  /\ UNCHANGED part
  /\ \/ /\ part = "journey" /\ Journey!Next
        /\ UNCHANGED <<schedulerVars, decisionVars, logVars>>
     \/ /\ part = "scheduler" /\ Scheduler!Next
        /\ UNCHANGED <<journeyVars, decisionVars, logVars>>
     \/ /\ part = "decision" /\ Decision!Next
        /\ UNCHANGED <<journeyVars, schedulerVars, logVars>>
     \/ /\ part = "log" /\ Log!Next
        /\ UNCHANGED <<journeyVars, schedulerVars, decisionVars>>

Spec ==
  /\ Init /\ [][Next]_vars
  /\ Journey!Fairness /\ Scheduler!Fairness /\ Decision!Fairness
  /\ Log!Fairness

(* A part at rest has nothing to say. *)
TaskIsOwned == part = "journey" => Journey!TaskIsOwned
TaskMatches == part = "journey" => Journey!TaskMatches
OffWhenUnwanted == part = "journey" => Journey!OffWhenUnwanted
ProgressKept == Journey!ProgressKept
ColdTaskStops == Journey!ColdTaskStops
NothingMixed == part = "journey" => Journey!NothingMixed

SleepsDrained == part = "scheduler" => Scheduler!SleepsDrained
DrainsCounted == Scheduler!DrainsCounted

DecidedOnce == part = "decision" => Decision!DecidedOnce
DueIsClosed == Decision!DueIsClosed

SentInConsent == part = "log" => Log!SentInConsent
RowsLeave == Log!RowsLeave
=============================================================================
