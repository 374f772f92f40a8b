------------------------- MODULE BackgroundJourney -------------------------
(***************************************************************************)
(* The one background location task of a device.  The interface starts it  *)
(* when the app leaves the foreground and stops it when the app returns or *)
(* the user withdraws; starts, stops and the progress that samples record  *)
(* share one serial lane over the stored configuration and the native      *)
(* task, and each start or stop supersedes what is queued by taking a new  *)
(* epoch at once.  The native task and the stored configuration outlive    *)
(* the process; permission to use them does not.                           *)
(*                                                                         *)
(* Devices without the iOS activity session: the owner of the task is      *)
(* always Expo, so a task that runs is never restarted for its owner.      *)
(***************************************************************************)
EXTENDS Naturals, Sequences

CONSTANTS
  Owners, NoOne,     \* an account in a group, and nobody
  Sessions, NoSession,
  MaxRequests,       \* bound: starts, stops and changes of access
  MaxFaults,         \* bound: failures of storage or platform, crashes
  MaxSequence        \* bound: samples recorded on one configuration

JourneyAssumption ==
  /\ NoOne \notin Owners /\ NoSession \notin Sessions
  /\ MaxRequests \in Nat /\ MaxFaults \in Nat /\ MaxSequence \in Nat

VARIABLES
  app, access,      \* foreground or background; whose location may be used
  epoch, issued,    \* the controller's epoch; the clock it is taken from
  config, task,     \* stored configuration and native task: these survive
  jobs,             \* the controller's lane, its head under way
  opening, sample,  \* startBackgroundJourney, processBackgroundLocations
  deaf, stuck, stray, torn, mixed, cold,   \* history, see the properties
  requests, faults

user == <<app, access>>
durable == <<config, task>>
clock == <<epoch, issued>>
history == <<deaf, stuck, stray, torn, mixed, cold>>
vars == <<user, clock, durable, jobs, opening, sample, history, requests,
          faults>>

Config == [who : Owners, session : Sessions \cup {NoSession}, seq : Nat,
           ep : Nat]
None == [who |-> NoOne, session |-> NoSession, seq |-> 0, ep |-> 0]
Mode(c) == IF c.session = NoSession THEN "passive" ELSE "journey"

Job == [kind : {"start", "stop", "update"},
        pc : {"begin", "save", "swap", "launch", "confirm", "failed", "forget"},
        cfg : Config \cup {None}, prev : Config \cup {None}, had : BOOLEAN,
        again : BOOLEAN, ok : BOOLEAN]

TypeOK ==
  /\ app \in {"active", "background"} /\ access \in Owners \cup {NoOne}
  /\ epoch \in 0 .. issued /\ issued \in Nat
  /\ config \in Config \cup {None} /\ task \in {"off", "passive", "journey"}
  /\ jobs \in Seq(Job)
  /\ opening \in [pc : {"none", "access", "load"}, cfg : Config \cup {None},
                  ok : BOOLEAN]
  /\ sample \in [pc : {"none", "load", "access", "update"},
                 cfg : Config \cup {None}, ok : BOOLEAN]
  /\ {deaf, stuck, stray, torn, mixed, cold} \subseteq BOOLEAN
  /\ requests \in 0 .. MaxRequests /\ faults \in 0 .. MaxFaults

NoStart == [pc |-> "none", cfg |-> None, ok |-> TRUE]
NoSample == [pc |-> "none", cfg |-> None, ok |-> TRUE]
NewJob(kind, c) ==
  [kind |-> kind, pc |-> "begin", cfg |-> c, prev |-> None, had |-> FALSE,
   again |-> FALSE, ok |-> TRUE]

Init ==
  /\ app = "background" /\ access \in Owners
  /\ epoch = 0 /\ issued = 0 /\ config = None /\ task = "off"
  /\ jobs = <<>> /\ opening = NoStart /\ sample = NoSample
  /\ deaf = FALSE /\ stuck = FALSE /\ stray = FALSE /\ torn = FALSE
  /\ mixed = FALSE /\ cold = FALSE
  /\ requests = 0 /\ faults = 0

Request == requests < MaxRequests /\ requests' = requests + 1
Fault == faults < MaxFaults /\ faults' = faults + 1
NextEpoch == issued' = issued + 1 /\ epoch' = issued + 1

-----------------------------------------------------------------------------
(* Starting and stopping.  A new tracking generation ends the start and    *)
(* the sample that are still being looked at.                              *)

NewGeneration ==
  sample' = IF sample.pc \in {"load", "access"} THEN NoSample ELSE sample

(* Mutant: a stop is not queued behind a start, the new epoch cancels it. *)
StopTrackingFolded(queue) ==
  /\ NewGeneration /\ NextEpoch
  /\ opening' = NoStart
  /\ jobs' = IF \E i \in 1 .. Len(queue) : queue[i].kind = "start" THEN queue
             ELSE Append(queue, NewJob("stop", None))

(* stopBackgroundJourney and the synchronous part of stop. *)
StopTracking(queue) ==
  /\ NewGeneration /\ NextEpoch
  /\ opening' = NoStart
  /\ jobs' = Append(queue, NewJob("stop", None))

Start(w, s) ==
  /\ app = "background" /\ Request
  /\ opening' = [pc |-> "access", ok |-> access = w,
                 cfg |-> [who |-> w, session |-> s, seq |-> 0, ep |-> 0]]
  /\ NewGeneration
  /\ UNCHANGED <<user, clock, durable, jobs, history, faults>>

(* captureLocationAccess: none hides the task, a failure changes nothing. *)
OpeningAccess ==
  /\ opening.pc = "access"
  /\ \/ /\ opening.ok /\ opening' = [opening EXCEPT !.pc = "load"]
        /\ UNCHANGED <<clock, jobs, sample, faults>>
     \/ ~opening.ok /\ StopTracking(jobs) /\ UNCHANGED faults
     \/ /\ Fault /\ opening' = NoStart
        /\ UNCHANGED <<clock, jobs, sample>>
  /\ UNCHANGED <<user, durable, history, requests>>

(* load: a process that has no epoch yet takes the stored one. *)
LoadedEpoch == IF epoch = 0 THEN config.ep ELSE epoch

OpeningLoad ==
  /\ opening.pc = "load" /\ opening' = NoStart
  /\ IF opening.ok
     THEN /\ NextEpoch
          /\ jobs' = Append(jobs, NewJob("start",
                                [opening.cfg EXCEPT !.ep = issued + 1]))
     ELSE epoch' = LoadedEpoch /\ UNCHANGED <<issued, jobs>>
  /\ UNCHANGED <<user, durable, sample, history, requests, faults>>

ToForeground ==
  /\ app = "background" /\ app' = "active" /\ Request
  /\ StopTracking(jobs)
  /\ UNCHANGED <<access, durable, history, faults>>

ToBackground ==
  /\ app = "active" /\ app' = "background"
  /\ UNCHANGED <<access, clock, durable, jobs, opening, sample, history,
                 requests, faults>>

(* A change of access fails what captured the old one: the start that is   *)
(* being opened, the sample, and the native start that is under way.       *)
Revoked(queue) ==
  IF queue = <<>> THEN queue
  ELSE <<[Head(queue) EXCEPT !.ok = FALSE]>> \o Tail(queue)

SetAccess(w) ==
  /\ w # access /\ Request
  /\ w # NoOne => access # NoOne \/ app = "active"    \* foregroundSeen
  /\ access' = w
  /\ IF w = NoOne
     THEN StopTracking(Revoked(jobs))
     ELSE /\ jobs' = Revoked(jobs)
          /\ opening' = [opening EXCEPT !.ok = FALSE]
          /\ sample' = [sample EXCEPT !.ok = FALSE]
          /\ UNCHANGED clock
  /\ UNCHANGED <<app, durable, history, faults>>

-----------------------------------------------------------------------------
(* The lane: the head of jobs, one step per await. *)

At(kind, pc) == jobs # <<>> /\ Head(jobs).kind = kind /\ Head(jobs).pc = pc
Job1 == Head(jobs)
Finished == jobs' = Tail(jobs)
Goes(pc) == jobs' = <<[Job1 EXCEPT !.pc = pc]>> \o Tail(jobs)
Stale == Job1.cfg.ep # epoch

(* Mutant: a start begins a session's progress again. *)
CarriedNever(c, prev) == c

(* Progress is kept while the owner and the session stay the same. *)
Carried(c, prev) ==
  IF prev.who = c.who /\ prev.session = c.session
  THEN [c EXCEPT !.seq = IF prev.seq > c.seq THEN prev.seq ELSE c.seq]
  ELSE c

(* Permission, asked or prepared.  A refusal leaves the old task with the  *)
(* old epoch: its samples are ignored until the next start or stop.        *)
StartBegins ==
  /\ At("start", "begin")
  /\ \/ Stale /\ Finished /\ UNCHANGED deaf
     \/ ~Stale /\ Goes("save") /\ UNCHANGED deaf
     \/ ~Stale /\ Finished /\ deaf' = (task # "off")
  /\ UNCHANGED <<user, clock, durable, opening, sample, stuck, stray, torn,
                 mixed, cold, requests, faults>>

StartSaves ==
  /\ At("start", "save")
  /\ \/ Stale /\ Finished /\ UNCHANGED <<config, deaf, faults>>
     \/ /\ ~Stale /\ config' = Carried(Job1.cfg, config)
        /\ jobs' = <<[Job1 EXCEPT !.pc = "swap", !.prev = config,
                                  !.had = (task # "off")]>> \o Tail(jobs)
        /\ UNCHANGED <<deaf, faults>>
     \/ /\ ~Stale /\ Fault /\ Finished
        /\ deaf' = (task # "off") /\ UNCHANGED config
  /\ UNCHANGED <<user, clock, task, opening, sample, stuck, stray, torn, mixed,
                 cold, requests>>

(* Mutant: a task that runs is taken for the task that is wanted. *)
ChangedNever(j) == FALSE

(* profileChanged *)
Changed(j) == j.had /\ j.prev # None /\ Mode(j.prev) # Mode(j.cfg)

(* The task that runs is taken over as it is: with the profile it has, when *)
(* nothing is stored to compare it with.                                   *)
Adopted == deaf' = FALSE /\ stuck' = FALSE /\ cold' = FALSE
           /\ UNCHANGED <<stray, torn, mixed>>
Settled == deaf' = FALSE /\ stuck' = FALSE /\ stray' = FALSE /\ torn' = FALSE
           /\ mixed' = FALSE /\ cold' = FALSE
TaskGone == task' = "off" /\ stray' = FALSE

StartSwaps ==
  /\ At("start", "swap")
  /\ \/ /\ Changed(Job1)
        /\ TaskGone /\ Goes("launch")
        /\ UNCHANGED <<deaf, stuck, torn, mixed, cold, faults>>
     \/ /\ Changed(Job1) /\ Fault       \* the old task cannot be stopped
        /\ torn' = TRUE /\ Finished
        /\ UNCHANGED <<task, deaf, stuck, stray, mixed, cold>>
     \/ /\ ~Changed(Job1) /\ UNCHANGED <<task, faults>>
        /\ IF Stale THEN Finished /\ UNCHANGED history
           ELSE IF Job1.had THEN Finished /\ Adopted
           ELSE Goes("launch") /\ UNCHANGED history
  /\ UNCHANGED <<user, clock, config, opening, sample, requests>>

(* The adapter captures the access again and asks the platform. *)
StartLaunches ==
  /\ At("start", "launch")
  /\ IF Stale THEN Finished
     ELSE jobs' = <<[Job1 EXCEPT !.pc = "confirm", !.ok = TRUE]>> \o Tail(jobs)
  /\ UNCHANGED <<user, clock, durable, opening, sample, history, requests,
                 faults>>

(* What must still hold when the platform has answered. *)
Permitted == access # NoOne /\ app = "background" /\ Job1.ok

(* The platform started the task too late, and is asked to stop it: that   *)
(* may fail as well, and the task runs on.                                 *)
StopsAgain ==
  \/ TaskGone /\ UNCHANGED <<stuck, faults>>
  \/ /\ Fault /\ task' = Mode(Job1.cfg) /\ stuck' = TRUE /\ stray' = TRUE

StartConfirmed ==
  /\ At("start", "confirm")
  /\ \/ /\ Permitted
        /\ task' = Mode(Job1.cfg) /\ Finished
        /\ IF Job1.cfg.ep = epoch THEN Settled ELSE UNCHANGED history
        /\ UNCHANGED faults
     \/ /\ ~Permitted /\ Goes("failed")
        /\ \/ StopsAgain
           \/ UNCHANGED <<task, stuck, stray, faults>>    \* never asked
        /\ UNCHANGED <<deaf, torn, mixed, cold>>
     \/ /\ Fault /\ Goes("failed")       \* the platform refused to start
        /\ UNCHANGED <<task, history>>
  /\ UNCHANGED <<user, clock, config, opening, sample, requests>>

(* A failed start of the same owner gives the stored place back to what    *)
(* ran before, under the new epoch, and starts it again if it was stopped. *)
FailsForOwner ==
  LET prev == [Job1.prev EXCEPT !.ep = Job1.cfg.ep] IN
    \/ /\ config' = prev /\ UNCHANGED <<task, history, faults>>
       /\ IF Changed(Job1)
          THEN jobs' = <<[Job1 EXCEPT !.pc = "launch", !.again = TRUE,
                                      !.cfg = prev]>> \o Tail(jobs)
          ELSE Finished
    \/ Fault /\ Finished /\ UNCHANGED <<durable, history>>

(* Otherwise the task is stopped, and the configuration goes even when a   *)
(* task that was left running still does not stop.                         *)
FailsForOther ==
  /\ \/ TaskGone
     \/ task # "off" /\ UNCHANGED <<task, stray>>
  /\ \/ config' = None /\ UNCHANGED faults
     \/ Fault /\ UNCHANGED config
  /\ Finished /\ UNCHANGED <<deaf, stuck, torn, mixed, cold>>

StartFails ==
  /\ At("start", "failed")
  /\ IF Stale \/ Job1.again
     THEN Finished /\ UNCHANGED <<durable, history, faults>>
     ELSE IF Job1.prev.who = Job1.cfg.who THEN FailsForOwner
     ELSE FailsForOther
  /\ UNCHANGED <<user, clock, opening, sample, requests>>

(* Mutant: the stored configuration goes before the task does. *)
StopBeginsBackwards ==
  /\ At("stop", "begin")
  /\ config' = None /\ Goes("forget")
  /\ UNCHANGED <<user, clock, task, opening, sample, history, requests, faults>>

StopBegins ==
  /\ At("stop", "begin")
  /\ \/ TaskGone /\ Goes("forget") /\ UNCHANGED <<stuck, faults>>
     \/ /\ task # "off" /\ Fault /\ Finished
        /\ stuck' = TRUE /\ UNCHANGED <<task, stray>>
  /\ UNCHANGED <<user, clock, config, opening, sample, deaf, torn, mixed, cold,
                 requests>>

StopForgets ==
  /\ At("stop", "forget") /\ Finished
  /\ \/ config' = None /\ UNCHANGED faults
     \/ Fault /\ UNCHANGED config
  /\ Settled
  /\ UNCHANGED <<user, clock, task, opening, sample, requests>>

-----------------------------------------------------------------------------
(* A sample of the native task. *)

Deliver ==
  /\ task # "off" /\ sample = NoSample
  /\ sample' = [NoSample EXCEPT !.pc = "load"]
  /\ UNCHANGED <<user, clock, durable, jobs, opening, history, requests,
                 faults>>

SampleLoads ==
  /\ sample.pc = "load"
  /\ epoch' = LoadedEpoch
  /\ sample' = IF config = None \/ config.ep # LoadedEpoch THEN NoSample
               ELSE [pc |-> "access", cfg |-> config,
                     ok |-> access = config.who]
  /\ UNCHANGED <<user, issued, durable, jobs, opening, history, requests,
                 faults>>

(* Mutant: a sample that nobody may use is dropped and the task runs on. *)
UnwantedDropped ==
  sample' = NoSample /\ UNCHANGED <<clock, jobs, opening>>

(* stopBackgroundJourney(false, config) *)
Unwanted ==
  /\ NextEpoch /\ sample' = NoSample /\ opening' = NoStart
  /\ jobs' = Append(jobs, NewJob("stop", None))

SampleChecked ==
  /\ sample.pc = "access"
  /\ \/ /\ sample.cfg.ep # epoch \/ (sample.ok /\ app = "active")
                               \/ (sample.ok /\ sample.cfg.seq = MaxSequence)
        /\ sample' = NoSample /\ UNCHANGED <<clock, jobs, opening, faults>>
     \/ /\ sample.cfg.ep = epoch /\ ~sample.ok
        /\ Unwanted /\ UNCHANGED faults
     \/ /\ sample.cfg.ep = epoch /\ sample.ok
        /\ app = "background" /\ sample.cfg.seq < MaxSequence
        /\ sample' = [sample EXCEPT !.pc = "update"]
        /\ jobs' = Append(jobs, NewJob("update", sample.cfg))
        /\ UNCHANGED <<clock, opening, faults>>
     \/ /\ sample.cfg.ep = epoch /\ Fault    \* the preference cannot be read
        /\ sample' = NoSample /\ UNCHANGED <<clock, jobs, opening>>
  /\ UNCHANGED <<user, durable, history, requests>>

(* update: the configuration the sample was read under, by its sequence. *)
SampleRecorded ==
  /\ At("update", "begin") /\ Finished /\ sample' = NoSample
  /\ IF ~Stale /\ config # None /\ config.seq = Job1.cfg.seq
     THEN /\ config' = [Job1.cfg EXCEPT !.seq = Job1.cfg.seq + 1]
          /\ mixed' = (mixed \/ config # Job1.cfg)
     ELSE UNCHANGED <<config, mixed>>
  /\ UNCHANGED <<user, clock, task, opening, deaf, stuck, stray, torn, cold,
                 requests, faults>>

(* The process dies; a cold launch in the background has no access.  A     *)
(* platform that was asked to start may have done so.                      *)
Crash ==
  /\ Fault
  /\ app' = "background" /\ access' = NoOne /\ epoch' = 0
  /\ jobs' = <<>> /\ opening' = NoStart /\ sample' = NoSample
  /\ cold' = TRUE /\ deaf' = FALSE /\ stuck' = FALSE /\ mixed' = mixed
  /\ \/ UNCHANGED task
     \/ At("start", "confirm") /\ task' = Mode(Job1.cfg)
  /\ torn' = (torn \/ (At("start", "swap") /\ Changed(Job1)))
  /\ UNCHANGED <<issued, config, stray, requests>>

Lane == \/ StartBegins \/ StartSaves \/ StartSwaps \/ StartLaunches
        \/ StartConfirmed \/ StartFails \/ StopBegins \/ StopForgets
        \/ SampleRecorded
Callback == SampleLoads \/ SampleChecked
Next ==
  \/ \E w \in Owners, s \in Sessions \cup {NoSession} : Start(w, s)
  \/ OpeningAccess \/ OpeningLoad \/ ToForeground \/ ToBackground
  \/ \E w \in Owners \cup {NoOne} : SetAccess(w)
  \/ Lane \/ Deliver \/ Callback \/ Crash

(* The lane and a callback run on; a task that runs delivers samples: the  *)
(* native profile declares a heartbeat and forbids pausing.                *)
Fairness == WF_vars(Lane) /\ WF_vars(Callback) /\ WF_vars(Deliver)
Spec == Init /\ [][Next]_vars /\ Fairness

-----------------------------------------------------------------------------
AtRest == jobs = <<>> /\ opening = NoStart /\ sample = NoSample

(* A task never runs without a stored configuration, not even after a      *)
(* crash between any two steps: without one its samples are ignored, and   *)
(* no callback would ever stop it.  Exception: the task of a failed start  *)
(* that could not be stopped (stray), for its configuration is removed all *)
(* the same.                                                               *)
TaskIsOwned == task # "off" => config # None \/ stray

(* At rest the native task has the power profile of the stored             *)
(* configuration, and its samples carry the current epoch.  Exceptions: a  *)
(* start that ended before it stored anything (deaf), a task that could    *)
(* not be stopped (stuck), one that a failed start left running and a      *)
(* later start took over as it was (stray), a profile stored and not yet   *)
(* applied when the process died or the old task would not stop (torn), a  *)
(* sample of a failed start (mixed, see NothingMixed).                     *)
TaskMatches ==
  (AtRest /\ task # "off") =>
    \/ task = Mode(config) /\ epoch \in {0, config.ep}
    \/ deaf \/ stuck \/ stray \/ torn \/ mixed

(* At rest no task runs in the foreground or without access, unless it     *)
(* would not stop or the process was started cold by the task itself.      *)
OffWhenUnwanted ==
  (AtRest /\ task # "off") =>
    \/ app = "background" /\ access # NoOne
    \/ stuck \/ cold

(* Progress recorded on a session is not lost while its configuration is   *)
(* replaced, cancelled or restored.                                        *)
ProgressKept ==
  [][(config'.who = config.who /\ config'.session = config.session)
       => config'.seq >= config.seq]_config

(* locationPrivacy.ts:9: a cold launch never keeps the location on: the    *)
(* first sample that nobody may use stops the task.  Exceptions: a task    *)
(* that could not be stopped in this process, and one without a stored     *)
(* configuration, whose samples end before they are looked at.             *)
ColdTaskStops ==
  (task # "off" /\ access = NoOne)
    ~> (task = "off" \/ access # NoOne \/ stuck \/ (stray /\ config = None))

(* A write derived from a superseded configuration is refused, also when   *)
(* its sequence is the current one.                                        *)
NothingMixed == ~mixed
=============================================================================
