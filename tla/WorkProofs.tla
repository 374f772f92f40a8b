------------------------------ MODULE WorkProofs ------------------------------
(***************************************************************************)
(* The safety properties of MCWork, for every value of its constants: each *)
(* behaviour of the composition is one of each part.                       *)
(***************************************************************************)
EXTENDS MCWork, FiniteSetTheorems, TLAPS

-----------------------------------------------------------------------------
(* The wake-ups of the operation outbox *)

Flight ==
  [phase : {"none", "select", "exchange", "count", "close"},
   batch : SUBSET Scheduler!Row, remaining : BOOLEAN, ok : BOOLEAN]

(* An idle scheduler without a timer, and a flight that counted nothing,   *)
(* leave only rows that came behind a count; so the end of a flight that   *)
(* counted nothing may leave the scheduler asleep.                         *)
IdleDrained ==
  (active /\ ~timer /\ worker = "idle") => Scheduler!Queued \subseteq unseen
CountedDrained ==
  (flight.phase = "close" /\ ~flight.remaining) =>
    Scheduler!Queued \subseteq unseen

SchedulerInv == Scheduler!TypeOK /\ IdleDrained /\ CountedDrained

LEMMA SchedulerInit == ASSUME Scheduler!Init PROVE SchedulerInv
<1>1. Scheduler!TypeOK
  <2>1. active \in BOOLEAN /\ timer \in BOOLEAN
    BY Zenon DEF Scheduler!Init
  <2>2. /\ flight \in Flight /\ worker \in {"idle", "list", "joined"}
        /\ row \in [Scheduler!Row -> {"absent", "open", "backoff", "done"}]
        /\ kicks \subseteq Scheduler!Row /\ unseen \subseteq Scheduler!Row
    BY DEF Scheduler!Init, Scheduler!NoFlight, Flight
  <2>3. /\ failures \in 0 .. MaxFailures /\ pauses \in 0 .. MaxPauses
        /\ polls \in 0 .. MaxPolls
    BY WorkAssumption DEF Scheduler!Init, Scheduler!SchedulerAssumption
  <2>4. wakeRequested \in BOOLEAN /\ emptyWakeFlushConsumed \in BOOLEAN
    BY DEF Scheduler!Init
  <2> QED BY <2>1, <2>2, <2>3, <2>4 DEF Scheduler!TypeOK, Flight
<1>2. Scheduler!Queued = {}
  BY DEF Scheduler!Init, Scheduler!Queued
<1> QED
  BY <1>1, <1>2 DEF SchedulerInv, IdleDrained, CountedDrained

LEMMA SchedulerTypes ==
  ASSUME Scheduler!TypeOK, [Scheduler!Next]_(Scheduler!vars)
  PROVE  Scheduler!TypeOK'
<1> USE WorkAssumption DEF Scheduler!SchedulerAssumption, Scheduler!queueVars,
    Scheduler!schedulerVars, Scheduler!bounds
<1>1. Scheduler!TypeOK' <=>
        /\ row' \in [Scheduler!Row -> {"absent", "open", "backoff", "done"}]
        /\ kicks' \subseteq Scheduler!Row /\ unseen' \subseteq Scheduler!Row
        /\ active' \in BOOLEAN
        /\ /\ timer' \in BOOLEAN /\ wakeRequested' \in BOOLEAN
           /\ emptyWakeFlushConsumed' \in BOOLEAN
           /\ worker' \in {"idle", "list", "joined"}
        /\ flight' \in Flight
        /\ failures' \in 0 .. MaxFailures /\ pauses' \in 0 .. MaxPauses
        /\ polls' \in 0 .. MaxPolls
  BY DEF Scheduler!TypeOK, Flight
<1> DEFINE Ready == /\ timer' \in BOOLEAN /\ wakeRequested' \in BOOLEAN
                    /\ emptyWakeFlushConsumed' \in BOOLEAN
                    /\ worker' \in {"idle", "list", "joined"}
<1>2. Scheduler!Wake => Ready
  BY DEF Scheduler!TypeOK, Scheduler!Wake, Scheduler!Running
<1>3. ASSUME NEW ok \in BOOLEAN, NEW remaining \in BOOLEAN,
             Scheduler!Finish(ok, remaining)
      PROVE Ready
  BY <1>3 DEF Scheduler!TypeOK, Scheduler!Finish
<1>4. UNCHANGED Scheduler!schedulerVars => Ready
  BY DEF Scheduler!TypeOK
<1>5. Scheduler!Join => flight' \in Flight
  <2>1. [Scheduler!NoFlight EXCEPT !.phase = "select"] \in Flight
    BY DEF Scheduler!NoFlight, Flight
  <2> QED BY <2>1 DEF Scheduler!TypeOK, Scheduler!Join, Flight
<1>6. UNCHANGED flight => flight' \in Flight
  BY DEF Scheduler!TypeOK, Flight
<1>7. CASE Scheduler!TimerFires
  <2>1. Ready
    BY <1>7 DEF Scheduler!TypeOK, Scheduler!TimerFires
  <2> QED BY <1>1, <1>6, <1>7, <2>1 DEF Scheduler!TypeOK, Scheduler!TimerFires
<1>8. CASE Scheduler!Background \/ Scheduler!Foreground
  <2>1. Ready /\ active' \in BOOLEAN
    <3>1. UNCHANGED <<worker, wakeRequested, emptyWakeFlushConsumed>>
      BY <1>8 DEF Scheduler!Background, Scheduler!Foreground
    <3>2. timer' \in BOOLEAN /\ active' \in BOOLEAN
      BY <1>8 DEF Scheduler!Background, Scheduler!Foreground, Scheduler!Running
    <3> QED BY <3>1, <3>2 DEF Scheduler!TypeOK
  <2>3. pauses' \in 0 .. MaxPauses
    <3>1. pauses' = pauses \/ (pauses < MaxPauses /\ pauses' = pauses + 1)
      BY <1>8 DEF Scheduler!Background, Scheduler!Foreground
    <3> QED BY <3>1 DEF Scheduler!TypeOK
  <2>2. UNCHANGED <<row, kicks, unseen, flight, failures, polls>>
    BY <1>8 DEF Scheduler!Background, Scheduler!Foreground
  <2> QED BY <1>1, <1>6, <2>1, <2>2, <2>3 DEF Scheduler!TypeOK
<1>9. CASE Scheduler!Reconnect
  BY <1>1, <1>2, <1>6, <1>9 DEF Scheduler!TypeOK, Scheduler!Reconnect
<1>10. CASE Scheduler!WorkerLists
  <2>1. flight' \in Flight
    BY <1>5, <1>6, <1>10 DEF Scheduler!WorkerLists
  <2>2. Ready
    BY <1>3, <1>10 DEF Scheduler!TypeOK, Scheduler!WorkerLists
  <2> QED BY <1>1, <1>10, <2>1, <2>2 DEF Scheduler!TypeOK, Scheduler!WorkerLists
<1>11. CASE Scheduler!Poll
  BY <1>1, <1>4, <1>5, <1>11 DEF Scheduler!TypeOK, Scheduler!Poll
<1>12. CASE \E r \in Scheduler!Row : Scheduler!KickLists(r)
  BY <1>1, <1>4, <1>5, <1>6, <1>12 DEF Scheduler!TypeOK, Scheduler!KickLists
<1>13. CASE Scheduler!Select
  <2>1. flight' \in Flight
    BY <1>13 DEF Scheduler!TypeOK, Scheduler!Select, Flight
  <2> QED BY <1>1, <1>4, <1>13, <2>1 DEF Scheduler!TypeOK, Scheduler!Select
<1>14. CASE Scheduler!Exchange
  <2>1. flight' \in Flight
    BY <1>14 DEF Scheduler!TypeOK, Scheduler!Exchange, Flight
  <2>2. row' \in [Scheduler!Row -> {"absent", "open", "backoff", "done"}]
    <3>1. \/ row' = [r \in Scheduler!Row |->
                       IF r \in flight.batch THEN "done" ELSE row[r]]
          \/ \E first \in flight.batch : row' = [row EXCEPT ![first] = "backoff"]
      BY <1>14 DEF Scheduler!Exchange
    <3> QED BY <3>1 DEF Scheduler!TypeOK
  <2>3. failures' \in 0 .. MaxFailures
    <3>1. \/ failures' = failures
          \/ failures < MaxFailures /\ failures' = failures + 1
      BY <1>14 DEF Scheduler!Exchange
    <3> QED BY <3>1 DEF Scheduler!TypeOK
  <2> QED BY <1>1, <1>2, <1>14, <2>1, <2>2, <2>3
          DEF Scheduler!TypeOK, Scheduler!Exchange
<1>15. CASE Scheduler!Count
  <2>1. flight' \in Flight
    BY <1>15 DEF Scheduler!TypeOK, Scheduler!Count, Flight
  <2> QED BY <1>1, <1>4, <1>15, <2>1 DEF Scheduler!TypeOK, Scheduler!Count
<1>16. CASE Scheduler!Close
  <2>1. flight' \in Flight
    BY <1>16 DEF Scheduler!Close, Scheduler!NoFlight, Flight
  <2>2. PICK failed \in BOOLEAN :
          /\ failed => failures < MaxFailures
          /\ failures' = IF failed THEN failures + 1 ELSE failures
          /\ IF worker = "joined"
             THEN Scheduler!Finish(flight.ok /\ ~failed, flight.remaining)
             ELSE UNCHANGED Scheduler!schedulerVars
    BY <1>16 DEF Scheduler!Close
  <2>3. (flight.ok /\ ~failed) \in BOOLEAN /\ flight.remaining \in BOOLEAN
    BY DEF Scheduler!TypeOK
  <2>4. Ready
    BY <1>3, <1>4, <2>2, <2>3
  <2>5. failures' \in 0 .. MaxFailures
    BY <2>2 DEF Scheduler!TypeOK
  <2> QED BY <1>1, <1>16, <2>1, <2>4, <2>5 DEF Scheduler!TypeOK, Scheduler!Close
<1>17. ASSUME NEW r \in Scheduler!Row, Scheduler!Enqueue(r) PROVE Scheduler!TypeOK'
  BY <1>1, <1>2, <1>6, <1>17 DEF Scheduler!TypeOK, Scheduler!Enqueue
<1>18. ASSUME NEW r \in Scheduler!Row, Scheduler!BackoffElapsed(r)
       PROVE Scheduler!TypeOK'
  BY <1>1, <1>4, <1>6, <1>18 DEF Scheduler!TypeOK, Scheduler!BackoffElapsed
<1>19. CASE UNCHANGED Scheduler!vars
  BY <1>1, <1>4, <1>6, <1>19 DEF Scheduler!TypeOK, Scheduler!vars
<1> QED
  BY <1>7, <1>8, <1>9, <1>10, <1>11, <1>12, <1>13, <1>14, <1>15, <1>16, <1>17,
     <1>18, <1>19 DEF Scheduler!Next, Scheduler!Internal

(* Only an enqueue adds to the queue. *)
LEMMA SchedulerNext ==
  ASSUME SchedulerInv, [Scheduler!Next]_(Scheduler!vars)
  PROVE  SchedulerInv'
<1>0. Scheduler!TypeOK /\ Scheduler!TypeOK'
  BY SchedulerTypes DEF SchedulerInv
<1> SUFFICES IdleDrained' /\ CountedDrained'
  BY <1>0 DEF SchedulerInv
<1> USE DEF SchedulerInv, IdleDrained, CountedDrained, Scheduler!queueVars,
            Scheduler!schedulerVars
<1>1. UNCHANGED row => UNCHANGED Scheduler!Queued
  BY DEF Scheduler!Queued
<1>2. CASE Scheduler!TimerFires \/ Scheduler!Background \/ Scheduler!Foreground
  BY <1>1, <1>2 DEF Scheduler!TimerFires, Scheduler!Background,
                    Scheduler!Foreground, Scheduler!Running
<1>3. ASSUME Scheduler!Join
      PROVE  flight'.phase = "close" => flight' = flight
  BY <1>3 DEF Scheduler!Join, Scheduler!NoFlight
<1>4. CASE Scheduler!WorkerLists
  BY <1>1, <1>3, <1>4 DEF Scheduler!WorkerLists, Scheduler!Finish
<1>5. CASE Scheduler!Poll \/ \E r \in Scheduler!Row : Scheduler!KickLists(r)
  BY <1>1, <1>3, <1>5 DEF Scheduler!Poll, Scheduler!KickLists
<1>6. CASE Scheduler!Reconnect
  BY <1>1, <1>6 DEF Scheduler!Reconnect, Scheduler!Wake, Scheduler!Running
<1>7. CASE Scheduler!Select
  <2>1. flight'.phase # "close"
    BY <1>0, <1>7 DEF Scheduler!Select, Scheduler!TypeOK, Flight
  <2> QED BY <1>1, <1>7, <2>1 DEF Scheduler!Select
<1>8. CASE Scheduler!Exchange
  <2>1. flight'.phase = "count"
    BY <1>0, <1>8 DEF Scheduler!Exchange, Scheduler!TypeOK, Flight
  <2>2. (active' /\ worker' = "idle") => timer'
    BY <1>8 DEF Scheduler!Exchange, Scheduler!Wake, Scheduler!Running
  <2> QED BY <2>1, <2>2
<1>9. CASE Scheduler!Count
  <2>1. ~flight'.remaining => Scheduler!Queued = {}
    BY <1>0, <1>9 DEF Scheduler!Count, Scheduler!TypeOK, Flight
  <2> QED BY <1>1, <1>9, <2>1 DEF Scheduler!Count
<1>10. CASE Scheduler!Close
  <2>1. flight'.phase # "close"
    BY <1>10 DEF Scheduler!Close, Scheduler!NoFlight
  <2> QED BY <1>1, <1>10, <2>1 DEF Scheduler!Close, Scheduler!Finish
<1>11. ASSUME NEW r \in Scheduler!Row, Scheduler!Enqueue(r)
       PROVE  IdleDrained' /\ CountedDrained'
  <2>1. (active' /\ worker' = "idle") => timer'
    BY <1>11 DEF Scheduler!Enqueue, Scheduler!Wake, Scheduler!Running
  <2>2. Scheduler!Queued' \subseteq Scheduler!Queued \cup {r}
    BY <1>0, <1>11 DEF Scheduler!Enqueue, Scheduler!Queued, Scheduler!TypeOK
  <2> QED BY <1>11, <2>1, <2>2 DEF Scheduler!Enqueue
<1>12. ASSUME NEW r \in Scheduler!Row, Scheduler!BackoffElapsed(r)
       PROVE  IdleDrained' /\ CountedDrained'
  <2>1. Scheduler!Queued' \subseteq Scheduler!Queued
    BY <1>0, <1>12 DEF Scheduler!BackoffElapsed, Scheduler!Queued,
                       Scheduler!TypeOK
  <2> QED BY <1>12, <2>1 DEF Scheduler!BackoffElapsed
<1>13. CASE UNCHANGED Scheduler!vars
  BY <1>1, <1>13 DEF Scheduler!vars
<1> QED
  BY <1>2, <1>4, <1>5, <1>6, <1>7, <1>8, <1>9, <1>10, <1>11, <1>12, <1>13
  DEF Scheduler!Next, Scheduler!Internal

LEMMA SchedulerOf == Spec => Scheduler!Init /\ [][Scheduler!Next]_(Scheduler!vars)
<1>1. Init => Scheduler!Init
  BY DEF Init
<1>2. [Next]_vars => [Scheduler!Next]_(Scheduler!vars)
  BY DEF Next, vars, schedulerVars, Scheduler!vars, Scheduler!queueVars,
         Scheduler!schedulerVars, Scheduler!bounds
<1> QED BY <1>1, <1>2, PTL DEF Spec

(* The scheduler sleeps in the foreground only over rows that were         *)
(* inserted behind a count: for any number of rows, failures, pauses and   *)
(* polls, and whoever joined whose flight.                                 *)
THEOREM SleepersDrained == Spec => []SleepsDrained
<1>1. Scheduler!Init => SchedulerInv
  BY SchedulerInit
<1>2. SchedulerInv /\ [Scheduler!Next]_(Scheduler!vars) => SchedulerInv'
  BY SchedulerNext
<1>3. SchedulerInv => SleepsDrained
  BY DEF SchedulerInv, IdleDrained, SleepsDrained, Scheduler!SleepsDrained,
         Scheduler!Asleep, Scheduler!Running
<1> QED BY <1>1, <1>2, <1>3, SchedulerOf, PTL

-----------------------------------------------------------------------------
(* The background location task *)

LEMMA JourneyOf == Spec => Journey!Spec
<1>1. Init => Journey!Init
  BY DEF Init
<1>2. [Next]_vars => [Journey!Next]_(Journey!vars)
  BY DEF Next, vars, journeyVars, Journey!vars, Journey!user, Journey!clock,
         Journey!durable, Journey!history
<1> QED BY <1>1, <1>2, PTL DEF Spec, Journey!Spec

(* A native task never runs without a stored configuration, but when a     *)
(* failed start could not stop it: for any number of starts, stops,        *)
(* changes of access, failures and crashes.                                *)
THEOREM OwnedTasks == Spec => []TaskIsOwned
<1>1. Journey!Spec => []Journey!TaskIsOwned
  BY Journey!OwnedTasks, WorkAssumption DEF WorkAssumption
<1>2. Journey!TaskIsOwned => TaskIsOwned
  BY DEF TaskIsOwned
<1> QED BY <1>1, <1>2, JourneyOf, PTL

(* At rest the task has the profile and the epoch of what is stored. *)
THEOREM TasksMatch == Spec => []TaskMatches
<1>1. Journey!Spec => []Journey!TaskMatches
  BY Journey!TasksMatch, WorkAssumption DEF WorkAssumption
<1>2. Journey!TaskMatches => TaskMatches
  BY DEF TaskMatches
<1> QED BY <1>1, <1>2, JourneyOf, PTL

(* At rest no task runs in the foreground or without access. *)
THEOREM UnwantedOff == Spec => []OffWhenUnwanted
<1>1. Journey!Spec => []Journey!OffWhenUnwanted
  BY Journey!UnwantedOff, WorkAssumption DEF WorkAssumption
<1>2. Journey!OffWhenUnwanted => OffWhenUnwanted
  BY DEF OffWhenUnwanted
<1> QED BY <1>1, <1>2, JourneyOf, PTL

(* Progress recorded on a session is not lost. *)
THEOREM ProgressStays == Spec => ProgressKept
<1>1. Journey!Spec => Journey!ProgressKept
  BY Journey!ProgressStays, WorkAssumption DEF WorkAssumption
<1> QED BY <1>1, JourneyOf DEF ProgressKept

-----------------------------------------------------------------------------
(* The upload of the log *)

(* Consent is withdrawn, and given again, under a new revision.            *)
LogShape ==
  /\ revision \in Nat /\ rows \subseteq Log!Record
  /\ era \in [Log!Record -> Nat]
  /\ batch \in [phase : {"none", "read", "sent"}, recs : SUBSET Log!Record,
                revision : Nat]
  /\ batch.revision <= revision

(* Pending rows belong to the consent in force.  So do the rows of a flush *)
(* that has not looked again, but for those it had read when consent was   *)
(* withdrawn; and of one that was sent, until the revision moves on.       *)
RowsCurrent == \A r \in rows : on /\ era[r] = revision
ReadCurrent ==
  batch.phase = "read" =>
    \A r \in batch.recs : (on /\ era[r] = revision) \/ r \in crossed
SentCurrent ==
  (batch.phase = "sent" /\ batch.revision = revision) =>
    on /\ \A r \in batch.recs : era[r] = revision \/ r \in crossed

LogInv ==
  /\ LogShape /\ RowsCurrent /\ ReadCurrent /\ SentCurrent
  /\ leaked \subseteq crossed

LEMMA LogInit == ASSUME Log!Init PROVE LogInv
BY DEF Log!Init, Log!NoBatch, LogInv, LogShape, RowsCurrent, ReadCurrent,
  SentCurrent

(* A flush that returns holds nothing. *)
LEMMA FlushDone ==
  ASSUME LogInv, batch' = Log!NoBatch, rows' \in SUBSET rows, leaked' \subseteq crossed,
         UNCHANGED <<on, revision, era, crossed>>
  PROVE  LogInv'
BY DEF LogInv, LogShape, RowsCurrent, ReadCurrent, SentCurrent, Log!NoBatch

LEMMA LogNext ==
  ASSUME LogInv, [Log!Next]_(Log!vars)
  PROVE  LogInv'
<1> USE DEF Log!consentVars, Log!queueVars, Log!schedulerVars
<1>1. ASSUME UNCHANGED <<on, revision, rows, era, batch, leaked, crossed>>
      PROVE  LogInv'
  BY <1>1 DEF LogInv, LogShape, RowsCurrent, ReadCurrent, SentCurrent
<1>2. CASE \/ Log!TimerFires \/ Log!UploadEnds \/ Log!RecordEvent
           \/ UNCHANGED Log!vars
  BY <1>1, <1>2 DEF Log!TimerFires, Log!UploadEnds, Log!RecordEvent, Log!vars
<1>3. CASE Log!Write
  <2> DEFINE r == Head(disk)
  <2>1. CASE ~on
    BY <1>1, <1>3, <2>1 DEF Log!Write
  <2>2. CASE on
    <3>1. /\ r \in Log!Record /\ rows' = rows \cup {r}
          /\ era' = [era EXCEPT ![r] = revision]
          /\ UNCHANGED <<on, revision, batch, leaked, crossed>>
      BY <1>3, <2>2 DEF Log!Write, Log!AtHead
    <3> HIDE DEF r
    <3>2. \A q \in Log!Record : era'[q] = IF q = r THEN revision ELSE era[q]
      BY <3>1 DEF LogInv, LogShape
    <3>3. LogShape'
      BY <3>1 DEF LogInv, LogShape
    <3>4. RowsCurrent'
      BY <2>2, <3>1, <3>2 DEF LogInv, LogShape, RowsCurrent
    <3>5. batch.recs \subseteq Log!Record
      BY DEF LogInv, LogShape
    <3> QED
      BY <2>2, <3>1, <3>2, <3>3, <3>4, <3>5
      DEF LogInv, ReadCurrent, SentCurrent
  <2> QED BY <2>1, <2>2
<1>4. CASE Log!FlushReads
  <2>1. CASE batch' = Log!NoBatch
    BY <1>4, <2>1, FlushDone DEF Log!FlushReads, LogInv
  <2>2. CASE batch' # Log!NoBatch
    <3>1. /\ on /\ batch' = [phase |-> "read", recs |-> Log!Oldest, revision |-> 0]
          /\ UNCHANGED <<on, revision, rows, era, leaked, crossed>>
      BY <1>4, <2>2 DEF Log!FlushReads, Log!FlushReturns
    <3>2. Log!Oldest \subseteq rows
      BY DEF Log!Oldest
    <3> HIDE DEF Log!Oldest
    <3> QED
      BY <3>1, <3>2
      DEF LogInv, LogShape, RowsCurrent, ReadCurrent, SentCurrent
  <2> QED BY <2>1, <2>2
<1>5. CASE Log!FlushSends
  <2>1. CASE on
    <3>1. /\ batch.phase = "read"
          /\ batch' = [batch EXCEPT !.phase = "sent", !.revision = revision]
          /\ UNCHANGED <<on, revision, rows, era, leaked, crossed>>
      BY <1>5, <2>1 DEF Log!FlushSends
    <3>2. batch'.phase = "sent" /\ batch'.recs = batch.recs /\ batch'.revision = revision
      BY <3>1 DEF LogInv, LogShape
    <3>3. LogShape'
      <4>1. batch' = [phase |-> "sent", recs |-> batch.recs, revision |-> revision]
        BY <3>1 DEF LogInv, LogShape
      <4> QED
        BY <3>1, <4>1 DEF LogInv, LogShape
    <3> QED
      BY <2>1, <3>1, <3>2, <3>3 DEF LogInv, RowsCurrent, ReadCurrent, SentCurrent
  <2>2. CASE ~on
    BY <1>5, <2>2, FlushDone DEF Log!FlushSends, Log!FlushReturns, LogInv
  <2> QED BY <2>1, <2>2
<1>6. CASE Log!FlushAnswered
  <2>1. /\ batch' = Log!NoBatch /\ rows' \in SUBSET rows
        /\ UNCHANGED <<on, revision, era, crossed>>
    BY <1>6 DEF Log!FlushAnswered, Log!FlushReturns
  <2>2. leaked' \subseteq crossed
    <3>1. CASE Log!Submitted(batch.recs, batch.revision)
      BY <1>6, <3>1 DEF Log!FlushAnswered, Log!Submitted, Log!IsCurrent, LogInv,
        SentCurrent
    <3>2. CASE UNCHANGED leaked
      BY <3>2 DEF LogInv
    <3> QED BY <1>6, <3>1, <3>2 DEF Log!FlushAnswered
  <2> QED BY <2>1, <2>2, FlushDone
<1>7. CASE Log!FlushFails
  BY <1>7, FlushDone DEF Log!FlushFails, Log!FlushReturns, LogInv
<1>8. CASE Log!Grant
  <2>1. /\ ~on /\ revision' = revision + 1
        /\ UNCHANGED <<on, rows, era, batch, leaked, crossed>>
    BY <1>8 DEF Log!Grant
  <2> QED
    BY <2>1 DEF LogInv, LogShape, RowsCurrent, ReadCurrent, SentCurrent
<1>9. CASE Log!GrantStored
  <2>1. /\ on => on'
        /\ UNCHANGED <<revision, rows, era, batch, leaked, crossed>>
    BY <1>9 DEF Log!GrantStored
  <2> QED
    BY <2>1 DEF LogInv, LogShape, RowsCurrent, ReadCurrent, SentCurrent
<1>10. CASE Log!Revoke
  <2>1. /\ on' = FALSE /\ revision' = revision + 1 /\ rows' = {}
        /\ crossed' = IF batch.phase = "read" THEN crossed \cup batch.recs
                      ELSE crossed
        /\ UNCHANGED <<era, batch, leaked>>
    BY <1>10 DEF Log!Revoke
  <2> QED
    BY <2>1 DEF LogInv, LogShape, RowsCurrent, ReadCurrent, SentCurrent
<1>11. CASE Log!Crash
  <2>1. batch' = Log!NoBatch /\ UNCHANGED <<on, revision, rows, era, leaked, crossed>>
    BY <1>11 DEF Log!Crash
  <2> QED BY <2>1, FlushDone DEF LogInv
<1> QED
  BY <1>2, <1>3, <1>4, <1>5, <1>6, <1>7, <1>8, <1>9, <1>10, <1>11
  DEF Log!Next, Log!Internal

LEMMA LogOf == Spec => Log!Init /\ [][Log!Next]_(Log!vars)
<1>1. Init => Log!Init
  BY DEF Init
<1>2. [Next]_vars => [Log!Next]_(Log!vars)
  BY DEF Next, vars, logVars, Log!vars, Log!consentVars, Log!queueVars,
         Log!schedulerVars
<1> QED BY <1>1, <1>2, PTL DEF Spec

(* No record leaves the device under another consent than the one it was   *)
(* recorded under, but for the rows of a flush that had read them before   *)
(* the withdrawal: for any number of records, withdrawals, failures and    *)
(* restarts.                                                               *)
THEOREM LogSentInConsent == Spec => []SentInConsent
<1>1. Log!Init => LogInv
  BY LogInit
<1>2. LogInv /\ [Log!Next]_(Log!vars) => LogInv'
  BY LogNext
<1>3. LogInv => SentInConsent
  BY DEF LogInv, SentInConsent, Log!SentInConsent
<1> QED BY <1>1, <1>2, <1>3, LogOf, PTL

-----------------------------------------------------------------------------
(* The closing of coordination requests *)

Decisions ==
  [request : Requests, option : Options, voters : SUBSET Members,
   source : {"unanimity", "majority", "timeout_default", "organizer_override"}]

Transactions ==
  [call : {"none", "respond", "override", "cancel", "run", "edit"},
   req : Requests \cup {NoOne}, option : Options \cup {NoOne},
   pc : {"idle", "judge", "raise", "close", "next", "settle", "edit"},
   due : SUBSET Requests, need : Seq(Decision!Lock), todo : SUBSET Requests,
   done : Seq(Decisions), kept : SUBSET Decision!Lock]

DataShape ==
  /\ status \in [Requests -> {"none", "open", "resolved", "expired", "cancelled"}]
  /\ outcome \in [Requests -> Options \cup {NoOne}]
  /\ votes \in [Requests -> [Members -> Options \cup {NoOne}]]
  /\ members \in SUBSET Members /\ overdue \in Seq(Requests)
  /\ log \in Seq([request : Requests, option : Options])

TxShape ==
  locks \in [Decision!Lock -> Decision!Actor \cup {NoOne}]
      /\ tx \in [Decision!Actor -> Transactions]

(* Who judges a request holds its row; who is about to close it has seen   *)
(* it open.                                                                *)
MemberOk(a) ==
  /\ tx[a].pc = "judge" =>
       /\ tx[a].req \in Requests /\ tx[a].need \in {<<>>, <<tx[a].req>>}
       /\ tx[a].need = <<>> => locks[tx[a].req] = a
       /\ tx[a].call \in {"respond", "override"} => tx[a].option \in Options
  /\ tx[a].pc = "close" =>
       /\ tx[a].req \in Requests /\ tx[a].option \in Options
       /\ locks[tx[a].req] = a /\ status[tx[a].req] = "open"

MemberInv == \A a \in Members : MemberOk(a)

(* Justified, of the votes v. *)
AgreedBy(r, v, o, who) ==
  /\ {m \in who : v[m] = o} # {}
  /\ CASE Policy[r] = "unanimity" -> \A m \in who : v[m] = o
       [] Policy[r] = "majority" ->
            Cardinality({m \in who : v[m] = o})
              > Cardinality({m \in who : v[m] # NoOne} \ {m \in who : v[m] = o})
       [] OTHER -> FALSE

JustifiedBy(r, v, o, how, who) ==
  \/ how = "organizer_override"
  \/ how = Policy[r] /\ AgreedBy(r, v, o, who)
  \/ /\ how = "timeout_default" /\ o = Default[r]
     /\ \A p \in Options : ~AgreedBy(r, v, p, who)

(* A decision that may be applied: nobody else can touch the request, and  *)
(* the votes it rests on stay as they were.                                *)
Sound(d) ==
  /\ status[d.request] = "open"
  /\ JustifiedBy(d.request, votes[d.request], d.option, d.source, d.voters)

Apart(decisions) ==
  \A i, j \in DOMAIN decisions :
    decisions[i].request = decisions[j].request => i = j

(* The scheduler holds what it has claimed and what it has decided, and in *)
(* the block of a request it keeps those locks whatever becomes of it.     *)
CronInv ==
  LET c == tx["cron"]
  IN /\ c.pc \in {"idle", "next", "settle"} /\ Apart(c.done)
     /\ \A r \in c.todo : locks[r] = "cron" /\ status[r] = "open"
     /\ \A i \in DOMAIN c.done : /\ Sound(c.done[i])
                                 /\ locks[c.done[i].request] = "cron"
                                 /\ c.done[i].request \notin c.todo
     /\ c.pc # "settle" => c.need = <<>>
     /\ c.pc = "settle" => /\ c.done # <<>> /\ c.todo \subseteq c.kept
                           /\ \A i \in DOMAIN c.done : c.done[i].request \in c.kept

DecidedInv ==
  \A r \in Requests :
    LET made == {i \in DOMAIN log : log[i].request = r}
    IN IF status[r] \notin {"resolved", "expired"}
       THEN made = {} /\ outcome[r] = NoOne
       ELSE /\ \E i \in made : made = {i} /\ log[i].option = outcome[r]
            /\ JustifiedBy(r, votes[r], outcome[r], source[r], voters[r])

DecisionInv == DataShape /\ TxShape /\ MemberInv /\ CronInv /\ DecidedInv

LEMMA DecisionAssumption == Decision!CoordinationAssumption
  BY WorkAssumption

(* The component sees the same sets, of the same size. *)
LEMMA SameSize ==
  /\ \A S : Decision!Cardinality(S) = Cardinality(S)
  /\ \A S : Decision!IsFiniteSet(S) <=> IsFiniteSet(S)
  BY DEF Decision!Cardinality, Cardinality, Decision!IsFiniteSet, IsFiniteSet

LEMMA DecisionInit == ASSUME Decision!Init PROVE DecisionInv
<1> USE DecisionAssumption DEF Decision!Init
<1>1. Decision!NoTx \in Transactions
  BY DEF Decision!NoTx, Transactions
<1>2. DataShape
  BY DEF DataShape
<1>3. TxShape
  BY <1>1 DEF TxShape
<1>4. MemberInv
  BY DEF MemberInv, MemberOk, Decision!NoTx, Decision!Actor
<1>5. CronInv
  BY DEF CronInv, Decision!NoTx, Decision!Actor, Apart
<1>6. DecidedInv
  BY DEF DecidedInv
<1> QED BY <1>2, <1>3, <1>4, <1>5, <1>6 DEF DecisionInv

(* The votes that decide are those of a majority of the ballots. *)
LEMMA Halves ==
  ASSUME NEW S, IsFiniteSet(S), NEW T \in SUBSET S
  PROVE /\ IsFiniteSet(T) /\ Cardinality(T) \in Nat /\ Cardinality(S) \in Nat
        /\ Cardinality(S \ T) \in Nat
        /\ Cardinality(S) = Cardinality(T) + Cardinality(S \ T)
        /\ 2 * Cardinality(T) > Cardinality(S) <=> Cardinality(T) > Cardinality(S \ T)
        /\ Cardinality(T) = 0 <=> T = {}
<1>1. IsFiniteSet(T) /\ IsFiniteSet(S \ T) /\ S \cap T = T
  BY FS_Subset
<1>2. Cardinality(T) \in Nat /\ Cardinality(S \ T) \in Nat /\ Cardinality(S) \in Nat
  BY <1>1, FS_CardinalityType
<1>3. Cardinality(S \ T) = Cardinality(S) - Cardinality(S \cap T)
  BY FS_Difference
<1>4. Cardinality(T) = 0 <=> T = {}
  BY <1>1, FS_EmptySet
<1> QED BY <1>1, <1>2, <1>3, <1>4

(* What the votes or the deadline decide is what the members had voted     *)
(* for, or the default where their votes decide nothing.                   *)
LEMMA Outcome ==
  ASSUME DataShape, NEW r \in Requests, NEW who \in SUBSET Members
  PROVE /\ Decision!Chosen(r, who) \in Options
        /\ Decision!Source(r, who) \in {"unanimity", "majority", "timeout_default"}
        /\ JustifiedBy(r, votes[r], Decision!Chosen(r, who),
                       Decision!Source(r, who), who)
<1> DEFINE v == votes[r]
<1>1. /\ Default[r] \in Options /\ NoOne \notin Options /\ IsFiniteSet(who)
      /\ Policy[r] \in {"unanimity", "majority", "timeout_default",
                        "organizer_override"}
  BY DecisionAssumption, SameSize, FS_Subset DEF Decision!CoordinationAssumption
<1>2. Decision!Ballots(r, who) = {m \in who : v[m] # NoOne}
        /\ IsFiniteSet(Decision!Ballots(r, who))
  BY <1>1, FS_Subset DEF Decision!Ballots
<1>3. ASSUME NEW o \in Options
      PROVE Decision!For(r, who, o) = {m \in who : v[m] = o}
              /\ Decision!For(r, who, o) \subseteq Decision!Ballots(r, who)
  BY <1>1, <1>3 DEF Decision!Ballots, Decision!For
<1>4. ASSUME NEW o \in Options
      PROVE o \in Decision!Winners(r, who) <=> AgreedBy(r, v, o, who)
  <2> DEFINE F == Decision!For(r, who, o)  B == Decision!Ballots(r, who)
  <2>1. F = {m \in who : v[m] = o} /\ F \in SUBSET B /\ IsFiniteSet(B)
    BY <1>2, <1>3
  <2>2. CASE Policy[r] = "unanimity"
    <3>1. o \in Decision!Winners(r, who) <=> B # {} /\ F = who
      BY <2>2 DEF Decision!Winners
    <3>2. AgreedBy(r, v, o, who) <=> F # {} /\ \A m \in who : v[m] = o
      BY <2>1, <2>2 DEF AgreedBy
    <3>3. B \subseteq who
      BY <1>2
    <3> QED BY <2>1, <3>1, <3>2, <3>3
  <2>3. CASE Policy[r] = "majority"
    <3>1. o \in Decision!Winners(r, who) <=> 2 * Cardinality(F) > Cardinality(B)
      BY <2>3, SameSize DEF Decision!Winners
    <3>2. AgreedBy(r, v, o, who) <=> F # {} /\ Cardinality(F) > Cardinality(B \ F)
      BY <2>1, <2>3, <1>2 DEF AgreedBy
    <3>3. /\ Cardinality(F) \in Nat /\ Cardinality(B \ F) \in Nat
          /\ 2 * Cardinality(F) > Cardinality(B) <=> Cardinality(F) > Cardinality(B \ F)
          /\ Cardinality(F) = 0 <=> F = {}
      BY <2>1, Halves
    <3> QED BY <3>1, <3>2, <3>3
  <2>4. CASE Policy[r] \notin {"unanimity", "majority"}
    BY <2>4 DEF Decision!Winners, AgreedBy
  <2> QED BY <2>2, <2>3, <2>4
<1>5. Decision!Winners(r, who) \subseteq Options
  BY DEF Decision!Winners
<1>6. CASE Decision!Winners(r, who) = {}
  BY <1>1, <1>4, <1>6 DEF Decision!Chosen, Decision!Source, JustifiedBy
<1>7. CASE Decision!Winners(r, who) # {}
  <2>1. Decision!Chosen(r, who) \in Decision!Winners(r, who)
          /\ Decision!Source(r, who) = Policy[r]
    BY <1>7 DEF Decision!Chosen, Decision!Source
  <2>2. Policy[r] \in {"unanimity", "majority"}
    BY <1>7 DEF Decision!Winners
  <2> QED BY <1>4, <1>5, <2>1, <2>2 DEF JustifiedBy
<1> QED BY <1>6, <1>7

(* There is one decision about a request, the one that is recorded. *)
LEMMA FinalOf ==
  ASSUME NEW decisions \in Seq(Decisions), Apart(decisions),
           NEW i \in DOMAIN decisions
  PROVE Decision!Final(decisions, decisions[i].request) = decisions[i]
<1> DEFINE Last(k) ==
      /\ decisions[k].request = decisions[i].request
      /\ \A j \in DOMAIN decisions :
           decisions[j].request = decisions[i].request => j <= k
<1>1. DOMAIN decisions \subseteq Nat
  OBVIOUS
<1>2. Last(i)
  BY <1>1 DEF Apart
<1>3. \A k \in DOMAIN decisions : Last(k) => k = i
  BY DEF Apart
<1> HIDE DEF Last
<1>4. (CHOOSE k \in DOMAIN decisions : Last(k)) = i
  BY <1>2, <1>3
<1> QED BY <1>4 DEF Decision!Final, Last

LEMMA Concatenated ==
  ASSUME NEW S, NEW s \in Seq(S), NEW t \in Seq(S)
  PROVE /\ s \o t \in Seq(S)
        /\ \A k \in DOMAIN s : k \in DOMAIN (s \o t) /\ (s \o t)[k] = s[k]
        /\ \A i \in DOMAIN t : Len(s) + i \in DOMAIN (s \o t)
                               /\ (s \o t)[Len(s) + i] = t[i]
        /\ \A k \in DOMAIN (s \o t) :
             k \in DOMAIN s \/ \E i \in DOMAIN t : k = Len(s) + i
<1>1. /\ DOMAIN s = 1 .. Len(s) /\ Len(s) \in Nat
      /\ DOMAIN t = 1 .. Len(t) /\ Len(t) \in Nat
  OBVIOUS
<1>2. s \o t \in Seq(S) /\ DOMAIN (s \o t) = 1 .. (Len(s) + Len(t))
  OBVIOUS
<1>3. \A k \in DOMAIN s : (s \o t)[k] = s[k]
  OBVIOUS
<1>4. \A i \in DOMAIN t : (s \o t)[Len(s) + i] = t[i]
  OBVIOUS
<1>5. ASSUME NEW k \in 1 .. (Len(s) + Len(t)), ~(k <= Len(s))
      PROVE k - Len(s) \in 1 .. Len(t) /\ k = Len(s) + (k - Len(s))
  BY <1>1, <1>5
<1>6. \A k \in DOMAIN (s \o t) : k \in DOMAIN s
        \/ \E i \in DOMAIN t : k = Len(s) + i
  <2> TAKE k \in DOMAIN (s \o t)
  <2>1. CASE k <= Len(s)
    BY <1>1, <1>2, <2>1
  <2>2. CASE ~(k <= Len(s))
    BY <1>1, <1>2, <1>5, <2>2
  <2> QED BY <2>1, <2>2
<1>7. \A i \in DOMAIN t : Len(s) + i \in DOMAIN (s \o t)
  BY <1>1, <1>2
<1>8. DOMAIN s \subseteq DOMAIN (s \o t)
  BY <1>1, <1>2
<1> QED BY <1>2, <1>3, <1>4, <1>6, <1>7, <1>8

(* Sound decisions, applied together: each request gets one outcome and    *)
(* one operation, and no other request is touched.                         *)
LEMMA ApplyDecided ==
  ASSUME DataShape, DecidedInv, NEW decisions \in Seq(Decisions), Apart(decisions),
         \A i \in DOMAIN decisions : Sound(decisions[i]),
         Decision!Apply(decisions), UNCHANGED <<votes, members, overdue>>
  PROVE /\ DataShape' /\ DecidedInv'
        /\ \A r \in Requests : status'[r] = status[r]
             \/ \E i \in DOMAIN decisions : decisions[i].request = r
<1> DEFINE made == {decisions[i].request : i \in DOMAIN decisions}
           new == [i \in DOMAIN decisions |->
                     [request |-> decisions[i].request, option |-> decisions[i].option]]
           Of(r) == {i \in DOMAIN log : log[i].request = r}
<1>1. \A i \in DOMAIN decisions : decisions[i] \in Decisions
  OBVIOUS
<1>2. /\ new \in Seq([request : Requests, option : Options])
      /\ DOMAIN new = DOMAIN decisions
      /\ \A i \in DOMAIN decisions : /\ new[i].request = decisions[i].request
                                     /\ new[i].option = decisions[i].option
  <2>1. ASSUME NEW i \in DOMAIN decisions
        PROVE new[i] \in [request : Requests, option : Options]
    BY <1>1 DEF Decisions
  <2>2. DOMAIN decisions = 1 .. Len(decisions) /\ Len(decisions) \in Nat
    OBVIOUS
  <2>3. new \in Seq([request : Requests, option : Options])
    BY <2>1, <2>2
  <2> QED BY <2>3
<1>3. log' = log \o new
  BY DEF Decision!Apply
<1>4. \A r \in Requests \ made :
        /\ status'[r] = status[r] /\ outcome'[r] = outcome[r]
        /\ source'[r] = source[r] /\ voters'[r] = voters[r]
  BY DEF Decision!Apply
<1>5. ASSUME NEW i \in DOMAIN decisions
      PROVE LET r == decisions[i].request
            IN /\ r \in Requests /\ status'[r] \in {"resolved", "expired"}
               /\ outcome'[r] = decisions[i].option /\ outcome'[r] \in Options
               /\ source'[r] = decisions[i].source
                    /\ voters'[r] = decisions[i].voters
  <2>1. Decision!Final(decisions, decisions[i].request) = decisions[i]
    BY FinalOf
  <2>2. decisions[i].request \in made /\ decisions[i].request \in Requests
        /\ decisions[i].option \in Options
    BY <1>1 DEF Decisions
  <2> QED BY <2>1, <2>2 DEF Decision!Apply
<1>6. DataShape'
  <2>1. /\ DOMAIN status' = Requests /\ status' = [r \in Requests |-> status'[r]]
        /\ outcome' = [r \in Requests |-> outcome'[r]]
    BY DEF Decision!Apply
  <2>2. ASSUME NEW r \in Requests
        PROVE /\ status'[r] \in {"none", "open", "resolved", "expired", "cancelled"}
              /\ outcome'[r] \in Options \cup {NoOne}
    BY <1>4, <1>5 DEF DataShape
  <2>3. log' \in Seq([request : Requests, option : Options])
    BY <1>2, <1>3 DEF DataShape
  <2> QED BY <2>1, <2>2, <2>3 DEF DataShape
<1>7. /\ \A k \in DOMAIN log : k \in DOMAIN log' /\ log'[k] = log[k]
      /\ \A i \in DOMAIN decisions :
           /\ Len(log) + i \in DOMAIN log'
           /\ log'[Len(log) + i].request = decisions[i].request
           /\ log'[Len(log) + i].option = decisions[i].option
      /\ \A k \in DOMAIN log' :
           k \in DOMAIN log \/ \E i \in DOMAIN decisions : k = Len(log) + i
  <2> HIDE DEF new
  <2> QED BY <1>2, <1>3, Concatenated DEF DataShape
<1> HIDE DEF new
<1>9. DecidedInv'
  <2> SUFFICES ASSUME NEW r \in Requests
               PROVE LET after == {k \in DOMAIN log' : log'[k].request = r}
                     IN IF status'[r] \notin {"resolved", "expired"}
                        THEN after = {} /\ outcome'[r] = NoOne
                        ELSE /\ \E k \in after :
                                  after = {k} /\ log'[k].option = outcome'[r]
                             /\ JustifiedBy(r, votes'[r], outcome'[r], source'[r],
                                            voters'[r])
    BY DEF DecidedInv
  <2> DEFINE after == {k \in DOMAIN log' : log'[k].request = r}
  <2>1. CASE r \notin made
    <3>1. \A k \in DOMAIN log' : log'[k].request = r => k \in DOMAIN log
      BY <1>7, <2>1
    <3>3. after = Of(r)
      BY <1>7, <3>1
    <3>4. \A k \in Of(r) : log'[k] = log[k]
      BY <1>7
    <3> HIDE DEF made, after
    <3>5. /\ status'[r] = status[r] /\ outcome'[r] = outcome[r]
          /\ source'[r] = source[r] /\ voters'[r] = voters[r]
               /\ votes'[r] = votes[r]
      BY <1>4, <2>1
    <3>6. IF status[r] \notin {"resolved", "expired"}
          THEN Of(r) = {} /\ outcome[r] = NoOne
          ELSE /\ \E i \in Of(r) : Of(r) = {i} /\ log[i].option = outcome[r]
               /\ JustifiedBy(r, votes[r], outcome[r], source[r], voters[r])
      BY DEF DecidedInv
    <3> HIDE DEF Of
    <3>7. IF status'[r] \notin {"resolved", "expired"}
          THEN after = {} /\ outcome'[r] = NoOne
          ELSE /\ \E k \in after : after = {k} /\ log'[k].option = outcome'[r]
               /\ JustifiedBy(r, votes'[r], outcome'[r], source'[r], voters'[r])
      BY <3>3, <3>4, <3>5, <3>6
    <3> QED BY <3>7 DEF after
  <2>2. CASE r \in made
    <3>1. PICK i \in DOMAIN decisions : decisions[i].request = r
      BY <2>2
    <3>2. status[r] = "open" /\ Sound(decisions[i])
      BY <3>1 DEF Sound
    <3>3. \A k \in DOMAIN log : log[k].request # r
      BY <3>2 DEF DecidedInv
    <3>4. Len(log) + i \in DOMAIN log'
      BY <1>7
    <3>5. log'[Len(log) + i].request = r /\ log'[Len(log) + i].option = outcome'[r]
      BY <1>5, <1>7, <3>1
    <3>6. \A k \in DOMAIN log' : log'[k].request = r => k = Len(log) + i
      BY <1>7, <3>1, <3>3 DEF Apart
    <3>7. after = {Len(log) + i}
      BY <3>4, <3>5, <3>6
    <3>8. JustifiedBy(r, votes'[r], outcome'[r], source'[r], voters'[r])
      BY <1>5, <3>1, <3>2 DEF Sound
    <3>9. status'[r] \in {"resolved", "expired"}
      BY <1>5, <3>1
    <3> QED BY <3>5, <3>7, <3>8, <3>9
  <2> QED BY <2>1, <2>2
<1> QED BY <1>4, <1>6, <1>9

LEMMA TransactionFields ==
  ASSUME NEW t \in Transactions
  PROVE /\ t.req \in Requests \cup {NoOne} /\ t.option \in Options \cup {NoOne}
        /\ t.need \in Seq(Decision!Lock) /\ t.todo \subseteq Requests
        /\ t.done \in Seq(Decisions) /\ t.kept \subseteq Decision!Lock
        /\ \A i \in DOMAIN t.done :
             /\ t.done[i] \in Decisions /\ t.done[i].request \in Requests
             /\ t.done[i].option \in Options
<1>1. /\ t.req \in Requests \cup {NoOne} /\ t.option \in Options \cup {NoOne}
      /\ t.need \in Seq(Decision!Lock) /\ t.todo \subseteq Requests
      /\ t.done \in Seq(Decisions) /\ t.kept \subseteq Decision!Lock
  BY DEF Transactions
<1>2. \A i \in DOMAIN t.done : t.done[i] \in Decisions
  BY <1>1
<1>3. \A d \in Decisions : d.request \in Requests /\ d.option \in Options
  BY DEF Decisions
<1> QED BY <1>1, <1>2, <1>3

(* What a transaction does leaves the others what they hold, and what they *)
(* have seen of it. *)
LEMMA OthersStay ==
  ASSUME TxShape, MemberInv, NEW a \in Decision!Actor,
         \A b \in Decision!Actor \ {a} : tx'[b] = tx[b],
         \A l \in Decision!Lock : locks[l] \notin {NoOne, a}
             => locks'[l] = locks[l],
         \A r \in Requests : status[r] = "open" /\ locks[r] \notin {NoOne, a}
           => status'[r] = status[r] /\ votes'[r] = votes[r]
  PROVE /\ (a \in Members => MemberOk(a)') => MemberInv'
        /\ a # "cron" /\ CronInv => CronInv'
<1>1. /\ Members \subseteq Decision!Actor /\ "cron" \in Decision!Actor
           /\ Requests \subseteq Decision!Lock
      /\ NoOne \notin Decision!Actor
  BY DecisionAssumption DEF Decision!CoordinationAssumption, Decision!Actor,
    Decision!Lock
<1>2. ASSUME NEW b \in Members, b # a PROVE MemberOk(b)'
  <2>1. tx'[b] = tx[b] /\ MemberOk(b) /\ b # NoOne
    BY <1>1, <1>2 DEF MemberInv
  <2>2. \A r \in Requests : locks[r] = b => locks'[r] = b
    BY <1>1, <1>2, <2>1
  <2>3. \A r \in Requests : locks[r] = b /\ status[r] = "open"
          => status'[r] = "open"
    BY <1>1, <1>2, <2>1
  <2> QED BY <2>1, <2>2, <2>3 DEF MemberOk
<1>3. ASSUME a # "cron", CronInv PROVE CronInv'
  <2>1. tx'["cron"] = tx["cron"] /\ tx["cron"] \in Transactions
    BY <1>1, <1>3 DEF TxShape
  <2>2. \A r \in Requests : locks[r] = "cron" => locks'[r] = "cron"
    BY <1>1, <1>3
  <2>3. \A r \in Requests : locks[r] = "cron" /\ status[r] = "open"
          => status'[r] = "open" /\ votes'[r] = votes[r]
    BY <1>1, <1>3
  <2>4. /\ tx["cron"].todo \subseteq Requests
        /\ \A i \in DOMAIN tx["cron"].done : tx["cron"].done[i].request \in Requests
    BY <2>1, TransactionFields
  <2>5. ASSUME NEW i \in DOMAIN tx["cron"].done
        PROVE /\ Sound(tx["cron"].done[i])'
              /\ locks'[tx["cron"].done[i].request] = "cron"
    BY <1>3, <2>1, <2>2, <2>3, <2>4 DEF CronInv, Sound
  <2> QED BY <1>3, <2>1, <2>2, <2>3, <2>4, <2>5 DEF CronInv
<1> QED BY <1>2, <1>3 DEF MemberInv

LEMMA TransactionsEnd ==
  ASSUME TxShape, MemberInv, CronInv, NEW a \in Decision!Actor, Decision!End(a),
         \A r \in Requests : status[r] = "open" /\ locks[r] \notin {NoOne, a}
           => status'[r] = status[r] /\ votes'[r] = votes[r]
  PROVE TxShape' /\ MemberInv' /\ CronInv'
<1>1. Decision!NoTx \in Transactions
  BY DecisionAssumption DEF Decision!NoTx, Transactions
<1>2. /\ tx'[a] = Decision!NoTx /\ \A b \in Decision!Actor \ {a} : tx'[b] = tx[b]
      /\ \A l \in Decision!Lock : locks[l] # a => locks'[l] = locks[l]
  BY DEF Decision!End, Decision!Release, TxShape
<1>3. TxShape'
  BY <1>1 DEF Decision!End, Decision!Release, TxShape
<1>4. MemberOk(a)'
  BY <1>2 DEF MemberOk, Decision!NoTx
<1>5. MemberInv' /\ (a # "cron" => CronInv')
  BY <1>2, <1>4, OthersStay
<1>6. a = "cron" => CronInv'
  BY <1>2 DEF CronInv, Decision!NoTx, Apart
<1> QED BY <1>3, <1>5, <1>6

LEMMA DecidedStays ==
  ASSUME DecidedInv, UNCHANGED <<outcome, source, log, voters>>,
         \A r \in Requests : status[r] \in {"resolved", "expired"}
           => status'[r] = status[r] /\ votes'[r] = votes[r],
         \A r \in Requests : status[r] \notin {"resolved", "expired"}
           => status'[r] \notin {"resolved", "expired"}
  PROVE DecidedInv'
<1> SUFFICES ASSUME NEW r \in Requests
             PROVE LET made == {i \in DOMAIN log : log[i].request = r}
                   IN IF status'[r] \notin {"resolved", "expired"}
                      THEN made = {} /\ outcome[r] = NoOne
                      ELSE /\ \E i \in made :
                                made = {i} /\ log[i].option = outcome[r]
                           /\ JustifiedBy(r, votes'[r], outcome[r], source[r],
                                          voters[r])
  BY DEF DecidedInv
<1> QED BY DEF DecidedInv

LEMMA PathLocks == ASSUME NEW o PROVE Decision!Path(o) \in Seq(Decision!Lock)
<1>1. /\ "group" \in Decision!Lock /\ "item" \in Decision!Lock
           /\ "version" \in Decision!Lock
  BY DEF Decision!Lock
<1>2. /\ <<"version">> \in Seq(Decision!Lock)
           /\ <<"item", "group", "version">> \in Seq(Decision!Lock)
      /\ <<"group", "item", "version">> \in Seq(Decision!Lock)
  BY <1>1
<1> QED BY <1>2 DEF Decision!Path

LEMMA CallBegin ==
  ASSUME DecisionInv, NEW a \in Members, NEW r \in Requests,
         NEW what \in {"respond", "override", "cancel"},
             NEW o \in Options \cup {NoOne},
         what \in {"respond", "override"}
             => o \in Options, Decision!Begin(a, what, r, o)
  PROVE DecisionInv'
<1>1. a \in Decision!Actor /\ a \notin {"cron", "editor"}
  BY DecisionAssumption DEF Decision!CoordinationAssumption, Decision!Actor
<1>2. UNCHANGED <<Decision!requestVars, votes, members, overdue, locks>>
  BY DEF Decision!Begin
<1>3. PICK due \in SUBSET Requests : due = {r} \cap Decision!Range(overdue)
  OBVIOUS
<1> DEFINE t == [Decision!NoTx EXCEPT !.call = what, !.req = r, !.option = o,
                                      !.pc = "judge", !.need = <<r>>, !.due = due]
<1>4. tx' = [tx EXCEPT ![a] = t]
  BY <1>3 DEF Decision!Begin
<1>5. /\ t \in Transactions /\ t.pc = "judge" /\ t.req = r /\ t.need = <<r>>
      /\ t.option = o /\ t.call = what /\ <<r>> # <<>>
  <2>1. Decision!NoTx \in Transactions
    BY DecisionAssumption DEF Decision!NoTx, Transactions
  <2>2. <<r>> \in Seq(Decision!Lock) /\ <<r>> # <<>>
    BY DEF Decision!Lock
  <2> QED BY <2>1, <2>2 DEF Transactions
<1> HIDE DEF t
<1>6. TxShape' /\ tx'[a] = t /\ \A b \in Decision!Actor \ {a} : tx'[b] = tx[b]
  BY <1>1, <1>2, <1>4, <1>5 DEF DecisionInv, TxShape
<1>7. MemberOk(a)'
  BY <1>5, <1>6 DEF MemberOk
<1>8. MemberInv' /\ CronInv'
  BY <1>1, <1>2, <1>6, <1>7, OthersStay DEF DecisionInv, Decision!requestVars
<1>9. DataShape' /\ DecidedInv'
  BY <1>2 DEF DecisionInv, DataShape, DecidedInv, Decision!requestVars
<1> QED BY <1>6, <1>8, <1>9 DEF DecisionInv

LEMMA CallRespond ==
  ASSUME DecisionInv, NEW a \in Members, Decision!Respond(a) PROVE DecisionInv'
<1> DEFINE r == tx[a].req  o == Decision!Chosen(r, members)
<1>1. /\ a \in Decision!Actor /\ a \notin {"cron", "editor"}
  BY DecisionAssumption DEF Decision!CoordinationAssumption, Decision!Actor
<1>2. /\ tx[a].pc = "judge" /\ tx[a].need = <<>> /\ tx[a].call = "respond"
      /\ UNCHANGED <<members, overdue>>
  BY DEF Decision!Respond, Decision!At
<1>3. r \in Requests /\ locks[r] = a /\ tx[a].option \in Options
  BY <1>2 DEF DecisionInv, MemberInv, MemberOk
<1>4. CASE Decision!Refuse(a)
  <2>1. TxShape' /\ MemberInv' /\ CronInv'
    BY <1>1, <1>4, TransactionsEnd DEF Decision!Refuse, DecisionInv,
      Decision!requestVars
  <2>2. DataShape' /\ DecidedInv'
    BY <1>2, <1>4 DEF Decision!Refuse, DecisionInv, DataShape, DecidedInv,
      Decision!requestVars
  <2> QED BY <2>1, <2>2 DEF DecisionInv
<1>5. CASE /\ tx' = [tx EXCEPT ![a].pc = "raise", ![a].need = Decision!Path(o)]
           /\ UNCHANGED <<Decision!requestVars, votes, locks>>
  <2>1. tx'[a].pc = "raise" /\ \A b \in Decision!Actor \ {a} : tx'[b] = tx[b]
    BY <1>1, <1>5 DEF DecisionInv, TxShape, Transactions
  <2>2. TxShape'
    <3>1. Decision!Path(o) \in Seq(Decision!Lock)
      BY PathLocks
    <3>2. [tx[a] EXCEPT !.pc = "raise", !.need = Decision!Path(o)] \in Transactions
      BY <1>1, <3>1 DEF DecisionInv, TxShape, Transactions
    <3>3. tx' = [tx EXCEPT ![a] =
                   [tx[a] EXCEPT !.pc = "raise", !.need = Decision!Path(o)]]
      BY <1>1, <1>5 DEF DecisionInv, TxShape
    <3> QED BY <1>5, <3>2, <3>3 DEF DecisionInv, TxShape
  <2>3. MemberOk(a)'
    BY <2>1 DEF MemberOk
  <2>4. MemberInv' /\ CronInv'
    BY <1>1, <1>5, <2>1, <2>3, OthersStay DEF DecisionInv, Decision!requestVars
  <2>5. DataShape' /\ DecidedInv'
    BY <1>2, <1>5 DEF DecisionInv, DataShape, DecidedInv, Decision!requestVars
  <2> QED BY <2>2, <2>4, <2>5 DEF DecisionInv
<1>6. CASE /\ Decision!Undecided(r) /\ votes' = [votes EXCEPT ![r][a] = tx[a].option]
           /\ Decision!End(a) /\ UNCHANGED Decision!requestVars
  <2>1. \A q \in Requests \ {r} : votes'[q] = votes[q]
    BY <1>6 DEF DecisionInv, DataShape
  <2>2. TxShape' /\ MemberInv' /\ CronInv'
    BY <1>1, <1>3, <1>6, <2>1, TransactionsEnd DEF DecisionInv,
      Decision!requestVars
  <2>3. votes' \in [Requests -> [Members -> Options \cup {NoOne}]]
    BY <1>3, <1>6 DEF DecisionInv, DataShape
  <2>4. DataShape'
    BY <1>2, <1>6, <2>3 DEF DecisionInv, DataShape, Decision!requestVars
  <2>5. DecidedInv'
    BY <1>6, <2>1, DecidedStays DEF DecisionInv, Decision!requestVars,
      Decision!Undecided
  <2> QED BY <2>2, <2>4, <2>5 DEF DecisionInv
<1> QED BY <1>4, <1>5, <1>6 DEF Decision!Respond

LEMMA CallRaise ==
  ASSUME DecisionInv, NEW a \in Members, Decision!Raise(a) PROVE DecisionInv'
<1>1. a \in Decision!Actor /\ Decision!End(a)
        /\ UNCHANGED <<Decision!requestVars, votes, members, overdue>>
  BY DEF Decision!Raise, Decision!Refuse, Decision!Actor
<1>2. TxShape' /\ MemberInv' /\ CronInv'
  BY <1>1, TransactionsEnd DEF DecisionInv, Decision!requestVars
<1>3. DataShape' /\ DecidedInv'
  BY <1>1 DEF DecisionInv, DataShape, DecidedInv, Decision!requestVars
<1> QED BY <1>2, <1>3 DEF DecisionInv

LEMMA CallOverride ==
  ASSUME DecisionInv, NEW a \in Members, Decision!Override(a) PROVE DecisionInv'
<1> DEFINE r == tx[a].req  o == tx[a].option
<1>1. /\ a \in Decision!Actor /\ a \notin {"cron", "editor"}
  BY DecisionAssumption DEF Decision!CoordinationAssumption, Decision!Actor
<1>2. /\ tx[a].pc = "judge" /\ tx[a].need = <<>> /\ tx[a].call = "override"
      /\ UNCHANGED <<members, overdue>>
  BY DEF Decision!Override, Decision!At
<1>3. r \in Requests /\ locks[r] = a /\ o \in Options
  BY <1>2 DEF DecisionInv, MemberInv, MemberOk
<1>4. CASE Decision!Refuse(a)
  <2>1. TxShape' /\ MemberInv' /\ CronInv'
    BY <1>1, <1>4, TransactionsEnd DEF Decision!Refuse, DecisionInv,
      Decision!requestVars
  <2>2. DataShape' /\ DecidedInv'
    BY <1>2, <1>4 DEF Decision!Refuse, DecisionInv, DataShape, DecidedInv,
      Decision!requestVars
  <2> QED BY <2>1, <2>2 DEF DecisionInv
<1>5. CASE /\ Decision!Undecided(r)
           /\ tx' = [tx EXCEPT ![a].pc = "close", ![a].need = Decision!Path(o)]
           /\ UNCHANGED <<Decision!requestVars, votes, locks>>
  <2> DEFINE t == [tx[a] EXCEPT !.pc = "close", !.need = Decision!Path(o)]
  <2>1. tx' = [tx EXCEPT ![a] = t]
    BY <1>1, <1>5 DEF DecisionInv, TxShape
  <2>2. t \in Transactions /\ t.pc = "close" /\ t.req = r /\ t.option = o
    BY <1>1, PathLocks DEF DecisionInv, TxShape, Transactions
  <2> HIDE DEF t
  <2>3. TxShape' /\ tx'[a] = t /\ \A b \in Decision!Actor \ {a} : tx'[b] = tx[b]
    BY <1>1, <1>5, <2>1, <2>2 DEF DecisionInv, TxShape
  <2>4. MemberOk(a)'
    BY <1>3, <1>5, <2>2, <2>3 DEF MemberOk, Decision!Undecided,
      Decision!requestVars
  <2>5. MemberInv' /\ CronInv'
    BY <1>1, <1>5, <2>3, <2>4, OthersStay DEF DecisionInv, Decision!requestVars
  <2>6. DataShape' /\ DecidedInv'
    BY <1>2, <1>5 DEF DecisionInv, DataShape, DecidedInv, Decision!requestVars
  <2> QED BY <2>3, <2>5, <2>6 DEF DecisionInv
<1> QED BY <1>4, <1>5 DEF Decision!Override

LEMMA CallClose ==
  ASSUME DecisionInv, NEW a \in Members, Decision!Close(a) PROVE DecisionInv'
<1> DEFINE r == tx[a].req
           d == Decision!Closed(r, tx[a].option, "organizer_override")
<1>1. /\ a \in Decision!Actor /\ tx[a].pc = "close" /\ Decision!Apply(<<d>>)
           /\ Decision!End(a)
      /\ UNCHANGED <<votes, members, overdue>>
  BY DEF Decision!Close, Decision!At, Decision!Actor
<1>2. /\ r \in Requests /\ tx[a].option \in Options
      /\ locks[r] = a /\ status[r] = "open"
  BY <1>1 DEF DecisionInv, MemberInv, MemberOk
<1>3. /\ d \in Decisions /\ d.request = r /\ Sound(d)
  BY <1>2 DEF Decision!Closed, Decisions, Sound, JustifiedBy, DecisionInv,
    DataShape
<1> HIDE DEF d
<1>4. /\ <<d>> \in Seq(Decisions) /\ DOMAIN <<d>> = {1} /\ <<d>>[1] = d
  BY <1>3
<1>5. Apart(<<d>>) /\ \A i \in DOMAIN <<d>> : Sound(<<d>>[i])
  BY <1>3, <1>4 DEF Apart
<1>6. /\ DataShape' /\ DecidedInv'
      /\ \A q \in Requests : status'[q] = status[q]
           \/ \E i \in DOMAIN <<d>> : <<d>>[i].request = q
  BY <1>1, <1>4, <1>5, ApplyDecided DEF DecisionInv
<1>7. \A q \in Requests \ {r} : status'[q] = status[q]
  BY <1>3, <1>4, <1>6
<1>8. TxShape' /\ MemberInv' /\ CronInv'
  BY <1>1, <1>2, <1>7, TransactionsEnd DEF DecisionInv
<1> QED BY <1>6, <1>8 DEF DecisionInv

LEMMA CallCancel ==
  ASSUME DecisionInv, NEW a \in Members, Decision!Cancel(a) PROVE DecisionInv'
<1> DEFINE r == tx[a].req
<1>1. /\ a \in Decision!Actor /\ tx[a].pc = "judge" /\ tx[a].need = <<>>
           /\ Decision!End(a)
      /\ UNCHANGED <<outcome, source, log, voters, votes, members, overdue>>
      /\ \/ status[r] = "open" /\ status' = [status EXCEPT ![r] = "cancelled"]
         \/ status' = status
  BY DEF Decision!Cancel, Decision!At, Decision!Actor, Decision!Undecided
<1>2. r \in Requests /\ locks[r] = a
  BY <1>1 DEF DecisionInv, MemberInv, MemberOk
<1>3. /\ \A q \in Requests \ {r} : status'[q] = status[q]
      /\ \/ status'[r] = status[r]
         \/ status[r] = "open" /\ status'[r] = "cancelled"
  BY <1>1, <1>2 DEF DecisionInv, DataShape
<1>4. TxShape' /\ MemberInv' /\ CronInv'
  BY <1>1, <1>2, <1>3, TransactionsEnd DEF DecisionInv
<1>5. DataShape'
  BY <1>1, <1>2 DEF DecisionInv, DataShape
<1>6. DecidedInv'
  BY <1>1, <1>2, <1>3, DecidedStays DEF DecisionInv
<1> QED BY <1>4, <1>5, <1>6 DEF DecisionInv

LEMMA CronIsNoMember == "cron" \notin Members /\ "editor" \notin Members
  BY DecisionAssumption DEF Decision!CoordinationAssumption

(* A lock is granted when nobody else has it. *)
LEMMA LockGranted ==
  ASSUME DecisionInv, NEW a \in Decision!Actor, Decision!Acquire(a)
    PROVE DecisionInv'
<1> DEFINE l == Head(tx[a].need)
           t == [tx[a] EXCEPT !.need = Tail(@)]
<1>1. /\ tx[a].need # <<>> /\ locks[l] \in {NoOne, a}
      /\ locks' = [locks EXCEPT ![l] = a] /\ tx' = [tx EXCEPT ![a].need = Tail(@)]
      /\ UNCHANGED <<Decision!requestVars, votes, members, overdue>>
  BY DEF Decision!Acquire
<1>2. tx[a] \in Transactions /\ tx[a].need \in Seq(Decision!Lock)
  BY TransactionFields DEF DecisionInv, TxShape
<1>3. l \in Decision!Lock /\ Tail(tx[a].need) \in Seq(Decision!Lock)
  BY <1>1, <1>2
<1>4. /\ t \in Transactions /\ t.pc = tx[a].pc /\ t.req = tx[a].req
      /\ t.option = tx[a].option /\ t.call = tx[a].call /\ t.todo = tx[a].todo
      /\ t.done = tx[a].done /\ t.kept = tx[a].kept /\ t.need = Tail(tx[a].need)
  BY <1>2, <1>3 DEF Transactions
<1>5. tx' = [tx EXCEPT ![a] = t]
  BY <1>1 DEF DecisionInv, TxShape
<1> HIDE DEF t
<1>6. /\ TxShape' /\ tx'[a] = t /\ \A b \in Decision!Actor \ {a} : tx'[b] = tx[b]
      /\ \A k \in Decision!Lock \ {l} : locks'[k] = locks[k]
      /\ locks'[l] = a
  BY <1>1, <1>3, <1>4, <1>5 DEF DecisionInv, TxShape
<1> HIDE DEF l
<1>7. \A k \in Decision!Lock : locks[k] = a => locks'[k] = a
  BY <1>6
<1>8. ASSUME a \in Members PROVE MemberOk(a)'
  <2>1. MemberOk(a) /\ Requests \subseteq Decision!Lock
    BY <1>8 DEF DecisionInv, MemberInv, Decision!Lock
  <2>2. CASE tx[a].pc = "judge"
    <3>1. tx[a].need = <<tx[a].req>> /\ tx[a].req \in Requests
      BY <1>1, <2>1, <2>2 DEF MemberOk
    <3>2. Head(tx[a].need) = tx[a].req /\ Tail(tx[a].need) = <<>>
      BY <3>1
    <3>3. locks'[tx[a].req] = a
      BY <1>6, <3>2 DEF l
    <3> QED BY <1>4, <1>6, <2>1, <2>2, <3>2, <3>3 DEF MemberOk
  <2>3. CASE tx[a].pc # "judge"
    BY <1>1, <1>4, <1>6, <1>7, <2>1, <2>3 DEF MemberOk, Decision!requestVars
  <2> QED BY <2>2, <2>3
<1>9. /\ \A k \in Decision!Lock : locks[k] \notin {NoOne, a} => locks'[k] = locks[k]
      /\ status' = status /\ votes' = votes
  BY <1>1, <1>6 DEF Decision!requestVars
<1>10. MemberInv' /\ (a # "cron" => CronInv')
  BY <1>6, <1>8, <1>9, OthersStay DEF DecisionInv
<1>11. ASSUME a = "cron" PROVE CronInv'
  <2>1. /\ CronInv /\ tx["cron"].todo \subseteq Requests
             /\ Requests \subseteq Decision!Lock
        /\ \A i \in DOMAIN tx["cron"].done : tx["cron"].done[i].request \in Requests
    BY <1>2, <1>11, TransactionFields DEF DecisionInv, Decision!Lock
  <2>2. tx["cron"].pc = "settle"
    BY <1>1, <1>11, <2>1 DEF CronInv
  <2>3. \A r \in Requests : locks[r] = "cron" => locks'[r] = "cron"
    BY <1>7, <1>11, <2>1
  <2>4. \A i \in DOMAIN tx["cron"].done :
          Sound(tx["cron"].done[i]) => Sound(tx["cron"].done[i])'
    BY <1>4, <1>6, <1>9, <1>11 DEF Sound
  <2> QED BY <1>4, <1>6, <1>9, <1>11, <2>1, <2>2, <2>3, <2>4 DEF CronInv
<1>12. DataShape' /\ DecidedInv'
  BY <1>1 DEF DecisionInv, DataShape, DecidedInv, Decision!requestVars
<1> QED BY <1>6, <1>10, <1>11, <1>12 DEF DecisionInv

(* The scheduler drops the decision it was at and keeps the others.        *)
LEMMA VictimFails ==
  ASSUME DecisionInv, NEW a \in Decision!Actor, Decision!Victim(a)
    PROVE DecisionInv'
<1>1. tx[a].need # <<>>
        /\ UNCHANGED <<Decision!requestVars, votes, members, overdue>>
  BY DEF Decision!Victim
<1>2. DataShape' /\ DecidedInv'
  BY <1>1 DEF DecisionInv, DataShape, DecidedInv, Decision!requestVars
<1>3. CASE a # "cron"
  <2>1. TxShape' /\ MemberInv' /\ CronInv'
    BY <1>1, <1>3, TransactionsEnd DEF Decision!Victim, DecisionInv,
      Decision!requestVars
  <2> QED BY <1>2, <2>1 DEF DecisionInv
<1>4. CASE a = "cron"
  <2> DEFINE c == tx["cron"]
             t == [c EXCEPT !.need = <<>>, !.pc = "next", !.done = Decision!Front(@)]
  <2>1. /\ c \in Transactions /\ c.done \in Seq(Decisions)
             /\ c.todo \subseteq Requests
        /\ c.kept \subseteq Decision!Lock /\ Requests \subseteq Decision!Lock
        /\ \A i \in DOMAIN c.done : c.done[i].request \in Requests
    BY <1>4, TransactionFields DEF DecisionInv, TxShape, Decision!Lock
  <2>2. CronInv /\ c.pc = "settle" /\ c.done # <<>>
    BY <1>1, <1>4 DEF DecisionInv, CronInv
  <2>3. /\ Decision!Front(c.done) \in Seq(Decisions)
        /\ \A i \in DOMAIN Decision!Front(c.done) : i \in DOMAIN c.done
             /\ Decision!Front(c.done)[i] = c.done[i]
    BY <2>1, <2>2 DEF Decision!Front
  <2>4. /\ t \in Transactions /\ t.pc = "next" /\ t.need = <<>>
        /\ t.todo = c.todo /\ t.done = Decision!Front(c.done)
    <3>1. <<>> \in Seq(Decision!Lock)
      OBVIOUS
    <3> QED BY <2>1, <2>3, <3>1 DEF Transactions
  <2>5. tx' = [tx EXCEPT !["cron"] = t]
    BY <1>4 DEF Decision!Victim, DecisionInv, TxShape
  <2> HIDE DEF t
  <2>6. /\ TxShape' /\ tx'["cron"] = t
             /\ \A b \in Decision!Actor \ {a} : tx'[b] = tx[b]
        /\ \A l \in Decision!Lock : locks[l] # "cron" \/ l \in c.kept
             => locks'[l] = locks[l]
    BY <1>4, <2>4, <2>5 DEF Decision!Victim, Decision!Release, DecisionInv,
      TxShape
  <2>7. MemberInv'
    BY CronIsNoMember, <1>1, <1>4, <2>6, OthersStay DEF DecisionInv,
      Decision!requestVars
  <2>8. CronInv'
    <3>1. \A r \in c.todo : locks'[r] = "cron" /\ status'[r] = "open"
      BY <1>1, <2>1, <2>2, <2>6 DEF CronInv, Decision!requestVars
    <3>2. ASSUME NEW i \in DOMAIN Decision!Front(c.done)
          PROVE LET d == Decision!Front(c.done)[i]
                IN /\ locks'[d.request] = "cron" /\ d.request \notin c.todo
                   /\ status'[d.request] = "open"
                   /\ JustifiedBy(d.request, votes'[d.request], d.option, d.source,
                                  d.voters)
      <4>1. PICK d : d = c.done[i] /\ d = Decision!Front(c.done)[i]
              /\ i \in DOMAIN c.done
        BY <2>3
      <4>2. /\ d.request \in Requests /\ d.request \in c.kept
                 /\ locks[d.request] = "cron"
            /\ d.request \notin c.todo /\ Sound(d)
        BY <2>1, <2>2, <4>1 DEF CronInv
      <4>3. locks'[d.request] = "cron" /\ status' = status /\ votes' = votes
        BY <1>1, <2>1, <2>6, <4>2 DEF Decision!requestVars
      <4> QED BY <4>1, <4>2, <4>3 DEF Sound
    <3>3. Apart(Decision!Front(c.done))
      BY <2>2, <2>3 DEF CronInv, Apart
    <3> QED BY <2>4, <2>6, <3>1, <3>2, <3>3 DEF CronInv, Sound
  <2> QED BY <1>2, <2>6, <2>7, <2>8 DEF DecisionInv
<1> QED BY <1>3, <1>4

LEMMA SchedulerRuns == ASSUME DecisionInv, Decision!Run PROVE DecisionInv'
<1>1. PICK claimed \in SUBSET Decision!Due :
        /\ tx["cron"] = Decision!NoTx
        /\ locks' = [l \in Decision!Lock |->
                       IF l \in claimed THEN "cron" ELSE locks[l]]
        /\ tx' = [tx EXCEPT !["cron"] =
                    [Decision!NoTx EXCEPT !.call = "run", !.pc = "next", !.todo = claimed]]
  BY DEF Decision!Run
<1>2. UNCHANGED <<Decision!requestVars, votes, members, overdue>>
  BY DEF Decision!Run
<1>3. /\ claimed \subseteq Requests /\ "cron" \in Decision!Actor
           /\ Requests \subseteq Decision!Lock
      /\ \A r \in claimed : status[r] = "open" /\ locks[r] = NoOne
  BY <1>1 DEF Decision!Due, Decision!Range, DecisionInv, DataShape,
    Decision!Actor, Decision!Lock
<1> DEFINE t == [Decision!NoTx EXCEPT !.call = "run", !.pc = "next", !.todo = claimed]
<1>4. /\ t \in Transactions /\ t.pc = "next" /\ t.need = <<>> /\ t.todo = claimed
      /\ t.done = <<>>
  <2>1. Decision!NoTx \in Transactions
    BY DecisionAssumption DEF Decision!NoTx, Transactions
  <2>2. Decision!NoTx.need = <<>> /\ Decision!NoTx.done = <<>>
    BY DEF Decision!NoTx
  <2> QED BY <1>3, <2>1, <2>2 DEF Transactions
<1>5. tx' = [tx EXCEPT !["cron"] = t]
  BY <1>1
<1> HIDE DEF t
<1>6. /\ TxShape' /\ tx'["cron"] = t
           /\ \A b \in Decision!Actor \ {"cron"} : tx'[b] = tx[b]
      /\ \A l \in Decision!Lock : locks[l] # NoOne => locks'[l] = locks[l]
      /\ \A r \in claimed : locks'[r] = "cron"
  BY <1>1, <1>3, <1>4, <1>5 DEF DecisionInv, TxShape
<1>7. MemberInv'
  BY CronIsNoMember, <1>2, <1>3, <1>6, OthersStay DEF DecisionInv,
    Decision!requestVars
<1>8. CronInv'
  BY <1>2, <1>3, <1>4, <1>6 DEF CronInv, Apart, Decision!requestVars
<1>9. DataShape' /\ DecidedInv'
  BY <1>2 DEF DecisionInv, DataShape, DecidedInv, Decision!requestVars
<1> QED BY <1>6, <1>7, <1>8, <1>9 DEF DecisionInv

(* The scheduler decides on the votes as they are, of a request that it    *)
(* holds and that is open.                                                 *)
LEMMA SchedulerResolves ==
  ASSUME DecisionInv, NEW r \in Requests, Decision!Resolve(r) PROVE DecisionInv'
<1> DEFINE o == Decision!Chosen(r, members)
           c == tx["cron"]
<1>1. /\ c.pc = "next" /\ c.need = <<>> /\ r \in c.todo
      /\ UNCHANGED <<Decision!requestVars, votes, members, overdue, locks>>
  BY DEF Decision!Resolve, Decision!At, Decision!IsNext
<1>2. /\ CronInv /\ c \in Transactions /\ "cron" \in Decision!Actor
           /\ Requests \subseteq Decision!Lock
      /\ c.done \in Seq(Decisions) /\ c.todo \subseteq Requests
      /\ \A i \in DOMAIN c.done : c.done[i].request \in Requests
      /\ locks[r] = "cron" /\ status[r] = "open"
  BY <1>1, TransactionFields DEF DecisionInv, TxShape, CronInv,
    Decision!Actor, Decision!Lock
<1>3. DataShape' /\ DecidedInv'
  BY <1>1 DEF DecisionInv, DataShape, DecidedInv, Decision!requestVars
<1>4. status' = status /\ votes' = votes /\ locks' = locks
  BY <1>1 DEF Decision!requestVars
<1>5. CASE tx' = [tx EXCEPT !["cron"].todo = @ \ {r}]
  <2> DEFINE t == [c EXCEPT !.todo = @ \ {r}]
  <2>1. /\ t \in Transactions /\ t.pc = "next" /\ t.need = <<>>
        /\ t.todo = c.todo \ {r} /\ t.done = c.done
    BY <1>1, <1>2 DEF Transactions
  <2>2. tx' = [tx EXCEPT !["cron"] = t]
    BY <1>2, <1>5 DEF DecisionInv, TxShape
  <2> HIDE DEF t
  <2>3. TxShape' /\ tx'["cron"] = t
          /\ \A b \in Decision!Actor \ {"cron"} : tx'[b] = tx[b]
    BY <1>2, <1>4, <2>1, <2>2 DEF DecisionInv, TxShape
  <2>4. MemberInv'
    BY CronIsNoMember, <1>2, <1>4, <2>3, OthersStay DEF DecisionInv
  <2>5. CronInv'
    BY <1>2, <1>4, <2>1, <2>3 DEF CronInv, Apart, Sound
  <2> QED BY <1>3, <2>3, <2>4, <2>5 DEF DecisionInv
<1>6. CASE Decision!Decide(r, o)
  <2>1. PICK d : d = Decision!Closed(r, o, Decision!Source(r, members))
    OBVIOUS
  <2>2. PICK need : need = Decision!Path(o)
    OBVIOUS
  <2>3. PICK kept : kept = {l \in Decision!Lock : locks[l] = "cron"}
    OBVIOUS
  <2> DEFINE t == [c EXCEPT !.pc = "settle", !.need = need, !.todo = @ \ {r},
                            !.done = Append(@, d), !.kept = kept]
  <2>4. /\ members \in SUBSET Members /\ o \in Options
        /\ Decision!Source(r, members) \in {"unanimity", "majority", "timeout_default"}
        /\ JustifiedBy(r, votes[r], o, Decision!Source(r, members), members)
    BY Outcome DEF DecisionInv, DataShape
  <2>5. d \in Decisions /\ Sound(d) /\ d.request = r
    BY <1>2, <2>1, <2>4 DEF Decision!Closed, Decisions, Sound
  <2>6. need \in Seq(Decision!Lock) /\ kept \subseteq Decision!Lock
    BY <2>2, <2>3, PathLocks
  <2>7. Append(c.done, d) \in Seq(Decisions)
    BY <1>2, <2>5
  <2>8. /\ t \in Transactions /\ t.pc = "settle" /\ t.need = need /\ t.kept = kept
        /\ t.todo = c.todo \ {r} /\ t.done = Append(c.done, d)
    BY <1>2, <2>6, <2>7 DEF Transactions
  <2>9. tx' = [tx EXCEPT !["cron"] = t]
    BY <1>2, <1>6, <2>1, <2>2, <2>3 DEF Decision!Decide, DecisionInv, TxShape
  <2> HIDE DEF t
  <2>10. TxShape' /\ tx'["cron"] = t
           /\ \A b \in Decision!Actor \ {"cron"} : tx'[b] = tx[b]
    BY <1>2, <1>4, <2>8, <2>9 DEF DecisionInv, TxShape
  <2>11. MemberInv'
    BY CronIsNoMember, <1>2, <1>4, <2>10, OthersStay DEF DecisionInv
  <2>12. \A i \in DOMAIN t.done :
           \/ i \in DOMAIN c.done /\ t.done[i] = c.done[i]
           \/ i = Len(c.done) + 1 /\ t.done[i] = d
    BY <1>2, <2>8
  <2>13. ASSUME NEW i \in DOMAIN t.done
         PROVE LET e == t.done[i]
               IN /\ locks[e.request] = "cron" /\ e.request \notin t.todo
                  /\ e.request \in kept /\ Sound(e)
    BY <1>2, <2>3, <2>5, <2>8, <2>12 DEF CronInv
  <2>14. Apart(t.done)
    <3> SUFFICES ASSUME NEW i \in DOMAIN t.done, NEW j \in DOMAIN t.done,
                        t.done[i].request = t.done[j].request
                 PROVE i = j
      BY DEF Apart
    <3>1. \A k \in DOMAIN c.done : c.done[k].request # r
      BY <1>1, <1>2 DEF CronInv
    <3> QED BY <1>2, <2>5, <2>12, <3>1 DEF CronInv, Apart
  <2>15. t.todo \subseteq kept /\ t.done # <<>>
           /\ \A q \in t.todo : locks[q] = "cron" /\ status[q] = "open"
    BY <1>2, <2>3, <2>8 DEF CronInv
  <2> QED BY <1>3, <1>4, <2>8, <2>10, <2>11, <2>13, <2>14, <2>15 DEF
            DecisionInv, CronInv, Sound
<1> QED BY <1>5, <1>6 DEF Decision!Resolve

LEMMA SchedulerSettles == ASSUME DecisionInv, Decision!Settle PROVE DecisionInv'
<1> DEFINE c == tx["cron"]
           t == [c EXCEPT !.pc = "next"]
<1>1. /\ c.need = <<>> /\ tx' = [tx EXCEPT !["cron"].pc = "next"]
      /\ UNCHANGED <<Decision!requestVars, votes, members, overdue, locks>>
  BY DEF Decision!Settle, Decision!At
<1>2. CronInv /\ c \in Transactions /\ "cron" \in Decision!Actor
  BY DEF DecisionInv, TxShape, Decision!Actor
<1>3. /\ t \in Transactions /\ t.pc = "next" /\ t.need = <<>>
      /\ t.todo = c.todo /\ t.done = c.done
  BY <1>1, <1>2 DEF Transactions
<1>4. tx' = [tx EXCEPT !["cron"] = t]
  BY <1>1, <1>2 DEF DecisionInv, TxShape
<1> HIDE DEF t
<1>5. /\ TxShape' /\ tx'["cron"] = t
           /\ \A b \in Decision!Actor \ {"cron"} : tx'[b] = tx[b]
      /\ status' = status /\ votes' = votes /\ locks' = locks
  BY <1>1, <1>2, <1>3, <1>4 DEF DecisionInv, TxShape, Decision!requestVars
<1>6. MemberInv'
  BY CronIsNoMember, <1>2, <1>5, OthersStay DEF DecisionInv
<1>7. CronInv'
  BY <1>2, <1>3, <1>5 DEF CronInv, Apart, Sound
<1>8. DataShape' /\ DecidedInv'
  BY <1>1 DEF DecisionInv, DataShape, DecidedInv, Decision!requestVars
<1> QED BY <1>5, <1>6, <1>7, <1>8 DEF DecisionInv

LEMMA SchedulerCommits == ASSUME DecisionInv, Decision!Commit PROVE DecisionInv'
<1> DEFINE c == tx["cron"]
<1>1. /\ Decision!Apply(c.done) /\ Decision!End("cron")
           /\ UNCHANGED <<votes, members, overdue>>
      /\ "cron" \in Decision!Actor
  BY DEF Decision!Commit, Decision!Actor
<1>2. CronInv /\ c \in Transactions /\ c.done \in Seq(Decisions)
  BY <1>1, TransactionFields DEF DecisionInv, TxShape
<1>3. Apart(c.done) /\ \A i \in DOMAIN c.done : Sound(c.done[i])
  BY <1>2 DEF CronInv
<1>4. PICK done \in Seq(Decisions) : done = c.done
  BY <1>2
<1>5. /\ DataShape' /\ DecidedInv'
      /\ \A r \in Requests : status'[r] = status[r]
           \/ \E i \in DOMAIN done : done[i].request = r
  BY <1>1, <1>3, <1>4, ApplyDecided DEF DecisionInv
<1>6. \A i \in DOMAIN done : locks[done[i].request] = "cron"
  BY <1>2, <1>4 DEF CronInv
<1>7. TxShape' /\ MemberInv' /\ CronInv'
  BY <1>1, <1>5, <1>6, TransactionsEnd DEF DecisionInv
<1> QED BY <1>5, <1>7 DEF DecisionInv

LEMMA DecisionNext == ASSUME DecisionInv, [Decision!Next]_(Decision!vars)
  PROVE DecisionInv'
<1>1. CASE UNCHANGED Decision!vars
  BY <1>1 DEF Decision!vars, Decision!requestVars, DecisionInv, DataShape,
    TxShape, MemberInv, MemberOk, CronInv, Sound, DecidedInv
<1>2. ASSUME NEW a \in Members, NEW r \in Requests, Decision!Create(a, r)
      PROVE DecisionInv'
  <2>1. /\ status[r] = "none" /\ status' = [status EXCEPT ![r] = "open"]
        /\ UNCHANGED <<outcome, source, log, voters, votes, members, overdue, locks,
                       tx>>
    BY <1>2 DEF Decision!Create
  <2>2. \A q \in Requests : \/ status'[q] = status[q]
                            \/ status[q] = "none" /\ status'[q] = "open"
    BY <2>1 DEF DecisionInv, DataShape
  <2>3. DataShape' /\ TxShape'
    BY <2>1 DEF DecisionInv, DataShape, TxShape
  <2>4. "editor" \in Decision!Actor
    BY DEF Decision!Actor
  <2>5. MemberInv' /\ CronInv'
    BY CronIsNoMember, <2>1, <2>2, <2>4, OthersStay DEF DecisionInv
  <2>6. DecidedInv'
    BY <2>1, <2>2, DecidedStays DEF DecisionInv
  <2> QED BY <2>3, <2>5, <2>6 DEF DecisionInv
<1>3. CASE Decision!Move \/ \E r \in Requests : Decision!Passes(r)
  <2>1. UNCHANGED <<Decision!requestVars, votes, locks, tx>>
    BY <1>3 DEF Decision!Move, Decision!Passes
  <2>2. members' \in SUBSET Members /\ overdue' \in Seq(Requests)
    <3>1. CASE Decision!Move
      BY <3>1 DEF Decision!Move, DecisionInv, DataShape
    <3>2. CASE \E r \in Requests : Decision!Passes(r)
      <4>1. PICK r \in Requests : overdue' = Append(overdue, r)
              /\ members' = members
        BY <3>2 DEF Decision!Passes
      <4> QED BY <4>1 DEF DecisionInv, DataShape
    <3> QED BY <1>3, <3>1, <3>2
  <2>3. DataShape' /\ TxShape' /\ DecidedInv'
    BY <2>1, <2>2 DEF Decision!requestVars, DecisionInv, DataShape, TxShape,
      DecidedInv
  <2>4. MemberInv' /\ CronInv'
    BY <2>1 DEF Decision!requestVars, DecisionInv, MemberInv, MemberOk,
      CronInv, Sound
  <2> QED BY <2>3, <2>4 DEF DecisionInv
<1>4. CASE Decision!Edit
  <2> DEFINE t == [Decision!NoTx EXCEPT !.call = "edit", !.pc = "edit",
                                        !.need = <<"group", "item">>]
  <2>1. /\ tx' = [tx EXCEPT !["editor"] = t] /\ "editor" \in Decision!Actor
        /\ UNCHANGED <<Decision!requestVars, votes, members, overdue, locks>>
    BY <1>4 DEF Decision!Edit, Decision!Actor
  <2>2. t \in Transactions
    <3>1. Decision!NoTx \in Transactions
      BY DecisionAssumption DEF Decision!NoTx, Transactions
    <3>2. "group" \in Decision!Lock /\ "item" \in Decision!Lock
      BY DEF Decision!Lock
    <3>3. <<"group", "item">> \in Seq(Decision!Lock)
      BY <3>2
    <3> QED BY <3>1, <3>3 DEF Transactions
  <2> HIDE DEF t
  <2>3. /\ TxShape' /\ \A b \in Decision!Actor \ {"editor"} : tx'[b] = tx[b]
        /\ status' = status /\ votes' = votes /\ locks' = locks
    BY <2>1, <2>2 DEF DecisionInv, TxShape, Decision!requestVars
  <2>4. MemberInv' /\ CronInv'
    BY CronIsNoMember, <2>1, <2>3, OthersStay DEF DecisionInv
  <2>5. DataShape' /\ DecidedInv'
    BY <2>1 DEF DecisionInv, DataShape, DecidedInv, Decision!requestVars
  <2> QED BY <2>3, <2>4, <2>5 DEF DecisionInv
<1>5. ASSUME NEW a \in {"editor", "cron"}, Decision!End(a),
             UNCHANGED <<Decision!requestVars, votes, members, overdue>>
      PROVE DecisionInv'
  <2>1. a \in Decision!Actor
    BY DEF Decision!Actor
  <2>2. TxShape' /\ MemberInv' /\ CronInv'
    BY <1>5, <2>1, TransactionsEnd DEF DecisionInv, Decision!requestVars
  <2>3. DataShape' /\ DecidedInv'
    BY <1>5 DEF DecisionInv, DataShape, DecidedInv, Decision!requestVars
  <2> QED BY <2>2, <2>3 DEF DecisionInv
<1>6. CASE Decision!Edited \/ Decision!Die
  BY <1>5, <1>6 DEF Decision!Edited, Decision!Die
<1>7. CASE \E a \in Members, r \in Requests :
             \/ \E o \in Options, what \in {"respond", "override"} :
                  Decision!Begin(a, what, r, o)
             \/ Decision!Begin(a, "cancel", r, NoOne)
  BY <1>7, CallBegin
<1>8. CASE \E a \in Members : Decision!Client(a)
  BY <1>8, CallRespond, CallRaise, CallOverride, CallClose, CallCancel DEF
    Decision!Client
<1>9. CASE Decision!Scheduler
  BY <1>9, SchedulerRuns, SchedulerResolves, SchedulerSettles, SchedulerCommits
  DEF Decision!Scheduler
<1>10. CASE Decision!Waiting
  BY <1>10, LockGranted, VictimFails DEF Decision!Waiting
<1> QED
  BY <1>1, <1>2, <1>3, <1>4, <1>6, <1>7, <1>8, <1>9, <1>10 DEF Decision!Next

LEMMA DecisionOf ==
  Spec => Decision!Init /\ [][Decision!Next]_(Decision!vars)
<1>1. Init => Decision!Init
  BY DEF Init
<1>2. [Next]_vars => [Decision!Next]_(Decision!vars)
  BY DEF Next, vars, decisionVars, Decision!vars, Decision!requestVars
<1> QED BY <1>1, <1>2, PTL DEF Spec

(* A request is decided once: one operation, of the outcome recorded,      *)
(* which a leader chose, or the votes of the members of that moment, or    *)
(* the deadline where their votes decided nothing; for any number of       *)
(* requests, members, options, calls, deadlocks and runs that die.         *)
THEOREM RequestsDecidedOnce == Spec => []DecidedOnce
<1>1. Decision!Init => DecisionInv
  BY DecisionInit
<1>2. DecisionInv /\ [Decision!Next]_(Decision!vars) => DecisionInv'
  BY DecisionNext
<1>3. ASSUME DecisionInv PROVE DecidedOnce
  <2>1. ASSUME NEW r, NEW o, NEW who
        PROVE AgreedBy(r, votes[r], o, who) <=> Decision!Agreed(r, o, who)
    BY SameSize DEF AgreedBy, Decision!Agreed, Decision!For, Decision!Ballots
  <2>2. ASSUME NEW r, NEW o, NEW how, NEW who
        PROVE JustifiedBy(r, votes[r], o, how, who) <=> Decision!Justified(r, o, how, who)
    BY <2>1 DEF JustifiedBy, Decision!Justified
  <2>3. Decision!DecidedOnce
    BY <1>3, <2>2 DEF DecisionInv, DecidedInv, Decision!DecidedOnce
  <2> QED BY <2>3 DEF DecidedOnce
<1> QED BY <1>1, <1>2, <1>3, DecisionOf, PTL

-----------------------------------------------------------------------------
(* Types *)

(* A choice that may still be withdrawn leaves a number for the withdrawal. *)
ChoiceOK ==
  /\ on \in BOOLEAN
  /\ revision \in Log!Revision /\ granting \in Log!Revision
  /\ mounted \in Log!Revision /\ granting <= revision
  /\ (on \/ (granting # 0 /\ granting = revision)) => revision < 2 * MaxGrants

QueueTypes ==
  /\ rows \subseteq Log!Record /\ era \in [Log!Record -> Log!Revision]
  /\ disk \in Seq(0 .. Records + 1)
  /\ batch \in [phase : {"none", "read", "sent"}, recs : SUBSET Log!Record,
                revision : Log!Revision]
UploadTypes ==
  upload \in [phase : {"none", "logs", "rest"}, left : BOOLEAN,
              revision : Log!Revision]
AlarmTypes == alarm \in BOOLEAN /\ counter \in Nat
HistoryTypes ==
  /\ leaked \subseteq Log!Record /\ crossed \subseteq Log!Record
  /\ untold \subseteq Log!Record
CountTypes == recorded \in 0 .. Records /\ mishaps \in 0 .. MaxLogFaults

(* A flush that has read a batch is still at the head of the lane. *)
FlushAtHead ==
  batch.phase # "none" => Log!AtHead({Log!UploadFlush, Log!StepFlush})

LogTypes ==
  /\ ChoiceOK /\ QueueTypes /\ FlushAtHead /\ UploadTypes /\ AlarmTypes
  /\ HistoryTypes /\ CountTypes

LEMMA LogTyped ==
  ASSUME LogTypes, [Log!Next]_(Log!vars) PROVE LogTypes'
<1>a. /\ Records \in Nat /\ MaxGrants \in Nat /\ MaxLogFaults \in Nat
  BY WorkAssumption DEF Log!LogAssumption
<1>b. /\ Log!Revision = 0 .. 2 * MaxGrants /\ Log!Record = 1 .. Records
      /\ 2 * MaxGrants \in Nat /\ 0 \in Log!Revision
  BY <1>a DEF Log!Revision, Log!Record
<1>c. UNCHANGED Log!consentVars => ChoiceOK'
  BY DEF LogTypes, ChoiceOK, Log!consentVars
<1>d. UNCHANGED Log!queueVars => QueueTypes' /\ FlushAtHead'
  BY DEF LogTypes, QueueTypes, FlushAtHead, Log!AtHead, Log!queueVars
<1>e. UNCHANGED upload => UploadTypes'
  BY DEF LogTypes, UploadTypes
<1>f. UNCHANGED Log!schedulerVars => AlarmTypes'
  BY DEF LogTypes, AlarmTypes, Log!schedulerVars
<1>g. UNCHANGED <<leaked, crossed, untold>> => HistoryTypes'
  BY DEF LogTypes, HistoryTypes
<1>h. UNCHANGED <<recorded, mishaps>> => CountTypes'
  BY DEF LogTypes, CountTypes
<1>i. /\ UNCHANGED recorded /\ Log!Fault => CountTypes'
      /\ UNCHANGED mishaps /\ recorded < Records /\ recorded' = recorded + 1
           => CountTypes'
  BY <1>a DEF LogTypes, CountTypes, Log!Fault
<1>j. /\ Log!NoUpload \in [phase : {"none", "logs", "rest"}, left : BOOLEAN,
                           revision : Log!Revision]
      /\ Log!NoBatch \in [phase : {"none", "read", "sent"},
                          recs : SUBSET Log!Record, revision : Log!Revision]
  BY <1>b DEF Log!NoUpload, Log!NoBatch
<1>k. ASSUME disk # <<>>
      PROVE /\ Tail(disk) \in Seq(0 .. Records + 1)
            /\ Append(Tail(disk), Log!StepFlush) \in Seq(0 .. Records + 1)
  BY <1>a, <1>k DEF LogTypes, QueueTypes, Log!StepFlush
<1>l. ASSUME NEW t \in 0 .. Records + 1
      PROVE /\ Append(disk, t) \in Seq(0 .. Records + 1)
            /\ disk # <<>> => /\ Append(disk, t) # <<>>
                             /\ Head(Append(disk, t)) = Head(disk)
            /\ <<t>> \in Seq(0 .. Records + 1)
  BY <1>a DEF LogTypes, QueueTypes
<1>m. ASSUME NEW left \in BOOLEAN, Log!FlushReturns(left), disk # <<>>,
             rows' \in SUBSET rows, UNCHANGED era
      PROVE QueueTypes' /\ FlushAtHead' /\ UploadTypes'
  <2>1. QueueTypes' /\ FlushAtHead'
    BY <1>j, <1>k, <1>m
    DEF Log!FlushReturns, LogTypes, QueueTypes, FlushAtHead, Log!NoBatch
  <2>2. UploadTypes'
    BY <1>m DEF Log!FlushReturns, LogTypes, UploadTypes
  <2> QED BY <2>1, <2>2
<1>n. ASSUME NEW t \in 0 .. Records + 1, disk' = Append(disk, t),
             UNCHANGED <<rows, era, batch>>
      PROVE QueueTypes' /\ FlushAtHead'
  BY <1>l, <1>n DEF LogTypes, QueueTypes, FlushAtHead, Log!AtHead
<1>o. ASSUME UNCHANGED <<rows, era, disk>>,
             \/ batch.phase # "none"
             \/ Log!AtHead({Log!UploadFlush, Log!StepFlush}),
             batch' \in [phase : {"none", "read", "sent"}, recs : SUBSET Log!Record,
                          revision : Log!Revision]
      PROVE QueueTypes' /\ FlushAtHead'
  BY <1>o DEF LogTypes, QueueTypes, FlushAtHead, Log!AtHead
<1>p. batch.phase # "none" => disk # <<>>
  BY DEF LogTypes, FlushAtHead, Log!AtHead
<1>q. ASSUME NEW r, Log!Mount(r), r \in Log!Revision, UNCHANGED mishaps
      PROVE AlarmTypes' /\ CountTypes' /\ mounted' \in Log!Revision
            /\ recorded + 1 \in 0 .. Records + 1
  <2>1. /\ recorded < Records /\ recorded' = recorded + 1
        /\ mounted' = r /\ alarm' = FALSE /\ counter' = 0
    BY <1>q DEF Log!Mount
  <2>2. AlarmTypes'
    BY <2>1 DEF AlarmTypes
  <2>3. recorded + 1 \in 0 .. Records + 1
    BY <1>a DEF LogTypes, CountTypes
  <2> QED BY <1>i, <1>q, <2>1, <2>2, <2>3
<1>1. CASE UNCHANGED Log!vars
  BY <1>1, <1>c, <1>d, <1>e, <1>f, <1>g, <1>h DEF Log!vars, LogTypes
<1>2. CASE Log!TimerFires
  <2>1. UploadTypes'
    BY <1>2 DEF Log!TimerFires, LogTypes, ChoiceOK, UploadTypes
  <2>2. QueueTypes' /\ FlushAtHead'
    BY <1>a, <1>2, <1>n DEF Log!TimerFires, Log!UploadFlush
  <2>3. AlarmTypes'
    BY <1>2 DEF Log!TimerFires, LogTypes, AlarmTypes
  <2> QED BY <1>c, <1>g, <1>h, <1>2, <2>1, <2>2, <2>3 DEF Log!TimerFires, LogTypes
<1>3. CASE Log!UploadEnds
  <2>1. PICK left \in BOOLEAN : Log!Finish(left) /\ (UNCHANGED mishaps \/ Log!Fault)
    <3>1. (upload.left /\ Log!IsCurrent(upload.revision)) \in BOOLEAN
      BY DEF Log!IsCurrent
    <3> QED BY <1>3, <3>1 DEF Log!UploadEnds
  <2>2. UploadTypes' /\ AlarmTypes'
    BY <1>j, <2>1
    DEF Log!Finish, LogTypes, UploadTypes, AlarmTypes, Log!schedulerVars
  <2>3. CountTypes'
    BY <1>h, <1>i, <1>3, <2>1 DEF Log!UploadEnds
  <2> QED BY <1>c, <1>d, <1>g, <1>3, <2>2, <2>3 DEF Log!UploadEnds, LogTypes
<1>4. CASE Log!RecordEvent
  <2>1. CountTypes' /\ QueueTypes' /\ FlushAtHead'
    <3>1. recorded + 1 \in 0 .. Records + 1
      BY <1>a DEF LogTypes, CountTypes
    <3> QED BY <1>i, <1>n, <1>4, <3>1 DEF Log!RecordEvent
  <2> QED BY <1>c, <1>e, <1>f, <1>g, <1>4, <2>1 DEF Log!RecordEvent, LogTypes
<1>5. CASE Log!Write
  <2> DEFINE r == Head(disk)
  <2>1. /\ r \in Log!Record /\ disk # <<>>
        /\ disk' = IF r \in Errors THEN Append(Tail(disk), Log!StepFlush)
                   ELSE Tail(disk)
        /\ \/ /\ rows' = rows \cup {r} /\ era' = [era EXCEPT ![r] = revision]
              /\ Log!Notify(r)
           \/ UNCHANGED <<rows, era, alarm, counter>>
        /\ untold' \in {untold, untold \cup {r}}
        /\ UNCHANGED <<on, revision, granting, mounted, batch, upload, leaked,
                      crossed, recorded, mishaps>>
    BY <1>5 DEF Log!Write, Log!AtHead, Log!schedulerVars, Log!consentVars
  <2>2. batch.phase = "none"
    BY <1>a, <1>b, <2>1
    DEF LogTypes, FlushAtHead, Log!AtHead, Log!UploadFlush, Log!StepFlush
  <2> HIDE DEF r
  <2>3. disk' \in Seq(0 .. Records + 1)
    BY <1>k, <2>1
  <2>4. QueueTypes' /\ FlushAtHead'
    BY <2>1, <2>2, <2>3 DEF LogTypes, ChoiceOK, QueueTypes, FlushAtHead
  <2>5. AlarmTypes'
    <3>1. CASE Log!Notify(r)
      <4>1. counter' \in Nat
        BY <3>1 DEF LogTypes, AlarmTypes, Log!Notify
      <4>2. alarm' = alarm \/ alarm' = ~Log!InFlight
        BY <3>1 DEF Log!Notify
      <4>3. alarm' \in BOOLEAN
        BY <4>2 DEF LogTypes, AlarmTypes, Log!InFlight
      <4> QED BY <4>1, <4>3 DEF AlarmTypes
    <3>2. CASE UNCHANGED <<alarm, counter>>
      BY <3>2 DEF LogTypes, AlarmTypes
    <3> QED BY <2>1, <3>1, <3>2
  <2>6. HistoryTypes'
    BY <2>1 DEF LogTypes, HistoryTypes
  <2> QED BY <1>c, <1>e, <1>h, <2>1, <2>4, <2>5, <2>6 DEF LogTypes, Log!consentVars
<1>6. CASE Log!FlushReads
  <2>1. QueueTypes' /\ FlushAtHead' /\ UploadTypes'
    <3>1. CASE \E left \in BOOLEAN : Log!FlushReturns(left)
      BY <1>6, <1>m, <3>1 DEF Log!FlushReads, Log!AtHead
    <3>2. CASE ~ \E left \in BOOLEAN : Log!FlushReturns(left)
      <4>1. /\ batch' = [phase |-> "read", recs |-> Log!Oldest, revision |-> 0]
            /\ UNCHANGED <<rows, era, disk, upload>>
            /\ Log!AtHead({Log!UploadFlush, Log!StepFlush})
        BY <1>6, <3>2 DEF Log!FlushReads
      <4>2. Log!Oldest \subseteq Log!Record
        BY DEF Log!Oldest, LogTypes, QueueTypes
      <4> HIDE DEF Log!Oldest
      <4> QED BY <1>b, <1>e, <1>o, <4>1, <4>2
    <3> QED BY <3>1, <3>2
  <2> QED BY <1>c, <1>f, <1>g, <1>h, <1>6, <2>1 DEF Log!FlushReads, LogTypes
<1>7. CASE Log!FlushSends
  <2>1. QueueTypes' /\ FlushAtHead' /\ UploadTypes'
    <3>1. CASE \E left \in BOOLEAN : Log!FlushReturns(left)
      BY <1>7, <1>m, <1>p, <3>1 DEF Log!FlushSends
    <3>2. CASE ~ \E left \in BOOLEAN : Log!FlushReturns(left)
      <4>1. /\ batch' = [batch EXCEPT !.phase = "sent", !.revision = revision]
            /\ UNCHANGED <<rows, era, disk, upload>> /\ batch.phase # "none"
        BY <1>7, <3>2 DEF Log!FlushSends
      <4>2. batch' \in [phase : {"none", "read", "sent"}, recs : SUBSET Log!Record,
                        revision : Log!Revision]
        BY <4>1 DEF LogTypes, ChoiceOK, QueueTypes
      <4> QED BY <1>e, <1>o, <4>1, <4>2
    <3> QED BY <3>1, <3>2
  <2> QED BY <1>c, <1>f, <1>g, <1>h, <1>7, <2>1 DEF Log!FlushSends, LogTypes
<1>8. CASE Log!FlushAnswered
  <2>1. /\ batch.phase = "sent" /\ rows' \in SUBSET rows
        /\ \E left \in BOOLEAN : Log!FlushReturns(left)
        /\ UNCHANGED <<era, crossed, untold, recorded>>
        /\ UNCHANGED mishaps \/ Log!Fault
        /\ \/ UNCHANGED leaked
           \/ leaked' = leaked \cup {q \in batch.recs : era[q] # revision}
        /\ UNCHANGED Log!consentVars /\ UNCHANGED Log!schedulerVars
    <3>1. (rows' # {}) \in BOOLEAN /\ (rows # {}) \in BOOLEAN
      OBVIOUS
    <3> QED BY <1>8, <3>1 DEF Log!FlushAnswered, Log!Submitted
  <2>2. QueueTypes' /\ FlushAtHead' /\ UploadTypes'
    BY <1>m, <1>p, <2>1
  <2>3. HistoryTypes'
    BY <2>1 DEF LogTypes, QueueTypes, HistoryTypes
  <2>4. CountTypes'
    BY <1>h, <1>i, <2>1
  <2> QED BY <1>c, <1>f, <2>1, <2>2, <2>3, <2>4 DEF LogTypes
<1>9. CASE Log!FlushFails
  <2>1. QueueTypes' /\ FlushAtHead' /\ UploadTypes'
    BY <1>9, <1>m DEF Log!FlushFails, Log!AtHead
  <2>2. HistoryTypes'
    BY <1>9 DEF Log!FlushFails, LogTypes, QueueTypes, HistoryTypes
  <2>3. CountTypes'
    BY <1>9, <1>i DEF Log!FlushFails
  <2> QED BY <1>c, <1>f, <1>9, <2>1, <2>2, <2>3 DEF Log!FlushFails, LogTypes
<1>10. CASE Log!Grant
  <2>1. ChoiceOK'
    BY <1>b, <1>10 DEF Log!Grant, LogTypes, ChoiceOK
  <2> QED BY <1>d, <1>e, <1>f, <1>g, <1>h, <1>10, <2>1 DEF Log!Grant, LogTypes
<1>11. CASE Log!GrantStored
  <2>1. CASE granting = revision
    <3>1. /\ on' = TRUE /\ Log!Mount(revision) /\ granting' = 0 /\ granting # 0
          /\ disk' = Append(disk, recorded + 1)
          /\ UNCHANGED <<revision, rows, era, batch, upload, leaked, crossed,
                        untold, mishaps>>
      BY <1>11, <2>1 DEF Log!GrantStored
    <3>2. revision \in Log!Revision
      BY DEF LogTypes, ChoiceOK
    <3>3. AlarmTypes' /\ CountTypes' /\ mounted' \in Log!Revision
          /\ recorded + 1 \in 0 .. Records + 1
      BY <1>q, <3>1, <3>2
    <3>4. ChoiceOK'
      BY <1>b, <2>1, <3>1, <3>3 DEF LogTypes, ChoiceOK
    <3> QED BY <1>e, <1>g, <1>n, <3>1, <3>3, <3>4 DEF LogTypes
  <2>2. CASE granting # revision
    <3>1. ChoiceOK'
      BY <1>b, <1>11, <2>2 DEF Log!GrantStored, LogTypes, ChoiceOK
    <3> QED BY <1>d, <1>e, <1>f, <1>g, <1>h, <1>11, <2>2, <3>1
            DEF Log!GrantStored, LogTypes, Log!queueVars
  <2> QED BY <2>1, <2>2
<1>12. CASE Log!Revoke
  <2>1. ChoiceOK'
    <3>1. /\ on' = FALSE /\ revision' = revision + 1 /\ mounted' = 0
          /\ granting' = granting
          /\ on \/ (granting # 0 /\ granting = revision)
      BY <1>12 DEF Log!Revoke
    <3>2. revision < 2 * MaxGrants
      BY <3>1 DEF LogTypes, ChoiceOK
    <3>3. /\ revision' \in Log!Revision /\ granting' \in Log!Revision
          /\ mounted' \in Log!Revision /\ granting' <= revision'
          /\ granting' # revision'
      BY <1>b, <3>1, <3>2 DEF LogTypes, ChoiceOK
    <3> QED BY <3>1, <3>3 DEF ChoiceOK
  <2>2. QueueTypes' /\ FlushAtHead'
    BY <1>12 DEF Log!Revoke, LogTypes, QueueTypes, FlushAtHead, Log!AtHead
  <2>3. AlarmTypes'
    BY <1>12 DEF Log!Revoke, AlarmTypes
  <2>4. HistoryTypes'
    BY <1>12 DEF Log!Revoke, LogTypes, QueueTypes, HistoryTypes
  <2> QED BY <1>e, <1>h, <1>12, <2>1, <2>2, <2>3, <2>4 DEF Log!Revoke, LogTypes
<1>13. CASE Log!Crash
  <2>1. /\ rows' = rows /\ era' = era /\ batch' = Log!NoBatch
        /\ upload' = Log!NoUpload /\ granting' = 0 /\ Log!Fault
        /\ UNCHANGED <<on, revision, leaked, crossed, untold>>
        /\ \/ Log!Mount(revision) /\ disk' = <<recorded + 1>>
           \/ disk' = <<>> /\ UNCHANGED <<mounted, alarm, counter, recorded>>
    BY <1>13 DEF Log!Crash, Log!schedulerVars
  <2>2. /\ disk' \in Seq(0 .. Records + 1) /\ mounted' \in Log!Revision
        /\ AlarmTypes' /\ recorded' \in 0 .. Records
    <3>1. CASE Log!Mount(revision) /\ disk' = <<recorded + 1>>
      <4>1. /\ recorded < Records /\ recorded' = recorded + 1
            /\ mounted' = revision /\ alarm' = FALSE /\ counter' = 0
        BY <3>1 DEF Log!Mount
      <4>2. recorded + 1 \in 0 .. Records /\ recorded + 1 \in 0 .. Records + 1
        BY <1>a, <4>1 DEF LogTypes, CountTypes
      <4> QED BY <1>l, <3>1, <4>1, <4>2 DEF LogTypes, ChoiceOK, AlarmTypes
    <3>2. CASE disk' = <<>> /\ UNCHANGED <<mounted, alarm, counter, recorded>>
      BY <3>2 DEF LogTypes, ChoiceOK, AlarmTypes, CountTypes
    <3> QED BY <2>1, <3>1, <3>2
  <2>3. QueueTypes' /\ FlushAtHead'
    BY <1>j, <2>1, <2>2 DEF LogTypes, QueueTypes, FlushAtHead, Log!NoBatch
  <2>4. CountTypes'
    BY <1>a, <2>1, <2>2 DEF LogTypes, CountTypes, Log!Fault
  <2>5. ChoiceOK'
    BY <1>b, <2>1, <2>2 DEF LogTypes, ChoiceOK
  <2> QED BY <1>g, <1>j, <2>1, <2>2, <2>3, <2>4, <2>5 DEF LogTypes, UploadTypes
<1> QED
  BY <1>1, <1>2, <1>3, <1>4, <1>5, <1>6, <1>7, <1>8, <1>9, <1>10, <1>11, <1>12,
     <1>13 DEF Log!Next, Log!Internal

LEMMA CallsCounted ==
  ASSUME calls \in 0 .. MaxCalls, [Decision!Next]_(Decision!vars)
  PROVE  calls' \in 0 .. MaxCalls
<1>1. MaxCalls \in Nat
  BY DecisionAssumption DEF Decision!CoordinationAssumption
<1>2. UNCHANGED calls \/ Decision!Call
  BY DEF Decision!Next, Decision!vars, Decision!requestVars, Decision!Create,
     Decision!Begin, Decision!Client, Decision!Respond,
     Decision!Override, Decision!Cancel, Decision!Raise, Decision!Close,
     Decision!Scheduler, Decision!Run, Decision!Resolve, Decision!Settle,
     Decision!Commit, Decision!Die, Decision!Waiting, Decision!Acquire,
     Decision!Victim, Decision!Edit, Decision!Edited, Decision!Move,
     Decision!Passes
<1> QED BY <1>1, <1>2 DEF Decision!Call

(* Each part keeps the shape of its state: a choice of consent leaves a    *)
(* number for its withdrawal, and a flush that has read a batch is still   *)
(* the one at the head of the lane.                                        *)
THEOREM WorkTypes ==
  Spec => [](/\ Journey!TypeOK /\ Scheduler!TypeOK /\ Decision!TypeOK
             /\ Log!TypeOK)
<1>1. Spec => []Journey!TypeOK
  BY JourneyOf, WorkAssumption, Journey!JourneyTypes, PTL
<1>2. Spec => []Scheduler!TypeOK
  <2>1. Scheduler!Init => Scheduler!TypeOK
    BY SchedulerInit DEF SchedulerInv
  <2>2. Scheduler!TypeOK /\ [Scheduler!Next]_(Scheduler!vars) => Scheduler!TypeOK'
    BY SchedulerTypes
  <2> QED BY <2>1, <2>2, SchedulerOf, PTL
<1>3. Spec => []Decision!TypeOK
  <2> DEFINE Inv == DecisionInv /\ calls \in 0 .. MaxCalls
  <2>1. Decision!Init => Inv
    BY DecisionInit, DecisionAssumption
    DEF Decision!Init, Decision!CoordinationAssumption
  <2>2. Inv /\ [Decision!Next]_(Decision!vars) => Inv'
    BY DecisionNext, CallsCounted
  <2>3. Inv => Decision!TypeOK
    <3>1. overdue \in Seq(Requests) => Decision!Range(overdue) \subseteq Requests
      BY DEF Decision!Range
    <3> QED BY <3>1 DEF DecisionInv, DataShape, TxShape, Decision!TypeOK
  <2> QED BY <2>1, <2>2, <2>3, DecisionOf, PTL
<1>4. Spec => []Log!TypeOK
  <2>1. ASSUME Log!Init PROVE LogTypes
    <3>1. /\ Records \in Nat /\ MaxGrants \in Nat /\ MaxLogFaults \in Nat
          /\ 0 \in Log!Revision
      BY WorkAssumption DEF Log!LogAssumption, Log!Revision
    <3>2. /\ on = FALSE /\ revision = 0 /\ granting = 0 /\ mounted = 0
          /\ rows = {} /\ era = [r \in Log!Record |-> 0] /\ disk = <<>>
          /\ batch = Log!NoBatch /\ upload = Log!NoUpload
          /\ alarm = FALSE /\ counter = 0
          /\ leaked = {} /\ crossed = {} /\ untold = {}
          /\ recorded = 0 /\ mishaps = 0
      BY <2>1 DEF Log!Init
    <3>3. ChoiceOK
      <4>1. on \in BOOLEAN /\ ~(on \/ (granting # 0 /\ granting = revision))
        BY <3>2, Zenon
      <4>2. granting <= revision
        BY <3>2
      <4> QED BY <3>1, <3>2, <4>1, <4>2 DEF ChoiceOK
    <3>4. QueueTypes /\ FlushAtHead
      BY <3>1, <3>2 DEF QueueTypes, FlushAtHead, Log!NoBatch
    <3>5. UploadTypes
      BY <3>1, <3>2 DEF UploadTypes, Log!NoUpload
    <3>6. alarm \in BOOLEAN
      BY <3>2, Zenon
    <3>7. counter \in Nat /\ HistoryTypes /\ CountTypes
      BY <3>1, <3>2 DEF HistoryTypes, CountTypes
    <3> QED BY <3>3, <3>4, <3>5, <3>6, <3>7 DEF LogTypes, AlarmTypes
  <2>2. LogTypes /\ [Log!Next]_(Log!vars) => LogTypes'
    BY LogTyped
  <2>3. LogTypes => Log!TypeOK
    BY DEF LogTypes, ChoiceOK, QueueTypes, UploadTypes, AlarmTypes,
           HistoryTypes, CountTypes, Log!TypeOK
  <2> QED BY <2>1, <2>2, <2>3, LogOf, PTL
<1> QED BY <1>1, <1>2, <1>3, <1>4, PTL

=============================================================================
