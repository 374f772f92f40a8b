--------------------------- MODULE SyncScheduler ---------------------------
(***************************************************************************)
(* Who wakes up the operation outbox.  Three callers want exchanges with   *)
(* the server: the foreground worker of coreSyncScheduler, the "kick" that *)
(* follows every enqueue, and the snapshot poll of the map.  syncGroup     *)
(* lets a caller that asks for the same thing join the exchange in flight  *)
(* instead of starting another, so a caller may be answered by a flush     *)
(* that read the queue before the caller's row was in it.                  *)
(*                                                                         *)
(* The queue is abstracted to one lane of rows, executed in order; time is *)
(* abstracted to timers that are set or not, so the delays of 500 ms, 30 s *)
(* and the exponential ones are the same here.                             *)
(***************************************************************************)
EXTENDS Naturals

CONSTANTS
  Rows,        \* rows 1 .. Rows are enqueued in this order
  MaxFailures, \* bound: exchanges that fail or are answered "retry"
  MaxPauses,   \* bound: times the app goes to the background
  MaxPolls     \* bound: snapshot polls and returns of connectivity

SchedulerAssumption ==
  Rows \in Nat /\ MaxFailures \in Nat /\ MaxPauses \in Nat /\ MaxPolls \in Nat

VARIABLES
  row,         \* "absent", "open" (eligible), "backoff", "done"
  kicks,       \* rows whose kick has not asked for an exchange yet
  active, timer, worker,                  \* the scheduler
  wakeRequested, emptyWakeFlushConsumed,
  flight,      \* the exchange of the lane in flight
  unseen,      \* history: rows inserted after the count of that flight
  failures, pauses, polls

queueVars == <<row, kicks, unseen>>
schedulerVars == <<timer, worker, wakeRequested, emptyWakeFlushConsumed>>
bounds == <<failures, pauses, polls>>
vars == <<queueVars, active, schedulerVars, flight, bounds>>

Row == 1 .. Rows
NoFlight == [phase |-> "none", batch |-> {}, remaining |-> FALSE, ok |-> TRUE]

TypeOK ==
  /\ row \in [Row -> {"absent", "open", "backoff", "done"}]
  /\ kicks \subseteq Row /\ unseen \subseteq Row
  /\ active \in BOOLEAN /\ timer \in BOOLEAN
  /\ wakeRequested \in BOOLEAN /\ emptyWakeFlushConsumed \in BOOLEAN
  /\ worker \in {"idle", "list", "joined"}
  /\ flight \in [phase : {"none", "select", "exchange", "count", "close"},
                 batch : SUBSET Row, remaining : BOOLEAN, ok : BOOLEAN]
  /\ failures \in 0 .. MaxFailures
  /\ pauses \in 0 .. MaxPauses
  /\ polls \in 0 .. MaxPolls

(* startCoreSyncRuntime wakes the scheduler it creates, which sets no timer *)
(* while the app is in the background.                                     *)
Init ==
  /\ row = [r \in Row |-> "absent"]
  /\ kicks = {} /\ unseen = {}
  /\ active \in BOOLEAN /\ timer = active /\ worker = "idle"
  /\ wakeRequested = FALSE /\ emptyWakeFlushConsumed = FALSE
  /\ flight = NoFlight
  /\ failures = 0 /\ pauses = 0 /\ polls = 0

Queued == {r \in Row : row[r] \in {"open", "backoff"}}
Running == worker # "idle"

-----------------------------------------------------------------------------
(* The scheduler. *)

(* wake(): a running worker remembers it, an idle one sets its timer. *)
Wake ==
  \/ /\ Running
     /\ wakeRequested' = TRUE
     /\ UNCHANGED <<timer, worker, emptyWakeFlushConsumed>>
  \/ /\ ~Running
     /\ emptyWakeFlushConsumed' = FALSE /\ timer' = active
     /\ UNCHANGED <<worker, wakeRequested>>

(* Mutant: a failed exchange does not set the timer again. *)
FinishForgetful(ok, remaining) ==
  LET again == ok /\ (remaining \/ wakeRequested) IN
    /\ worker' = "idle" /\ wakeRequested' = FALSE
    /\ timer' = (active /\ again)
    /\ emptyWakeFlushConsumed' = (ok /\ ~remaining /\ wakeRequested)

(* The finally block of run(): an error or remaining rows set the timer; a *)
(* wake during a run that drained the queue is worth one more run, unless  *)
(* this run was that one.                                                  *)
Finish(ok, remaining) ==
  LET later == ~ok \/ remaining
      followUp == ~later /\ wakeRequested /\ ~emptyWakeFlushConsumed
  IN
    /\ worker' = "idle" /\ wakeRequested' = FALSE
    /\ timer' = (active /\ (later \/ followUp))
    /\ emptyWakeFlushConsumed' =
         IF ~ok THEN emptyWakeFlushConsumed ELSE followUp

(* The connection comes back: the runtime wakes the scheduler. *)
Reconnect ==
  /\ polls < MaxPolls /\ polls' = polls + 1
  /\ Wake
  /\ UNCHANGED <<queueVars, active, flight, failures, pauses>>

TimerFires ==
  /\ timer
  /\ timer' = FALSE /\ worker' = "list"
  /\ UNCHANGED <<queueVars, active, wakeRequested, emptyWakeFlushConsumed,
                 flight, bounds>>

Background ==
  /\ active /\ pauses < MaxPauses
  /\ active' = FALSE /\ timer' = FALSE /\ pauses' = pauses + 1
  /\ UNCHANGED <<queueVars, worker, wakeRequested, emptyWakeFlushConsumed,
                 flight, failures, polls>>

(* Mutant: the return to the foreground is taken for no reason to look. *)
ForegroundSilent ==
  /\ ~active
  /\ active' = TRUE /\ timer' = FALSE
  /\ UNCHANGED <<queueVars, worker, wakeRequested, emptyWakeFlushConsumed,
                 flight, bounds>>

Foreground ==
  /\ ~active
  /\ active' = TRUE /\ timer' = ~Running
  /\ UNCHANGED <<queueVars, worker, wakeRequested, emptyWakeFlushConsumed,
                 flight, bounds>>

-----------------------------------------------------------------------------
(* syncGroup: join the flight of the lane or start it. *)

Join ==
  flight' = IF flight.phase = "none" THEN [NoFlight EXCEPT !.phase = "select"]
            ELSE flight

(* syncQueuedGroups asks which groups have open rows; without any the      *)
(* worker's run is over.                                                   *)
WorkerLists ==
  /\ worker = "list"
  /\ \/ /\ Queued # {} /\ Join
        /\ worker' = "joined"
        /\ UNCHANGED <<timer, wakeRequested, emptyWakeFlushConsumed>>
     \/ /\ Queued = {} /\ Finish(TRUE, FALSE)
        /\ UNCHANGED flight
  /\ UNCHANGED <<queueVars, active, bounds>>

KickLists(r) ==
  /\ r \in kicks /\ kicks' = kicks \ {r}
  /\ IF Queued # {} THEN Join ELSE UNCHANGED flight
  /\ UNCHANGED <<row, unseen, active, schedulerVars, bounds>>

(* getGroupRecoverySnapshot asks for the same exchange as a kick does. *)
Poll ==
  /\ polls < MaxPolls /\ polls' = polls + 1
  /\ Join
  /\ UNCHANGED <<queueVars, active, schedulerVars, failures, pauses>>

-----------------------------------------------------------------------------
(* The queue and the flight. *)

(* The row is in the outbox before its notification and its kick. *)
Enqueue(r) ==
  /\ row[r] = "absent" /\ \A p \in 1 .. (r - 1) : row[p] # "absent"
  /\ row' = [row EXCEPT ![r] = "open"]
  /\ kicks' = kicks \cup {r}
  /\ unseen' = IF flight.phase = "close" THEN unseen \cup {r} ELSE unseen
  /\ Wake
  /\ UNCHANGED <<active, flight, bounds>>

BackoffElapsed(r) ==
  /\ row[r] = "backoff"
  /\ row' = [row EXCEPT ![r] = "open"]
  /\ UNCHANGED <<kicks, unseen, active, schedulerVars, flight, bounds>>

(* The prefix of eligible rows; an empty one goes straight to the count. *)
Select ==
  /\ flight.phase = "select"
  /\ LET batch == {r \in Row : row[r] = "open"
                               /\ \A p \in 1 .. r : row[p] # "backoff"}
     IN flight' = [flight EXCEPT !.batch = batch,
                     !.phase = IF batch = {} THEN "count" ELSE "exchange"]
  /\ UNCHANGED <<queueVars, active, schedulerVars, bounds>>

(* The batch is delivered; or the exchange fails, which the flush survives *)
(* and its callers do not; or the first row is to be tried again.  Each    *)
(* way the flush notifies the scheduler.                                   *)
Exchange ==
  /\ flight.phase = "exchange"
  /\ \/ /\ row' = [r \in Row |-> IF r \in flight.batch THEN "done" ELSE row[r]]
        /\ flight' = [flight EXCEPT !.phase = "count"]
        /\ UNCHANGED failures
     \/ /\ failures < MaxFailures /\ failures' = failures + 1
        /\ \E first \in flight.batch :
             /\ \A r \in flight.batch : first <= r
             /\ row' = [row EXCEPT ![first] = "backoff"]
        /\ \E ok \in BOOLEAN :
             flight' = [flight EXCEPT !.phase = "count", !.ok = ok]
  /\ Wake
  /\ UNCHANGED <<kicks, unseen, active, pauses, polls>>

(* flush counts what remains and returns. *)
Count ==
  /\ flight.phase = "count"
  /\ flight' = [flight EXCEPT !.phase = "close", !.remaining = Queued # {}]
  /\ UNCHANGED <<queueVars, active, schedulerVars, bounds>>

(* syncGroup goes on after its flush: an exchange without operations if    *)
(* none was selected, the account check, the listeners.  Only then does    *)
(* the flight end and its callers, the worker among them, get its result.  *)
Close ==
  /\ flight.phase = "close"
  /\ \E failed \in BOOLEAN :
       /\ failed => flight.batch = {} /\ failures < MaxFailures
       /\ failures' = IF failed THEN failures + 1 ELSE failures
       /\ IF worker = "joined"
          THEN Finish(flight.ok /\ ~failed, flight.remaining)
          ELSE UNCHANGED schedulerVars
  /\ flight' = NoFlight
  /\ UNCHANGED <<queueVars, active, pauses, polls>>

Internal ==
  \/ TimerFires \/ WorkerLists \/ Select \/ Exchange \/ Count \/ Close
  \/ \E r \in Row : KickLists(r)

Next ==
  \/ Internal \/ Background \/ Foreground \/ Poll \/ Reconnect
  \/ \E r \in Row : Enqueue(r) \/ BackoffElapsed(r)

Spec == Init /\ [][Next]_vars

(* Timers fire, promises settle and backoffs elapse; enqueues, polls and   *)
(* the app's life cycle owe nothing.                                       *)
Fairness ==
  /\ WF_vars(TimerFires) /\ WF_vars(WorkerLists) /\ WF_vars(Select)
  /\ WF_vars(Exchange) /\ WF_vars(Count) /\ WF_vars(Close)
  /\ \A r \in Row : WF_vars(KickLists(r)) /\ WF_vars(BackoffElapsed(r))

FairSpec == Spec /\ Fairness

-----------------------------------------------------------------------------
(* Properties *)

Asleep == active /\ ~timer /\ ~Running /\ flight.phase = "none" /\ kicks = {}

(* The scheduler goes to sleep in the foreground only when every row still *)
(* queued was inserted behind the back of a flight that had already        *)
(* counted: failures, joined flights and pauses alone lose no wake-up.     *)
SleepsDrained == Asleep => Queued \subseteq unseen

(* A row that was not inserted behind a count is delivered, over failures  *)
(* and backoffs, as long as the app stays in the foreground.               *)
DrainsCounted ==
  \A r \in Row : (r \in Queued /\ r \notin unseen /\ active)
                 ~> (row[r] = "done" \/ ~active)

(* "Allow one follow-up read to catch work inserted during it": every row  *)
(* inserted while the app stays in the foreground is delivered, without    *)
(* waiting for another poll, enqueue or return to the foreground.          *)
Drains ==
  \A r \in Row : (r \in Queued /\ active) ~> (row[r] = "done" \/ ~active)

=============================================================================
