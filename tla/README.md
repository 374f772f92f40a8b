# Hither: a verification project for the client core and its server contracts

Hither is a mobile app (React Native, `apps/mobile`) for groups that travel
together, with a Postgres backend (`supabase`). Everything a member does (add a
stop, start a gathering, record an arrival) is written to SQLite first and sent
later; positions are captured in the background and sent in batches; sessions,
push tokens, logs and purchases each have a small protocol of their own between
the device, its storage, the platform and the server. What makes the program
hard is what happens in between: the phone is offline, the process is killed,
the account changes, answers are lost, and several callers share one exchange.

The modules here model that core. TLC checks them on small instances. TLAPS
proves, for every instance, each safety property its runs find to hold: of the
operation outbox, location outbox, session, push tokens, passes, background
task, scheduler, log upload, coordination requests and the card of a group. What
is left to TLC alone is liveness.

    tlc -config core_faults.cfg MCCoreOutbox     # a run
    tlapm CoreOutboxProofs.tla                   # the proofs of a module

## 1. Inventory

Paths are relative to `apps/mobile/src` unless they start with `supabase`.

| Component | State | Operations | Made correct by |
| --- | --- | --- | --- |
| Core operation outbox (`state/coreOperationOutbox.ts`) | `core_operations` rows (status, attempts, next attempt, dependencies, sequence), serial command lane, serial transport lane | enqueue, promoted start, compaction, retry, abort, discard, recreate, flush | nothing lost, nothing applied twice, causal and lane order, the right account, every row settled in the end |
| Group exchange (`state/groupSync.ts`, `api/services/GroupSyncService.ts`) | flights per lane and request | `syncGroup`, `syncQueuedGroups`, `exchangeGroup` | one answer handled once, by the account it was asked for; no caller satisfied by a flush that could not see its row |
| Server ledger (`sync_group`, `apply_core_operation_actor` in `supabase/migrations`) | receipts, the journey tables | apply, replay, gate on prerequisites, roll back one operation | idempotence, order within a batch |
| Scheduler and runtime (`state/coreSyncScheduler.ts`, `coreSyncRuntime.ts`) | active, running, timer, wake flag, follow-up flag | wake, run, foreground, background | never asleep over work |
| Data sync wiring (`state/coreDataSync.ts`) | none of its own | kicks after enqueue, projections, abort of a start | kick and wake after the row is durable; drafts stay with their author |
| Location outbox (`state/locationOutbox.ts`, `locationPrivacy.ts`) and `ingest_location_batch` | samples, serial lane, access generation, consent; stored events and newest position | capture, label, enqueue, exchange, purge, revoke | nothing sent without consent, nothing kept after revocation, positions only move forward |
| Core snapshot store (`state/coreDataStore.ts`, `coreOperationProjection.ts`, `itineraryRollback.ts`) | the card of a group, its owner, revision and applied operations | save a recovery, apply a receipt, refuse, roll back, project | local intent not overwritten by an older remote read; no draft of another account |
| Group state loading (`state/useGroupState.ts`) | shared load in flight, revisions, generation, painted view | load, reload, poll, Realtime events, paint the stored card | a stale load never installs itself; the view converges |
| Background journey (`state/backgroundJourneyController.ts`, `backgroundJourney.ts`) | epoch, native task, stored configuration, access | start, stop, update, restore | the native task runs exactly when tracking is wanted, with the stored profile |
| Session (`state/SessionContext.tsx`, `api/authStorage.ts`) | signed-in account, stored credential, tombstones | adopt, refresh, sign out | no previous credential comes back; an account never reaches another's rows |
| Authentication recovery (`api/authRecovery.ts`, `supabaseAuthRecoveryAdapter.ts`) | refresh in flight | refresh once, replay once, invalidate | a stale rejection never signs out a newer session |
| Installation capabilities and live activity (`api/installationCapabilities.ts`, `utils/liveActivityTokenGate.ts`, `state/useLiveActivity.ts`, `supabase`) | token, gate, chain of writes, fence; registrations and revoked sessions on the server | register, toggle, change account, revoke | no registration outlives a sign-out; at rest the server has what the preference says |
| Diagnostics (`state/logBatchScheduler.ts`, `diagnostics.ts`, `diagnosticConsent.ts`) | consent and its revision, pending rows, serial lane, timer, upload in flight | notify, flush, grant, revoke | sent only inside a consent; no row left without a timer |
| Premium purchases (`services/premiumPurchaseFlow.ts`, `native/purchases.ts`, `supabase`) | settlements in flight, store transactions; passes, notifications and the slot of a group | buy, recover, settle; grant, refund, reverse, revoke, expire, redeem | what is refunded does not serve, what is paid is granted, what is finished was granted |
| Gathering and arrivals (`utils/activeGatheringState.ts`, `state/arrivalSync.ts`, `utils/navigationArrival.ts`) | derived sessions and arrivals | merge local and remote | corrections survive automatic arrivals |
| Rewarded ads (`native/rewardedAds.ts` and the token store) | generation, phase, tokens | load, show, reward | one reward per token |
| Coordination requests (`supabase`) | requests, responses, itinerary log, row and group locks | create, respond, override, cancel, close at the deadline | decided once, on the votes recorded; closed after the deadline, over deadlocks and failed runs |
| Team gathering, sign-in screens, push, UI, native projects, web site, CI | derived or none | presentation and pure I/O | unit tests |

How they interact: a command enqueues a row, projects it on the stored card,
notifies the scheduler and kicks `syncGroup`. A flight of `syncGroup` runs one
outbox flush, whose batch travels with the due location samples in one
`sync_group` transaction; the answers are handled row by row under the writer
lock that commands take too, and the recovery that comes with them is handed to
the group state. The snapshot poll of the map goes through the same `syncGroup`,
hence the same flights. A change of account raises a fence for the writes of
capabilities, replaces the credential, and reaches the hooks through
`onAuthStateChange`; the location outbox and the background task hear of it
through the access generation.

What is hard here: every `await` is an interleaving point; the server may have
committed what the client believes failed; the kill of the process leaves rows
`inflight`, a native task running and a transaction unfinished; and a caller may
be answered by a flight that started before its work existed. `PROJECT.json`
lists the hazards, each at its line with the properties that would catch it.

## 2. Modules

| Module | Models | |
| --- | --- | --- |
| `CoreLedger` | the ledger and the loop of `sync_group` | component |
| `CoreOutbox` | outbox, exchange and session over the ledger | composition |
| `OperationDelivery` | what the outbox promises | abstract specification |
| `SyncScheduler` | scheduler, kicks, polls and shared flights | component |
| `LocationOutbox` | privacy generations, location outbox, exchange, ingestion | composition |
| `GroupSnapshot` | the stored card, its projections, the reload machine and the exchange that answers both | composition |
| `BackgroundJourney` | controller, native task, callback of samples, access | component |
| `AuthSession` | credential storage, shared refresh, replay of refused work | component |
| `InstallationCapabilities` | token gate, chain of writes, fence, server guard | composition |
| `DiagnosticsUpload` | consent, serial lane, batch scheduler | component |
| `TripPass` | store, purchase flow, server grant and refunds | composition |
| `CoordinationRequests` | votes, override, cancellation and the deadline scheduler as transactions over locks | component |
| `MCCoreOutbox` | instance for TLC | |
| `MCTransport`, `MCIdentity`, `MCWork` | several components in one run | |
| `CoreOutboxProofs`, `LocationOutboxProofs`, `AuthSessionProofs`, `InstallationCapabilitiesProofs`, `TripPassProofs`, `BackgroundJourneyProofs` | theorems about the module they are named after | proofs |
| `IdentityProofs` | theorems about `MCIdentity`: from those of its parts, and about the card of a group | proofs |
| `WorkProofs` | theorems about `MCWork`: from those of its parts, and about the scheduler, the upload of the log and coordination requests | proofs |

`MCTransport`, `MCIdentity` and `MCWork` do not compose components that
interact: their components share no variable. `part` is chosen in the initial
state, says which component a behaviour is about, and leaves the others where
they started, so that a run explores the sum of the state spaces and one
configuration asks one question (does what waits reach the server; is anything
mixed up between accounts; does work come to an end) of all of them. Components
that do interact are composed inside a module.

### CoreLedger

`receipt[o]` is the ledger row of an operation, `effects[o]` the number of times
its side effects committed (a history variable: the code has no such counter).
What an operation does to the journey is one committed effect, and the checks
that decide on it are a choice among the verdicts they can return: accepted,
a conflict that is final, a conflict that may be replayed (`dependency_missing`,
`unknown`), or `retry` when its sub-block rolled back. Kept is the control:
an accepted receipt answers `duplicate`, a final one answers itself, a
replayable one is tried again, a prerequisite with another receipt closes the
gate, and the loop stops at the first operation it does not accept.

### CoreOutbox

A row is `status`, `code`, `tried` (attempts > 0), `due`, `deps`, `seq`. Time is
abstracted: a backoff sets `due` to FALSE and `BackoffElapsed` ends it. Payloads
are abstracted to three relations the code computes from them: `Prereq` and
`Creates` (`isPrerequisite`, `createsRequiredEntity`), which are constants, and
`Guards`, what the server counts as a prerequisite. One group is modelled
because rows of different groups never meet; a lane is therefore an account.

Commands (`runSerial`) are atomic under the writer lock, except those that read
before they take it: `ChooseStart`/`ChooseConflict` read, and `AbortStart`,
`DiscardConflict`, `RecreateConflict` write what was chosen, with any step of
the transport lane in between. `EnqueuePromoted` inserts the start and the
reorder it implies in one transaction, as the code does.

The transport lane is one flush, split at every `await` where another party may
act. The phase is `pc`:

    idle -StartFlight-> read -ReadRows-> settle -Settle-> select -Select->
    check -CheckAccount-> transmit -Transmit-> wait -Receive-> take
    take -Take-> guard -Guard-> commit -Commit-> take ... Finish -> idle

`session` is read anew at each place where the code asks again
(`currentActorGuard`, `requireUserId`, the credential of the request), and
`flight` is the account remembered by `syncGroup`. `reopened` is a history
variable: the version conflicts a flush has put back into the queue.

The environment executes requests (`Execute`), fails the exchange as a whole
(`Refuse`: by class of error, since the code branches on the class), loses the
answer (`TimeOut`: the request may arrive later, `ExecuteLate`), kills the
process (`Crash`) and changes the account.

### SyncScheduler

The scheduler's five variables (`active`, `timer`, `worker`/`running`,
`wakeRequested`, `emptyWakeFlushConsumed`) with the shared flight of
`syncGroup`: the foreground worker, the kick of an enqueue and the poll join
the flight in progress. A flight selects, exchanges, counts what remains and
closes, each a step; `unseen` is a history variable that holds the rows
inserted after the count of the flight. Delays are abstracted to "a timer is
set". The queue is one lane of rows in order. Connectivity that comes back
(`Reconnect`) wakes the scheduler like an enqueue.

### LocationOutbox

`context`, `consent` and `generation` are the variables of `locationPrivacy`
(`group`, `consent`, `generation`; `foregroundSeen` is folded into `context`,
because a map in the foreground is what sets the context). `Become` is
`setLocationAccessContext` and `setLocationSharingConsent` with
`invalidateAccess` and the purge its listener fires. `wish` and `saved` are the
switch of the preferences in memory and in storage. `generation` does not start
again after a crash, as it does in the code: nothing that captured a generation
survives the process, so the two cannot be told apart.

`lane` is `runSerial` of the outbox with insertions, purges and at most one
exchange. A sample goes `new -> asking -> queued -> row -> sent | lost`; it is
numbered by its capture time. The exchange is split at its awaits:

    idle -StartExchange-> ask -Ask-> queued -Select-> permit -Permit->
    transmit -Transmit-> wait -Execute-> answer -Settle-> idle

The outer check of `exchangeLocationOutbox` and the capture in `syncGroup` run
without an await between them, so `Select` checks and captures in one step.
`adoptActor` runs inside the auth callback, under the lock `requireUserId`
needs, so `ChangeAccount` changes the account and takes the access in one step;
the access token of the request therefore belongs to the account just checked,
or the abort signal has fired. `Ingest` handles the events of a request newest
first, as they are sent: one at most is new enough to be stored, the others are
duplicates or stale. An exchange without samples is not followed further, since
it changes nothing here.

History variables: `capturer` (the account under which a sample was captured),
`revoked` (the generation of the last withdrawal), `slipped` (a purge was lost
with the process or failed).


### GroupSnapshot

The card of one group (`store`), the account it belongs to, and everything that
writes or paints it. An itinerary is a set of items, an operation adds one or
removes the first; versions index the server's `history` and stand for the
revision and the commit timestamp too. `queue` is the serial lane of the store
(`apply`, `check`, `save` requests), `load` the reload machine of
`useGroupState` with its `base` revision, `pending`, `due` and `latest` its
marks, `supplied` the recoveries that wait for the load in flight. `Project`
puts open operations over a card, `Saved`, `Accepted`, `RefusedWith` and
`RefusedBare` are the four writes the code makes of a card. `session` is what
the guard reports, `actor` the account the hook still works for; `mixed` is a
history variable, set when a card is written under another account's name,
`bare` another, set when an operation is written on a card of nobody. A request
of the lane that was superseded, by a newer read or another identity, keeps its
turn and does nothing (`Without`, `Overtaken`), as the serial lane of the store
does not forget it. The receipts of an exchange (`flight.left`) are handled
earliest first.

### BackgroundJourney

The epoch is taken from a clock at once by every start and stop; the work
follows in `jobs`, the lane of the controller, whose head is split at the awaits
between storing a configuration, stopping, starting and rolling back the native
task. `config` and `task` survive `Crash`, access does not. `opening` is
`startBackgroundJourney` up to the controller, `sample` the callback of the
platform. History: `deaf` (a start that ended before it stored anything),
`stuck` (a task the platform would not stop), `stray` (a task that a failed
start left running, until something stops it or a start settles it; it outlives
the process), `torn` (a profile stored and not applied), `mixed` (a write
derived from a superseded configuration), `cold`. A start fails in three ways
(`StartConfirmed`): it was never asked for, the platform refused, or it came too
late and is stopped again (`StopsAgain`), which may fail. `FailsForOwner` and
`FailsForOther` are the two halves of the rollback, each with its storage error.

### AuthSession

A credential is an account and a serial number; `valid` are those the server
still accepts. `slot` is the physical key, `latest`, `pending` and `generation`
what `authStorage` keeps in memory, `queue` its serial writes. `sdk` holds the
lock of the SDK from reading a credential until the answer is stored; `flight`
is the refresh that `authRecovery` shares, which does not take that lock.
`work` is one `withAuthenticatedOperation`, refused and replayed after the
refresh. History: `refused`, `removed` and `lost` (a sign-in shown to the user
and not stored).

### InstallationCapabilities

`gate` and `disk` are the token gate in memory and its note, `writes` the chain
of `writeInstallationCapability`, `blocked` and `generation` its fence, `auth`
the change of session in progress; `rows` and `revoked` are the server's tables
with the rebinding of a token, `late` the requests the client gave up.
History: `orphaned` (sessions lost without a sign-out), `excused` (a wish the
gate skipped while another one was under way).

### DiagnosticsUpload

`revision` is the consent revision, `lane` the serial queue of writes and
flushes, `upload` the request in flight with the revision it was started under,
`timer` and `writes` the scheduler. History: `leaked`, `crossed` (what was sent
outside its consent, and the exception the property names), `untold` (rows the
scheduler was never told of).

### TripPass

The store sells and signs notes about a transaction (`notes`); a settlement
(`jobs`) verifies it on the server, is given a verdict and finishes it at the
store, and may be lost, killed or executed late. `Verdict` is the grant of
`apply_verified_trip_storekit_purchase`: a refund already known, the slot of
the group, the binding of a row that exists. `Accept` and its parts apply a
signed notification, `Revocation` is the latest refund that no reversal
followed. Server procedures are one step, as they hold the locks of the
transaction and of the group until they commit.

### CoordinationRequests

Every RPC is a transaction that takes locks one at a time (`tx[a].need`,
`locks`) and writes when it commits, which its locks make indistinguishable
from writing before. `Begin` locks the request, `Respond`, `Override` and
`Cancel` look at the status only then; `Path` is the order in which
`coordination_apply_outcome` locks the stop, the group (also from the trigger
`bump_core_itinerary_version`, after the stop) and the version lock. `Run`
claims due requests with SKIP LOCKED, `Resolve(r)` and `Settle` are the block
around each request, the earliest first (`IsNext`), and `Commit` writes all of
them at once. `Victim` is the
deadlock detection of the database: the scheduler loses the request it is at,
everybody else the transaction. `due` is the request whose deadline had passed
when the transaction began, which is what `now()` says all through it. `editor` stands for the RPCs that lock the group and then its
stops.

### OperationDelivery

An issued operation waits until it is delivered or abandoned, its effects are
applied at most once, and it is delivered only after they were. The refinement
mapping in `CoreOutbox` (`Fate`) reads it off the rows: a row in any status but
`acked` waits, also one in conflict, because a flush may reopen it and a late
request may still bring it through; a deleted or acknowledged row is delivered
unless the user discarded it.

## 3. Runs

| Run | Instance | Result |
| --- | --- | --- |
| `core_faults` | start, arrival and recreated start of one account, another account on the device; two faults, exchanges refused as a whole for any reason the code tells apart, a sign-out, a late request, batches of two | `TypeOK`, `AppliedOnce`, `NothingLost`, `CausalOrder`, `OwnCredential`, `LapsedForCause` hold |
| `core_commands` | promoted start, abort and discard against the transport lane, one fault, fairness | `LaneOrder`, `ConflictStays`, `KeepsDelivery`, `Settles` hold |
| `transport` | locations: two samples, batches of one, three changes, a fault; one pass, two groups, one notification, two troubles; one operation and one event of a group; fairness | `RowsSettle`, `PaidIsSettled`, `Converges` hold |
| `identity` | two accounts take turns; two samples in one batch, two tokens of which one is foreign, three credentials, two operations and two events of a group, two passes | `TypeOK`; `WithdrawnLeave`, `NewestShown`, `SentIsStored`, `SentUnderConsent`; `NoneAfterSignOut`, `Registered`; `PreviousAccountGone`, `NeverOlder`, `RemovedWereRefused`, `OneAccount`; `DraftsPrivate`, `IntentKept`; `RefundHolds`, `FinishedIsGranted`, `ReversalKept` hold |
| `work` | three starts, stops and changes of access with two faults; two rows, a poll, two failures, a pause; two requests, two calls; four records, two consents; fairness | `TaskIsOwned`, `TaskMatches`, `OffWhenUnwanted`, `ProgressKept`, `ColdTaskStops`; `SleepsDrained`, `DrainsCounted`; `DecidedOnce`, `DueIsClosed`; `SentInConsent`, `RowsLeave` hold |
| `core_abort` | an aborted start whose exchange is under way | `ConflictIsFinal` is violated |
| `core_account` | two accounts, one row | `SettledByOwner` is violated |
| `scheduler_wakeup` | one row, one poll, fairness | `Drains` is violated |
| `auth_signin` | the credentials of `identity` | `SignInKept` is violated |
| `journey_restore` | the background task alone, four requests, one fault | `NothingMixed` is violated |
| `group_reload` | one account, one edit of another member | `HeardIsShown` is violated |
| `group_drafts` | two accounts, two operations | `NoDraftPainted` is violated |

`ConflictStays` is `ConflictIsFinal` for the operations no command aborts: what
`core_abort` refutes for a gathering start holds for all others.

### What the properties say

*Order and delivery.* `AppliedOnce`, `NothingLost`, `CausalOrder`, `LaneOrder`,
`ConflictStays`, `LapsedForCause` and the refinement `KeepsDelivery` are the contract of the
outbox; `Settles`, `DrainsCounted`, `RowsSettle` and `PaidIsSettled` say that
what waits goes through, `SleepsDrained` that nobody sleeps over it.

*Accounts.* `OwnCredential`; `WithdrawnLeave` and `SentUnderConsent` (locations
captured before a withdrawal leave and are not sent), `SentIsStored` and
`NewestShown` (what the outbox deletes as sent is stored, and the position shown
is the newest); `NoneAfterSignOut` and `Registered` (push tokens);
`PreviousAccountGone`, `NeverOlder`, `RemovedWereRefused`, `OneAccount`
(credentials: nothing old comes back, only a refused credential is removed, a
replayed request stays with its account); `DraftsPrivate` and `IntentKept` (the
card of a group).

*Money.* `RefundHolds`, `ReversalKept` (in whatever order the store's notes and
the grant arrive) and `FinishedIsGranted`.

*Ends.* `SentInConsent`, `RowsLeave`; `TaskIsOwned`, `TaskMatches`,
`OffWhenUnwanted`, `ProgressKept`, `ColdTaskStops`; `Converges`.

*Decisions.* `DecidedOnce`: one operation in the log of the group for each
decided request, of the outcome recorded, and a deadline decides what the
members of that moment had voted for. `DueIsClosed`: no deadlock, failed block
or dead run keeps a due request open for good.

### Bounds

Bounds count events the environment injects, never steps of the program. Two
faults are enough for a failure inside the recovery from another (a lost answer,
then a crash during its replay); two sign-outs let the account go and come back
within one exchange; three operations are the smallest set with a prerequisite,
its dependant and a stranger; a batch of two leaves something behind. Three
changes grant, withdraw and grant again. Three credentials are two of one
account and one of the other. Two operations of a group are one that is
receipted while the other stays open. Two passes compete for a slot, two notes
are a refund and its reversal. Two requests and two calls let the scheduler hold
the locks of one while a command or an edit holds what the other needs; two
votes tie. The background task has two faults rather than more requests: its
safety properties are proved for any number of both, and the one that is only
checked, `ColdTaskStops`, has an exception that takes a stop that fails and then
a crash. With everything settled and the bounds used up the system rightly
stops, so deadlock is not checked, except in the four `core_*` runs,
where transport and sign-in never stop.

### Fairness

`FairSpec` of `CoreOutbox` assumes weak fairness of the transport lane as a
whole (timers keep starting flights while rows remain, `coreSyncRuntime`, and a
flush runs to its end), of `Execute` (a request that is not lost is executed)
and of each backoff. Nothing is assumed of sign-in, commands or faults, which
are bounded. `SyncScheduler` assumes that timers fire, promises settle and
backoffs elapse; polls, enqueues and the life cycle of the app owe nothing.
`LocationOutbox` assumes that the tasks of the lane and the steps of an exchange
settle and that exchanges keep being started: the map polls through `syncGroup`
in the foreground, and an exchange that leaves rows sets a retry timer.
That the timers really keep starting flights is what `SyncScheduler` looks at
separately, with the exception `scheduler_wakeup` shows. `TripPass` assumes for
each pass that the app returns to the foreground, where it recovers, and that a
settlement ends. `DiagnosticsUpload` assumes that SQLite and the network answer
and the timer fires; `BackgroundJourney` that the lane of the controller goes
on and the platform keeps delivering samples while the task runs;
`GroupSnapshot` that timers fire, requests are answered, lanes move and the poll
repeats while the group is on the screen (edits, Realtime events and accounts
owe nothing); `CoordinationRequests` that transactions go on, a circle is
noticed, and the job starts again every minute (`cron.schedule`).

### Disagreements found

* **Abort during an exchange** (`core_abort`). The result loop writes `inflight`
  over a row that a command has just marked as a final conflict.
* **Settlement under another account** (`core_account`). The account may change
  between its last check and the write under the lock, and the row is settled
  while another one is signed in. The proof of
  `CommittedByOwner` shows the harm is local: nothing is committed under a
  wrong credential, and `NothingLost` holds regardless.
* **Lost wake-up** (`scheduler_wakeup`). Kick and worker join a flight that has
  counted already; the row waits for the next poll or enqueue.
* **Sign-in fenced by a removal** (`auth_signin`). The removal of a refused
  credential raises the storage generation, and the write of a sign-in that was
  queued meanwhile is fenced: nothing is stored.
* **Restored under a spent epoch** (`journey_restore`). A start that fails
  restores the previous configuration under its own epoch, so a sample read
  under the failed one may still be written.
* **Reload joined by an older load** (`group_reload`). The reload a Realtime
  event asked for joins the load of an older recovery, which is dropped as too
  old; the slow poll has to repair it.
* **Drafts of another account** (`group_drafts`). An addition that waits while
  the account changes is written over the previous account's card.

Met while modelling, and shown by no run:

* An unrelated operation does not overtake one that backs off at the head of its
  lane, although a comment says it does. Dependants of a version conflict are
  settled as expired before the conflict itself is reopened; this is the
  exception `reopened` that `LapsedForCause` names.
* An operation the server applied may end as a local conflict, when its answer
  is lost and the retry is refused as a whole. This is why conflicts still
  "wait" in `OperationDelivery`. Recreating a conflict may duplicate its intent
  if the old request arrives late.
* The purge after a withdrawal is fired and its failure ignored: after a failed
  one, or a crash in front of it, granting access again makes the old rows due
  (the exception `slipped`).
* A start that fails after the platform has started the task stops it again
  (`backgroundLocation.ts:110`). Where that fails, the rollback for another owner
  asks once more, swallows the failure and removes the configuration all the same
  (`backgroundJourneyController.ts:343`): the task runs, its samples end for want
  of a configuration before anything looks at them, and the next start takes it
  over with whatever profile it has. This is the exception `stray` of
  `TaskIsOwned`, `TaskMatches` and `ColdTaskStops`.
* After a refusal without the state of the server, the version the card had
  predicted for the refused operation stays (`coreDataStore.ts`).
* Passes: a pass recovered while its buyer is in another group is bound to that
  group, or refused for its binding; `unclaimed` is not cleared by a settlement,
  so a later purchase may be handed a finished transaction; a refunded pass that
  was never finished is retried for ever; a grant ten days late inserts a pass
  that has expired.
* Requests: a vote after the deadline "closes first" and then raises, which
  rolls the closing back, so only the scheduler closes. Options are not
  validated against what their application needs, or against the trigger that
  forbids moving a stop, when a request is created; a due request whose outcome
  cannot be applied stays open and uses up one of the hundred places of every
  run. Setting a meeting time locks the stop before the group and the
  itinerary RPCs lock them the other way round, so the two may deadlock.

## 4. Proofs

Every theorem holds for all values of the constants under the assumption its
module names: operations have an owner and are finitely many (`OpAssumption`: a
device has inserted finitely many), relations are over operations of one owner,
the values that stand for nobody, no group, no token are not accounts, groups,
tokens (nor is `"unknown"`, what `authStorage` has persisted before it knows),
bounds are numbers. The compositions `MCIdentity` and `MCWork` state the
conjunction of these as an ASSUME, which TLC evaluates on their runs.

A component's invariant is proved in its own module, on its own specification.
A composition instantiates that proof module, shows that each of its behaviours
is one of each part (`TripOf`, `AuthOf`, `TokenOf`, `LocationOf`, `JourneyOf`,
`SchedulerOf`, `DecisionOf`, `LogOf`, `GroupOf`: steps of the other parts leave its variables alone),
and so has the theorem for the property its run checks.

| Module | Theorem | States |
| --- | --- | --- |
| `CoreOutboxProofs` | `TypeCorrect` | `Spec => []TypeOK` |
| | `AppliedAtMostOnce` | `Spec => []AppliedOnce` |
| | `NothingIsLost` | `Spec => []NothingLost` |
| | `CommittedByOwner` | `Spec => []OwnCredential` |
| | `OutboxKeepsDelivery` | `Spec => KeepsDelivery` |
| | `FinalConflictStays` | `Spec => ConflictStays` |
| | `CommittedInOrder` | `Spec => []CausalOrder` |
| | `LaneGoesInOrder` | `Spec => LaneOrder` |
| | `LapsedWithCause` | `Spec => []LapsedForCause` |
| `IdentityProofs` | `WithdrawnGone`, `NewestAreShown`, `SentAreStored`, `UnderConsent` | `WithdrawnLeave`, `NewestShown`, `SentIsStored`, `SentUnderConsent` of `MCIdentity` |
| | `SignedOutIsGone`, `RestIsRegistered` | `NoneAfterSignOut`, `Registered` |
| | `OthersGone`, `OnlyRefusedGo`, `UnderOneAccount`, `ReadsNewer` | `PreviousAccountGone`, `RemovedWereRefused`, `OneAccount`, `NeverOlder` |
| | `DraftsArePrivate`, `IntentsStay` | `DraftsPrivate`, `IntentKept` |
| | `RefundsHold`, `FinishedGranted`, `ReversalsKept` | `RefundHolds`, `FinishedIsGranted`, `ReversalKept` |
| | `IdentityTypes` | `TypeOK` of all five parts |
| `WorkProofs` | `OwnedTasks`, `TasksMatch`, `UnwantedOff`, `ProgressStays` | `TaskIsOwned`, `TaskMatches`, `OffWhenUnwanted`, `ProgressKept` of `MCWork` |
| | `SleepersDrained` | `SleepsDrained` |
| | `LogSentInConsent` | `SentInConsent` |
| | `RequestsDecidedOnce` | `DecidedOnce` |
| | `WorkTypes` | `TypeOK` of all four parts |
| the proof modules of the parts | `LocationCorrect`, `SessionCorrect`, `CapabilitiesCorrect`, `TripCorrect`, `JourneyCorrect`; `...Types` | the inductive invariant; `TypeOK` |

None of these properties is inductive by itself. What each needs, and why:

### The operation outbox

* `AppliedOnce` needs `LedgerInv`: effects are committed exactly when the
  receipt is accepted. Its step rests on `SyncGroupOnce`: within a batch an
  operation sees its own receipt as the ledger has it, so an accepted one
  answers `duplicate` and commits nothing.
* `NothingLost` needs `ReplyInv`: whatever the transport lane holds as passed
  is accepted at the server. The lane may hold an answer for as long as it
  likes, because accepted receipts are for ever (`ReceiptStays`). Then every
  action either leaves rows in the queue, or deletes one for a passing answer
  (`TransportKeeps`), or records it as discarded (`SettledStep`).
* `OwnCredential` needs `RequestInv`: the check of `exchangeGroup` ties batch
  and account together, and no step between it and the departure of the request
  changes either; every later request names the account of its operations. The
  server does the rest (`NextSigner`).
* `KeepsDelivery` needs `OutboxInv`: rows belong to issued operations that were
  not discarded, only arrivals are kept as acknowledged, the flush never holds
  an acknowledged row, only issued operations are sent. Each class of steps maps
  to a step of `OperationDelivery` or a stutter (`CommandDelivers`,
  `TransportDelivers`, `EnvironmentDelivers`).
* `ConflictStays` needs `FlushInv`: what a flush holds in its batch is open or
  gone unless it is a gathering start, and what it is about to revive is a
  version conflict. Only starts can be aborted behind its back.
* `CausalOrder` needs `CausalInv`: of each operation in a batch that is checked,
  sent or late, the server has accepted the prerequisites, or they travel in
  front of it (`Closed`); and a prerequisite the user discards takes its
  dependants along (`DepsInv`, `ChoiceInv`: the chain chosen before the lock is
  still closed when it is written).
* `LaneOrder` needs `LaneInv`: an operation in a batch has in front of it, in its
  lane, only operations of the same batch, accepted ones, and rows in conflict
  or gone (`InOrder`), over every skip the selection makes; there is an answer
  only after the request is gone (`PhaseInv`); and new rows come behind. That a
  selection of limited size takes no operation without those in front of it is
  the one argument about cardinalities, hence `OpAssumption`.
* `LapsedForCause` needs `LapseInv`. A flush settles the dependants of what
  failed: each of a chain but its roots depends on another of the chain
  (`ChainStep`), so a row that lapsed, and one the flush has read and is about to
  settle, has a prerequisite with a cause (`LapsedInv`, `DoomedInv`). A cause does
  not go away: a conflict leaves by a discard, which `dropped` remembers, or is
  reopened, which `reopened` does. A chain never runs through an acknowledged
  row, whose dependants would lapse without it: an operation is selected with
  its prerequisites and acknowledged after them (`SelectedInv`, `AckedInv`), and
  these joined the lane before it (`OrderInv`). While a start is selected, an
  abort behind the flush's back is no cause yet, for it may go through after all;
  hence `Failed` excludes the batch.

### Locations

`LocationInv`. A withdrawal does two things at once: it makes every access
captured before it stale (`AccessInv`), and it puts a purge into the lane behind
every insertion still waiting (`LaneInv`, `ClearInv`: an old row in the outbox
has a purge to come, unless one was lost). The lane holds at most one exchange,
so what the exchange in flight selected is still in the outbox when it is sent,
under the account that captured it (`FlightInv`, `OwnerInv`). On the server a
sample has one owner for ever and a position is never behind a stored sample
(`StoredInv`, `PositionInv`), in whatever order requests arrive.

### Sessions

`AuthInv`. The queue of storage holds at most one task of the shared refresh,
which is at that point, and one of the holder of the SDK's lock (`QueueOK`); what
is being written is newer than everything kept anywhere (`FreshOK`), which is
why a failed write cannot bring back an old credential. What the refresh removes
was refused, or is no longer the latest (`FlightOK`).

### Push tokens

`CapabilitiesInv`. A session about to be replaced is revoked on the server
before it is, and what is revoked holds no registration and gets none, however
late a request arrives (`SessionOK`, `HeldOK`, `SentBy`). The gate's memory of a
success is what the server has (`GateOK`), and a wish is being written, waiting,
or was recorded (`WantedOK`), outside the named exceptions.

### Passes

`TripInv`: what is accepted was signed, settlements are of transactions sold,
a row is of the account whose token the transaction carries, a good answer
stands for a row (`Durable`). `RefundHolds` and `ReversalKept` are then about
the order in which notes and grant arrive: the last of the accepted notes
decides, which needs that a bounded set of numbers has a maximum (a well-founded
order, since induction over data is out of reach).

### The background task

`JourneyInv`. Every change of epoch leaves a job in the lane that settles the
task for that epoch (`QueueOK`, `CapturedOK`), so a task that runs belongs to a
stored configuration, of the profile and epoch that are wanted or about to be
(`TaskOK`), and the head of the lane knows what it replaces (`HeadOK`). A task
that a failed start could not stop is the exception throughout: `stray` says
that there is one, whatever happens to its configuration, over crashes and over
the starts that adopt it. Until its start has rolled back it may run under the
head of the lane (`HeadOK`), and what keeps it out of `OffWhenUnwanted` is that
the platform has refused a stop (`stuck`) since a start last settled or adopted
it, or that the process has died since (`cold`).

### The scheduler

`SchedulerInv`: an idle scheduler without a timer, and a flight that counted
nothing, leave only rows that came behind a count.

### The upload of the log

`LogInv`. Every pending row belongs to the consent in force (`RowsCurrent`),
because a withdrawal purges in the step in which it moves the revision. What a
flush has read is still of that consent, or was crossed by a withdrawal
(`ReadCurrent`); what it has sent is, as long as the revision has not moved
(`SentCurrent`), and when it has moved the fence stops the request. For the
types, `LogTypes` adds two facts: a choice of consent leaves a number for its
withdrawal, and a flush that has read a batch stays at the head of the lane,
which is why the answer removes that flush and nothing else.

### Coordination requests

`DecisionInv`. Whoever judges a request holds its row, and whoever is about to
close one has seen it open under that lock (`MemberOk`). The scheduler holds what
it has claimed and what it has decided (`CronInv`); a block that fails gives
back only the locks it took itself (`kept`), so the decisions of earlier blocks
stay covered, they are about different requests, and the votes each rests on can
be changed by nobody (`Sound`). `Close` and `Commit` then share one lemma,
`ApplyDecided`: decisions that are sound and apart add one operation to the log
for each request they close. `DecidedOnce` states a majority as more votes for
than against and the code as more than half of the ballots; `Halves` and
`Outcome` show these are the same by counting.

### The card of a group

Three invariants, proved in `IdentityProofs` on the instance of the module.

* `GroupInv`: what is committed on the server was accepted (`Committed`), and
  what an exchange still holds are open rows of its account, judged in order
  (`InFlight`, `Judged`).
* `PrivateInv`, for `DraftsPrivate`: while no card was written under another
  account's name, the card holds additions of its owner or accepted ones, the
  view those of the account it is shown to, and the open operations are its own.
* `ShowInv`, for `IntentKept`: a card in its owner's name shows every open
  intent of the owner, one of nobody shows none, at most one open operation of
  an account removes the stop, the view shows what the card did when it was
  painted, and a recovery about to be painted takes away no intent that is not
  listed. The last is where the order of the lane matters: the row is inserted
  before its paint is asked for, and the recovery is read in between or after.

### Only model-checked

Liveness under fairness is out of the prover's reach, and stays with TLC:
`Settles`, `RowsSettle`, `PaidIsSettled`, `Converges`, `RowsLeave`,
`ColdTaskStops`, `DrainsCounted`, `DueIsClosed`.

### What the proofs changed

Proof attempts that failed for a good reason corrected the models:

* `Registered` was false in two places TLC's bounds had not reached. The
  exception `excused` was lifted by any write, where only the last of the chain
  has the last word. And a revocation that the server executed, but whose answer
  was lost, leaves the gate's memory of its last success
  (`api/installationCapabilities.ts:71-88`, `utils/liveActivityTokenGate.ts:90`),
  so the next wish may be skipped: this is now a named exception.
* `IntentKept` was false of `GroupSnapshot` with four events: an enqueue that
  waited while the account changed and came back is written on a card of nobody,
  which lacks the account's other intents, so the same stop can be removed
  twice, and the refusal of one removal shows it again. The property now has the
  exception `bare`.
* `LapsedForCause` was false where an exchange is refused as a whole for a version
  conflict: its dependants lapse, then the conflict is reopened and goes through
  (`coreOperationOutbox.ts`, the settling of a flush). The property now names the
  exception `reopened`, and `core_faults` includes such refusals.
* The oldest rows of the log, the batch the scheduler claims and the decisions
  it collects were computed by recursion or by filtering sequences, about which
  nothing can be proved by induction. They are now sets with an order on them
  (`Oldest`, `Ahead`), with the same steps.
* `AuthInv` does not hold if an account could be called `"unknown"`; hence the
  assumption.

## 5. Abstractions and what is not modelled

* Outbox: payloads, entity projections, identifier aliases and legacy migrations
  of rows. The relations between operations are constants, so alias rewriting,
  which makes an operation name the entity its prerequisite created, is not
  visible. `recreateConflict` under the same identifier (older screens). One
  operation over 256 KB, which backs off at the head of its lane for ever. The
  transparent refresh of `withAuthenticatedOperation` is part of `Transmit`. A
  storage error of the local database, classified as a terminal conflict, is
  the class `"final"` of `Refuse`.
* Locations: more than one group, the demo group, the import of old rows,
  acknowledgements of refresh requests, validation of events on the server. The
  core half and the location half of `sync_group` are in separate modules: they
  share the transaction, the account check and the byte limit, which cuts
  samples before operations.
* Card of a group: only additions and removals of stops, no gathering phase,
  merge reasons, seed of `ensureCoreSnapshot`, loss of membership, patches of
  profiles and positions, aliases or chains of dependants; revision and version
  are one number; the clean-up of effects in the background is left out.
* Background journey: devices without the iOS activity session, no hidden mode;
  the clock never steps back.
* Credentials: the SDK is external and modelled by its lock; a credential of
  another installation does not appear.
* Tokens: the tokens of foreign installations are a constant; the gate's note is
  written with its decision; the life cycle of a live activity itself
  (`useLiveActivity`: start, update, end) is not modelled.
* Passes: the deletion of a group, which takes its entitlements along (`on delete
  cascade`): what is said of a granted pass is said while its group exists. How a
  transaction reaches the device; a notification is recorded and
  applied in one step; subscriptions are folded into whether a pass fits a
  group; a lone leader's promo pass.
* Requests: one list of one group, one stop; an option that fails does so before
  it locks; key-share locks are exclusive; the scheduler claims its batch at
  once, where the cursor locks rows as it fetches them; the row of
  `core_entity_versions` is locked with the stop; subgroups and the client.
* `TypeOK` of `DiagnosticsUpload`, `SyncScheduler`, `CoordinationRequests` and
  `BackgroundJourney` is checked by no run and proved (`WorkTypes`,
  `JourneyTypes`). `writes` of `DiagnosticsUpload` is only said to be a number.
* Not modelled: gathering and arrivals, team gathering (derivations, covered by
  unit tests), rewarded ads, the authentication screens, push, user interface,
  native projects, web site, CI. The reasons are in `PROJECT.json`.

## 6. Plan

1. Done: the modules of section 2 and the proofs of section 4.
2. Proofs left: none of the safety properties the runs check.
3. Models: rewarded ads (token store and reservation against the display), the
   life cycle of the live activity, `activeGatheringState` with `arrivalSync`
   (corrections against automatic arrivals).
4. An abstract specification of `LocationOutbox` with consent as a switch.
