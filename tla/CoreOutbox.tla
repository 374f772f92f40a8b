----------------------------- MODULE CoreOutbox -----------------------------
(***************************************************************************)
(* The durable operation outbox of the mobile client (coreOperationOutbox) *)
(* talking to the server ledger through the group exchange.                *)
(*                                                                         *)
(* Three parties interleave.  The command lane (runSerial) enqueues,       *)
(* compacts, aborts, discards and recreates operations.  The transport     *)
(* lane (runTransport) runs one flush at a time, and gives up control at   *)
(* every await: it reads the rows, settles lapsed chains, selects a batch, *)
(* checks the account, transmits, waits, and handles the answers one by    *)
(* one.  The environment signs accounts in and out, lets backoffs elapse,  *)
(* loses or delays requests, and kills the process.  All database writes   *)
(* of the two lanes are transactions under one writer lock, so each is one *)
(* step here.                                                              *)
(*                                                                         *)
(* One group is modelled: rows of different groups never meet (a lane is   *)
(* the pair of actor and group), so a lane is an actor here.  Payloads are *)
(* abstracted to the relations between operations that the code computes   *)
(* from them.                                                              *)
(***************************************************************************)
EXTENDS CoreLedger, FiniteSets

CONSTANTS
  Actor,       \* accounts used on this device
  NoActor,     \* nobody is signed in
  Owner,       \* the account that issues each operation
  Prereq,      \* <<p, o>>: isPrerequisite(p, o), same resource or a creator
  Creates,     \* <<p, o>>: createsRequiredEntity(p, o)
  Arrival,     \* record_arrival and leader_correct_arrival operations
  Gathering,   \* gathering starts that abortLeaderGatheringStart may abort
  Promotes,    \* <<g, r>>: starting g also reorders the day with r
  Replaces,    \* <<n, o>>: n is the fresh identity recreateConflict gives o
  Refusals,    \* classes of error the exchange as a whole may answer with
  MaxBatch,    \* operations in one exchange (20)
  MaxFaults,   \* bound: faults injected in a behaviour
  MaxSwitches, \* bound: sign-outs in a behaviour
  MaxLate      \* bound: abandoned requests the server may still execute

Pairs(S) == {pair \in Op \X Op : Owner[pair[1]] = Owner[pair[2]]
                                 /\ pair[1] # pair[2] /\ pair \in S}

ASSUME OpAssumption == IsFiniteSet(Op)
ASSUME OwnerAssumption == Owner \in [Op -> Actor] /\ NoActor \notin Actor
ASSUME RelationAssumption ==
  /\ Creates \subseteq Prereq
  /\ Prereq = Pairs(Prereq)
  /\ Promotes = Pairs(Promotes)
  /\ Replaces = Pairs(Replaces)
ASSUME KindAssumption ==
  /\ Arrival \subseteq Op /\ Gathering \subseteq Op \ Arrival
  /\ Refusals \subseteq {"auth", "transient", "stale", "final"}
ASSUME BoundAssumption ==
  /\ MaxBatch \in Nat \ {0}
  /\ MaxFaults \in Nat /\ MaxSwitches \in Nat /\ MaxLate \in Nat

VARIABLES
  status,    \* the row of each operation; "none" when there is no row
  code,      \* why a row is in conflict
  tried,     \* attempts > 0
  due,       \* nextAttemptAt has passed
  deps,      \* dependencyIds, fixed when the row is inserted
  seq,       \* sequence in the lane, 0 before the row is inserted
  counter,   \* next sequence of each lane, in its own durable table
  choice,    \* what a resolution command read before it writes
  dropped,   \* history: unacknowledged operations discarded by the user
  reopened,  \* history: operations a flush reopened after a version conflict
  session,   \* the account currentActorGuard answers with
  pc,        \* where the transport lane stands
  flight,    \* the account the running exchange was started for
  doomed,    \* rows the flush read as lapsed, to be settled
  revive,    \* recoverable conflicts the flush read, to be reopened
  batch,     \* selected operations not handled yet
  held,      \* the row of the operation being handled, before "inflight"
  request,   \* the request the server has not executed yet
  reply,     \* the answer the transport lane works on
  late,      \* abandoned requests still on their way
  signer,    \* history: the credential each effect was committed under
  faults, switches

rowVars == <<status, code, tried, due>>
lineVars == <<deps, seq, counter>>
commandVars == <<choice, dropped, reopened>>
flushVars == <<pc, flight, doomed, revive, batch, held>>
wireVars == <<request, reply, late>>
serverVars == <<receipt, effects, signer>>
envVars == <<faults, switches>>
vars == <<rowVars, lineVars, commandVars, session, flushVars, wireVars,
          serverVars, envVars>>

Status == {"none", "pending", "failed", "inflight", "acked", "conflict"}
Open == {"pending", "failed", "inflight"}
Code == {"none", "stale", "final", "lapsed"}
Phase == {"idle", "read", "settle", "select", "check", "transmit", "wait",
          "take", "guard", "commit"}
ReplyKind == {"none", "results", "auth", "transient", "stale", "final"}

NoChoice == [kind |-> "none", root |-> {}, chain |-> {}, tail |-> {}]
NoHeld == [status |-> "none", tried |-> FALSE]
NoRequest == [ops |-> {}, actor |-> NoActor, cred |-> NoActor]
NoResults == [o \in Op |-> "not_submitted"]
NoReply == [kind |-> "none", results |-> NoResults]
Failure(kind) == [kind |-> kind, results |-> NoResults]

Request == [ops : SUBSET Op, actor : Actor \cup {NoActor},
            cred : Actor \cup {NoActor}]

TypeOK ==
  /\ LedgerTypeOK
  /\ status \in [Op -> Status]
  /\ code \in [Op -> Code]
  /\ tried \in [Op -> BOOLEAN]
  /\ due \in [Op -> BOOLEAN]
  /\ deps \in [Op -> SUBSET Op]
  /\ seq \in [Op -> Nat]
  /\ counter \in [Actor -> Nat]
  /\ choice \in [kind : {"none", "start", "conflict"}, root : SUBSET Op,
                 chain : SUBSET Op, tail : SUBSET Op]
  /\ dropped \subseteq Op /\ reopened \subseteq Op
  /\ session \in Actor \cup {NoActor}
  /\ pc \in Phase
  /\ flight \in Actor \cup {NoActor}
  /\ doomed \subseteq Op
  /\ revive \subseteq Op
  /\ batch \subseteq Op
  /\ held \in [status : Status, tried : BOOLEAN]
  /\ request \in Request
  /\ reply \in [kind : ReplyKind, results : [Op -> Verdict]]
  /\ late \subseteq Request
  /\ signer \in [Op -> Actor \cup {NoActor}]
  /\ faults \in 0 .. MaxFaults
  /\ switches \in 0 .. MaxSwitches

Init ==
  /\ LedgerInit
  /\ status = [o \in Op |-> "none"]
  /\ code = [o \in Op |-> "none"]
  /\ tried = [o \in Op |-> FALSE]
  /\ due = [o \in Op |-> TRUE]
  /\ deps = [o \in Op |-> {}]
  /\ seq = [o \in Op |-> 0]
  /\ counter = [a \in Actor |-> 1]
  /\ choice = NoChoice /\ dropped = {} /\ reopened = {}
  /\ session \in Actor \cup {NoActor}
  /\ pc = "idle"
  /\ flight = NoActor
  /\ doomed = {} /\ revive = {} /\ batch = {}
  /\ held = NoHeld
  /\ request = NoRequest /\ reply = NoReply /\ late = {}
  /\ signer = [o \in Op |-> NoActor]
  /\ faults = 0 /\ switches = 0

-----------------------------------------------------------------------------
(* The rows and the order between them. *)

HasRow(o) == status[o] # "none"
IsOpen(o) == status[o] \in Open
Lane(a) == {o \in Op : Owner[o] = a}

(* precedes() and dependsOn(): a recorded dependency counts when the two   *)
(* operations really touch the same resource; a creator earlier in the     *)
(* lane counts even where no dependency was recorded.                      *)
Precedes(p, o) == seq[p] < seq[o]

DependsOn(o, p) ==
  /\ p # o
  /\ \/ p \in deps[o] /\ <<p, o>> \in Prereq
     \/ Precedes(p, o) /\ <<p, o>> \in Creates

(* Mutant: the single-predecessor queue, where everything behind depends. *)
DependencyChainFifo(roots, rows) ==
  {o \in rows :
     o \in roots \/ \E r \in roots : Owner[r] = Owner[o] /\ Precedes(r, o)}

(* The least set of `rows` that holds `roots` and every dependant of one   *)
(* of its members: the fixpoint loops of dependencyChain and of flush.     *)
DependencyChain(roots, rows) ==
  LET closed == {S \in SUBSET rows :
                  /\ roots \cap rows \subseteq S
                  /\ \A p \in S, q \in rows : DependsOn(q, p) => q \in S}
  IN {o \in rows : \A S \in closed : o \in S}

Rows == {o \in Op : HasRow(o)}

(* Mutant: any conflict that was not inherited may be reopened. *)
RecoverableAny(o) == status[o] = "conflict" /\ code[o] # "lapsed"

(* recoverableConflict: stale_version, dependency_missing and unknown. *)
Recoverable(o) == status[o] = "conflict" /\ code[o] = "stale"

(* Mutant: an inflight row is taken to be on its way. *)
EligibleAtRest(o) == status[o] # "inflight" /\ due[o]

(* Due without waiting: an inflight row is replayable at once. *)
Eligible(o) == status[o] = "inflight" \/ due[o]

(* A dependency in the outbox that is not acknowledged and not selected.   *)
Unmet(o, selected) ==
  \E p \in Rows : DependsOn(o, p) /\ status[p] # "acked" /\ p \notin selected

(* The rows before o in its lane that the batch would have to hold. *)
Ahead(o) == {p \in Lane(Owner[o]) : IsOpen(p) /\ Precedes(p, o)}

(* Mutant: rows that wait out a backoff are passed over. *)
PrefixSkipping(a) ==
  {o \in Lane(a) : IsOpen(o) /\ Eligible(o) /\ ~Unmet(o, {})
                   /\ Cardinality(Ahead(o)) < MaxBatch}

(* dueHeads() and the prefix loop of flush: the longest run of open rows   *)
(* from the head of the lane that are eligible and whose dependencies are  *)
(* acknowledged or selected before them.                                   *)
Prefix(a) ==
  {o \in Lane(a) :
     /\ IsOpen(o)
     /\ Cardinality(Ahead(o)) < MaxBatch
     /\ \A p \in Ahead(o) \cup {o} : Eligible(p) /\ ~Unmet(p, Ahead(p))}

-----------------------------------------------------------------------------
(* The command lane. *)

(* Everything open in the lane that o must not overtake: the predecessors  *)
(* writeLocalAndOutbox reads under the writer lock.                        *)
Predecessors(o) == {p \in Lane(Owner[o]) : IsOpen(p) /\ <<p, o>> \in Prereq}

(* runSerial: a command starts when the one before it is done. *)
Free == choice = NoChoice

(* A fresh identifier whose owner is signed in. *)
Issuable(o) == Free /\ seq[o] = 0 /\ session = Owner[o]

(* writeLocalAndOutbox and writeOutboxOnly: sequence and row in one        *)
(* transaction, so a crash leaves both or neither.                         *)
Enqueue(o) ==
  /\ Issuable(o)
  /\ status' = [status EXCEPT ![o] = "pending"]
  /\ deps' = [deps EXCEPT ![o] = Predecessors(o)]
  /\ seq' = [seq EXCEPT ![o] = counter[Owner[o]]]
  /\ counter' = [counter EXCEPT ![Owner[o]] = @ + 1]
  /\ UNCHANGED <<code, tried, due, commandVars, session, flushVars, wireVars,
                 serverVars, envVars>>

(* enqueueGatheringTransition with promoteWithinDay: the start g and the   *)
(* reorder r it implies are inserted by one transaction, r depending on g. *)
EnqueuePromoted(g, r) ==
  /\ <<g, r>> \in Promotes
  /\ Issuable(g) /\ Issuable(r)
  /\ status' = [status EXCEPT ![g] = "pending", ![r] = "pending"]
  /\ deps' = [deps EXCEPT ![g] = Predecessors(g),
                          ![r] = Predecessors(r) \cup {g}]
  /\ seq' = [seq EXCEPT ![g] = counter[Owner[g]], ![r] = counter[Owner[g]] + 1]
  /\ counter' = [counter EXCEPT ![Owner[g]] = @ + 2]
  /\ UNCHANGED <<code, tried, due, commandVars, session, flushVars, wireVars,
                 serverVars, envVars>>

(* removeArrival: the workflow screen compacts acknowledged arrivals that  *)
(* a later server read reflects.                                           *)
CompactReceipt(o) ==
  /\ Free /\ o \in Arrival /\ status[o] = "acked"
  /\ status' = [status EXCEPT ![o] = "none"]
  /\ UNCHANGED <<code, tried, due, lineVars, commandVars, session, flushVars,
                 wireVars, serverVars, envVars>>

(* retryFailedOperation: only the signed-in owner may cut a backoff short. *)
RetryFailed(o) ==
  /\ Free /\ status[o] = "failed" /\ ~due[o] /\ session = Owner[o]
  /\ due' = [due EXCEPT ![o] = TRUE]
  /\ UNCHANGED <<status, code, tried, lineVars, commandVars, session, flushVars,
                 wireVars, serverVars, envVars>>

(* markGatheringConflictAndRestore, discardConflictChain and               *)
(* recreateConflict read the rows before they take the writer lock: what   *)
(* they decide on may be stale by the time they write.                     *)
ChooseStart(o) ==
  /\ Free /\ o \in Gathering /\ IsOpen(o)
  /\ choice' = [kind |-> "start", root |-> {o}, chain |-> {o}, tail |-> {}]
  /\ UNCHANGED <<rowVars, lineVars, dropped, reopened, session, flushVars,
                 wireVars, serverVars, envVars>>

(* The conflict with every transitive dependant, and the last open row     *)
(* outside that chain.                                                     *)
ChooseConflict(o) ==
  /\ Free /\ status[o] = "conflict" /\ session = Owner[o]
  /\ LET chain == DependencyChain({o}, Rows)
         rest == {p \in Lane(Owner[o]) : IsOpen(p)} \ chain
     IN choice' = [kind |-> "conflict", root |-> {o}, chain |-> chain,
                   tail |-> {p \in rest : \A q \in rest : seq[q] <= seq[p]}]
  /\ UNCHANGED <<rowVars, lineVars, dropped, reopened, session, flushVars,
                 wireVars, serverVars, envVars>>

(* The row of an aborted start is marked whatever it says by now. *)
AbortStart ==
  /\ choice.kind = "start" /\ choice' = NoChoice
  /\ status' = [o \in Op |-> IF o \in choice.root \cap Rows
                             THEN "conflict" ELSE status[o]]
  /\ code' = [o \in Op |-> IF o \in choice.root \cap Rows
                           THEN "final" ELSE code[o]]
  /\ UNCHANGED <<tried, due, lineVars, dropped, reopened, session, flushVars,
                 wireVars, serverVars, envVars>>

(* The chosen rows are deleted in one transaction. *)
Without(chain, fresh) ==
  /\ status' = [q \in Op |-> IF q \in fresh THEN "pending"
                             ELSE IF q \in chain THEN "none" ELSE status[q]]
  /\ code' = [q \in Op |-> IF q \in chain THEN "none" ELSE code[q]]
  /\ tried' = [q \in Op |-> tried[q] /\ q \notin chain]
  /\ due' = [q \in Op |-> due[q] \/ q \in chain]
  /\ dropped' = dropped \cup {q \in chain : status[q] \notin {"none", "acked"}}

DiscardConflict ==
  /\ choice.kind = "conflict" /\ choice' = NoChoice
  /\ Without(choice.chain, {})
  /\ UNCHANGED <<lineVars, reopened, session, flushVars, wireVars, serverVars,
                 envVars>>

(* recreateConflict also inserts the intent of the root under a fresh id n,*)
(* behind the row it read as the last open one.                            *)
RecreateConflict(n) ==
  /\ choice.kind = "conflict" /\ choice' = NoChoice
  /\ seq[n] = 0 /\ \E o \in choice.root : <<n, o>> \in Replaces
  /\ Without(choice.chain, {n})
  /\ deps' = [deps EXCEPT ![n] = choice.tail]
  /\ seq' = [seq EXCEPT ![n] = counter[Owner[n]]]
  /\ counter' = [counter EXCEPT ![Owner[n]] = @ + 1]
  /\ UNCHANGED <<reopened, session, flushVars, wireVars, serverVars, envVars>>

-----------------------------------------------------------------------------
(* The transport lane: one exchange of syncGroup around one flush. *)

Idle ==
  /\ pc' = "idle" /\ flight' = NoActor
  /\ doomed' = {} /\ revive' = {} /\ batch' = {} /\ held' = NoHeld
  /\ request' = NoRequest /\ reply' = NoReply

(* A kick, a timer or a wake-up starts an exchange for whoever is signed in.*)
StartFlight ==
  /\ pc = "idle" /\ session # NoActor
  /\ pc' = "read" /\ flight' = session
  /\ UNCHANGED <<rowVars, lineVars, commandVars, session, doomed, revive, batch,
                 held, wireVars, serverVars, envVars>>

(* flush reads its rows outside the writer lock: `doomed` and `revive` are *)
(* acted upon only in the next step.                                       *)
ReadRows ==
  /\ pc = "read"
  /\ LET own == {o \in Rows : Owner[o] = session}
         terminal == {o \in own : status[o] = "conflict" /\ ~Recoverable(o)}
         chain == DependencyChain(terminal, {o \in own : status[o] # "acked"})
     IN
       /\ doomed' = {o \in chain : status[o] # "conflict"}
       /\ revive' = {o \in own \ chain : Recoverable(o)}
  /\ pc' = "settle"
  /\ UNCHANGED <<rowVars, lineVars, commandVars, session, flight, batch, held,
                 wireVars, serverVars, envVars>>

(* Rows deleted since the read stay deleted: the writes are UPDATEs by id. *)
Settle ==
  /\ pc = "settle"
  /\ LET lapse == doomed \cap Rows
         reopen == revive \cap Rows
     IN
       /\ status' = [o \in Op |-> IF o \in lapse THEN "conflict"
                                  ELSE IF o \in reopen THEN "pending"
                                  ELSE status[o]]
       /\ code' = [o \in Op |-> IF o \in lapse THEN "lapsed"
                                ELSE IF o \in reopen THEN "none" ELSE code[o]]
       /\ due' = [o \in Op |-> due[o] \/ o \in lapse \cup reopen]
       /\ reopened' = reopened \cup reopen
  /\ pc' = "select" /\ doomed' = {} /\ revive' = {}
  /\ UNCHANGED <<tried, lineVars, choice, dropped, session, flight, batch, held,
                 wireVars, serverVars, envVars>>

(* getDue and the batch prefix, for the account visible now. *)
Select ==
  /\ pc = "select"
  /\ \/ /\ session # NoActor /\ Prefix(session) # {}
        /\ batch' = Prefix(session) /\ pc' = "check"
        /\ UNCHANGED <<flight, doomed, revive, held, request, reply>>
     \/ /\ session = NoActor \/ Prefix(session) = {}
        /\ Idle
  /\ UNCHANGED <<rowVars, lineVars, commandVars, session, late, serverVars,
                 envVars>>

(* The account check exchangeGroup makes before it builds the request. *)
CheckAccount ==
  /\ pc = "check"
  /\ \/ /\ session = flight /\ batch \subseteq Lane(flight)
        /\ pc' = "transmit" /\ UNCHANGED reply
     \/ /\ session # flight \/ ~(batch \subseteq Lane(flight))
        /\ pc' = "take" /\ reply' = Failure("auth")
  /\ UNCHANGED <<rowVars, lineVars, commandVars, session, flight, doomed,
                 revive, batch, held, request, late, serverVars, envVars>>

(* The request leaves with the credential of whoever is signed in by then. *)
(* It names the account of the flight.  The byte limit may cut the tail.   *)
Transmit ==
  /\ pc = "transmit"
  /\ \/ /\ session # NoActor
        /\ \E ops \in SUBSET batch \ {{}} :
             /\ \A o \in ops : Earlier(batch, seq, o) \subseteq ops
             /\ request' = [ops |-> ops, actor |-> flight, cred |-> session]
        /\ pc' = "wait" /\ UNCHANGED reply
     \/ /\ session = NoActor
        /\ pc' = "take" /\ reply' = Failure("auth") /\ UNCHANGED request
  /\ UNCHANGED <<rowVars, lineVars, commandVars, session, flight, doomed,
                 revive, batch, held, late, serverVars, envVars>>

(* The answer arrives; results are kept only for the account of the flight.*)
Receive ==
  /\ pc = "wait" /\ reply.kind # "none"
  /\ pc' = "take"
  /\ reply' = IF reply.kind = "results" /\ session # flight
              THEN Failure("transient") ELSE reply
  /\ UNCHANGED <<rowVars, lineVars, commandVars, session, flight, doomed,
                 revive, batch, held, request, late, serverVars, envVars>>

IsFirst(o) == o \in batch /\ \A p \in batch : seq[o] <= seq[p]

(* The loop takes the next operation, re-reads its row, and marks it       *)
(* inflight whatever the row says by now.                                  *)
Take(o) ==
  /\ pc = "take" /\ IsFirst(o)
  /\ \/ /\ ~HasRow(o)
        /\ batch' = batch \ {o}
        /\ UNCHANGED <<status, code, pc, flight, doomed, revive, held, request,
                       reply>>
     \/ /\ HasRow(o)
        /\ \/ reply.kind = "results" /\ reply.results[o] = "not_submitted"
           \/ session # Owner[o]
        /\ Idle /\ UNCHANGED <<status, code>>
     \/ /\ HasRow(o) /\ session = Owner[o]
        /\ ~(reply.kind = "results" /\ reply.results[o] = "not_submitted")
        /\ status' = [status EXCEPT ![o] = "inflight"]
        /\ code' = [code EXCEPT ![o] = "none"]
        /\ held' = [status |-> status[o], tried |-> tried[o]]
        /\ pc' = "guard"
        /\ UNCHANGED <<flight, doomed, revive, batch, request, reply>>
  /\ UNCHANGED <<tried, due, lineVars, commandVars, session, late, serverVars,
                 envVars>>

Finish ==
  /\ pc = "take" /\ batch = {}
  /\ Idle
  /\ UNCHANGED <<rowVars, lineVars, commandVars, session, late, serverVars,
                 envVars>>

(* An UPDATE of one row by id: nothing happens when the row is gone. *)
Write(o, st, cd, attempted, ready) ==
  /\ status' = [q \in Op |-> IF q = o /\ HasRow(o) THEN st ELSE status[q]]
  /\ code' = [q \in Op |-> IF q = o /\ HasRow(o) THEN cd ELSE code[q]]
  /\ tried' = [q \in Op |-> IF q = o /\ HasRow(o) THEN attempted ELSE tried[q]]
  /\ due' = [q \in Op |-> IF q = o /\ HasRow(o) THEN ready ELSE due[q]]

(* Mutant: the second failure gives the operation up. *)
BackOffGivingUp(o) ==
  IF tried[o] THEN Write(o, "none", "none", FALSE, TRUE)
  ELSE Write(o, "failed", "none", TRUE, FALSE)

(* The row goes back to the queue behind a backoff. *)
BackOff(o) == Write(o, "failed", "none", TRUE, FALSE)

(* A terminal conflict settles the row and, in the same transaction, every *)
(* transitive dependant: the end of handleSubmitResult.                    *)
Terminate(o, cd) ==
  LET lapse == {q \in DependencyChain({o}, Rows) : status[q] # "acked"} \ {o} IN
    /\ status' = [q \in Op |->
         IF q \in lapse \/ (q = o /\ HasRow(o)) THEN "conflict" ELSE status[q]]
    /\ code' = [q \in Op |-> IF q \in lapse THEN "lapsed"
                             ELSE IF q = o /\ HasRow(o) THEN cd ELSE code[q]]
    /\ tried' = [q \in Op |-> tried[q] \/ (q = o /\ HasRow(o))]
    /\ due' = [q \in Op |-> due[q] \/ q \in lapse \cup {o}]

(* handleSubmitResult on a conflict: stale_version is retried once. *)
Conflict(o, cd) ==
  IF cd = "open" \/ (cd = "stale" /\ ~held.tried) THEN BackOff(o)
  ELSE Terminate(o, cd)

(* Failures reach the catch block of the loop without another look at the  *)
(* account; results are first checked against the account signed in now.   *)
Guard(o) ==
  /\ pc = "guard" /\ IsFirst(o)
  /\ LET failure == IF reply.kind # "results" THEN reply.kind
                    ELSE IF reply.results[o] = "retry" THEN "transient"
                    ELSE "none"
     IN
       \/ /\ failure = "auth"
          /\ Write(o, IF held.status = "failed" THEN "failed" ELSE "pending",
                   "none", held.tried, TRUE)
          /\ Idle
       \/ /\ failure = "transient"
          /\ BackOff(o)
          /\ Idle
       \/ /\ failure \in {"stale", "final"}
          /\ Conflict(o, failure)
          /\ Idle
       \/ /\ failure = "none" /\ session # Owner[o]
          /\ Write(o, "pending", "none", held.tried, TRUE)
          /\ Idle
       \/ /\ failure = "none" /\ session = Owner[o]
          /\ pc' = "commit"
          /\ UNCHANGED <<rowVars, flight, doomed, revive, batch, held, request,
                         reply>>
  /\ UNCHANGED <<lineVars, commandVars, session, late, serverVars, envVars>>

(* handleSubmitResult writes under the writer lock, without another look   *)
(* at the account.  Arrivals are kept as acknowledged history.             *)
Commit(o) ==
  /\ pc = "commit" /\ IsFirst(o)
  /\ \/ /\ reply.results[o] \in Passing
        /\ IF o \in Arrival
           THEN Write(o, "acked", "none", held.tried, TRUE)
           ELSE Write(o, "none", "none", FALSE, TRUE)
        /\ batch' = batch \ {o} /\ held' = NoHeld /\ pc' = "take"
        /\ UNCHANGED <<flight, doomed, revive, request, reply>>
     \/ /\ reply.results[o] \in {"final", "open"}
        /\ Conflict(o, reply.results[o])
        /\ Idle
  /\ UNCHANGED <<lineVars, commandVars, session, late, serverVars, envVars>>

Transport ==
  \/ StartFlight \/ ReadRows \/ Settle \/ Select \/ CheckAccount \/ Transmit
  \/ Receive \/ Finish
  \/ \E o \in Op : Take(o) \/ Guard(o) \/ Commit(o)

-----------------------------------------------------------------------------
(* The server and the environment. *)

(* The faults an answer costs: verdicts that ask the client to try again. *)
Cost(ops, verdict) ==
  IF \E o \in ops : verdict[o] \in {"open", "retry"} THEN 1 ELSE 0

(* Mutant: the account named by the request is trusted. *)
CommitsUnchecked(m, verdict) ==
  /\ faults + Cost(m.ops, verdict) <= MaxFaults
  /\ faults' = faults + Cost(m.ops, verdict)
  /\ SyncGroup(m.ops, seq, deps, verdict)
  /\ signer' = [o \in Op |->
       IF o \in m.ops /\ verdict[o] = "accepted" THEN m.cred ELSE signer[o]]

(* sync_group commits a request; it refuses one whose credential is not    *)
(* the account the request names.                                          *)
Commits(m, verdict) ==
  /\ m.cred = m.actor
  /\ faults + Cost(m.ops, verdict) <= MaxFaults
  /\ faults' = faults + Cost(m.ops, verdict)
  /\ SyncGroup(m.ops, seq, deps, verdict)
  /\ signer' = [o \in Op |->
       IF o \in m.ops /\ verdict[o] = "accepted" THEN m.cred ELSE signer[o]]

(* Mutant: operations the server did not mention have no entry. *)
AnswerSparse(ops, verdict) == [kind |-> "results", results |-> verdict]

(* exchangeGroup: an operation the server does not mention counts as not   *)
(* submitted.                                                              *)
Answer(ops, verdict) ==
  [kind |-> "results",
   results |-> [o \in Op |-> IF o \in ops THEN verdict[o] ELSE "not_submitted"]]

Execute ==
  /\ request # NoRequest
  /\ \/ \E verdict \in [request.ops -> Verdict] :
          /\ Commits(request, verdict)
          /\ reply' = Answer(request.ops, verdict)
     \/ /\ request.cred # request.actor
        /\ reply' = Failure("auth")
        /\ UNCHANGED <<serverVars, faults>>
  /\ request' = NoRequest
  /\ UNCHANGED <<rowVars, lineVars, commandVars, session, flushVars, late,
                 switches>>

(* The exchange as a whole fails: an expired session, an overloaded or     *)
(* unreachable server, an HTTP 409 (classified as a version conflict), or  *)
(* a refusal such as lost membership.  The transaction is rolled back.     *)
Refuse ==
  /\ request # NoRequest /\ faults < MaxFaults
  /\ \E kind \in Refusals : reply' = Failure(kind)
  /\ request' = NoRequest /\ faults' = faults + 1
  /\ UNCHANGED <<rowVars, lineVars, commandVars, session, flushVars, late,
                 serverVars, switches>>

(* The client stops waiting; the answer is lost, or the request is lost or *)
(* still on its way.                                                       *)
TimeOut ==
  /\ pc = "wait" /\ faults < MaxFaults
  /\ \/ UNCHANGED late
     \/ /\ request # NoRequest /\ Cardinality(late) < MaxLate
        /\ late' = late \cup {request}
  /\ reply' = Failure("transient") /\ request' = NoRequest
  /\ pc' = "take" /\ faults' = faults + 1
  /\ UNCHANGED <<rowVars, lineVars, commandVars, session, flight, doomed,
                 revive, batch, held, serverVars, switches>>

ExecuteLate(m) ==
  /\ late' = late \ {m}
  /\ \/ \E verdict \in [m.ops -> Verdict] : Commits(m, verdict)
     \/ m.cred # m.actor /\ UNCHANGED <<serverVars, faults>>
  /\ UNCHANGED <<rowVars, lineVars, commandVars, session, flushVars, request,
                 reply, switches>>

(* The process dies: rows, sequences and the session are durable, the      *)
(* exchange in progress is not.                                            *)
Crash ==
  /\ pc # "idle" \/ choice # NoChoice
  /\ faults < MaxFaults
  /\ Idle /\ choice' = NoChoice
  /\ \/ UNCHANGED late
     \/ /\ request # NoRequest /\ Cardinality(late) < MaxLate
        /\ late' = late \cup {request}
  /\ faults' = faults + 1
  /\ UNCHANGED <<rowVars, lineVars, dropped, reopened, session, serverVars,
                 switches>>

BackoffElapsed(o) ==
  /\ status[o] = "failed" /\ ~due[o]
  /\ due' = [due EXCEPT ![o] = TRUE]
  /\ UNCHANGED <<status, code, tried, lineVars, commandVars, session, flushVars,
                 wireVars, serverVars, envVars>>

SignOut ==
  /\ session # NoActor /\ switches < MaxSwitches
  /\ session' = NoActor /\ switches' = switches + 1
  /\ UNCHANGED <<rowVars, lineVars, commandVars, flushVars, wireVars,
                 serverVars, faults>>

SignIn(a) ==
  /\ session = NoActor
  /\ session' = a
  /\ UNCHANGED <<rowVars, lineVars, commandVars, flushVars, wireVars,
                 serverVars, envVars>>

Command ==
  \/ \E o \in Op : \/ Enqueue(o) \/ CompactReceipt(o) \/ RetryFailed(o)
                   \/ ChooseStart(o) \/ ChooseConflict(o) \/ RecreateConflict(o)
  \/ \E g, r \in Op : EnqueuePromoted(g, r)
  \/ AbortStart \/ DiscardConflict

Environment ==
  \/ Execute \/ Refuse \/ TimeOut \/ Crash \/ SignOut
  \/ \E m \in late : ExecuteLate(m)
  \/ \E o \in Op : BackoffElapsed(o)
  \/ \E a \in Actor : SignIn(a)

Next == Command \/ Transport \/ Environment

(* The runtime keeps starting exchanges while rows remain (coreSyncRuntime *)
(* and its timers), one flush always runs to its end, and a request that   *)
(* is not lost is executed.  Signing in, enqueueing and faults owe nothing.*)
Fairness ==
  /\ WF_vars(Transport)
  /\ WF_vars(Execute)
  /\ \A o \in Op : WF_vars(BackoffElapsed(o))

Spec == Init /\ [][Next]_vars

FairSpec == Spec /\ Fairness

-----------------------------------------------------------------------------
(* Properties *)

(* A retry, a replay after a crash, and a request that arrives after the   *)
(* client gave up on it commit the effects of an operation once at most:   *)
(* the retries of coreOperationOutbox over the ledger lookup of            *)
(* apply_core_operation_actor.                                             *)
AppliedOnce == \A o \in Op : effects[o] <= 1

(* An enqueued operation leaves the outbox, or is shown as acknowledged,   *)
(* only when the server has committed it or the user discarded it: no      *)
(* crash, account switch or lost answer may lose it.                       *)
NothingLost ==
  \A o \in Op :
    seq[o] > 0 /\ status[o] \in {"none", "acked"} /\ o \notin dropped
      => receipt[o] = "accepted" /\ effects[o] = 1

(* The server never commits an operation before the prerequisites recorded *)
(* with it, whatever was retried, delayed or settled in between.           *)
CausalOrder ==
  \A o \in Op : \A p \in deps[o] :
    receipt[o] = "accepted" /\ <<p, o>> \in Prereq => receipt[p] = "accepted"

(* Effects are committed with the credential of the account that issued    *)
(* the operation, although the account may change at every await.          *)
OwnCredential ==
  \A o \in Op : effects[o] > 0 => signer[o] = Owner[o]

(* One device executes in order: when an exchange commits an operation,    *)
(* every earlier one of its lane is committed too, or was settled or       *)
(* discarded.  A request that arrives after the client gave up on it may   *)
(* overtake a version conflict that a later flush reopened.                *)
LaneOrder ==
  [][Execute =>
       \A o \in Op : effects'[o] > effects[o] =>
         \A p \in Lane(Owner[o]) : seq[p] \in 1 .. (seq[o] - 1) =>
           receipt'[p] = "accepted" \/ status[p] \in {"conflict", "none"}]_vars

(* A row settled because its prerequisite failed has a prerequisite that   *)
(* did fail: it is in conflict or was discarded, or it was in a version    *)
(* conflict that a later flush reopened while its dependants stay settled. *)
LapsedForCause ==
  \A o \in Op : status[o] = "conflict" /\ code[o] = "lapsed" =>
    \E p \in Op :
      /\ DependsOn(o, p)
      /\ status[p] = "conflict" \/ p \in dropped \cup reopened

(* A conflict that is not recoverable is never reopened.                   *)
ConflictIsFinal ==
  [][\A o \in Op : status[o] = "conflict" /\ code[o] # "stale"
       => status'[o] \in {"conflict", "none"}]_vars

(* So it is for every operation a command cannot abort during a flush: no  *)
(* flush that read, selected or sent a row earlier writes over the final   *)
(* conflict the row has become.                                            *)
ConflictStays ==
  [][\A o \in Op \ Gathering : status[o] = "conflict" /\ code[o] # "stale"
       => status'[o] \in {"conflict", "none"}]_vars

(* The outbox, the exchange and the ledger together keep the promise of    *)
(* OperationDelivery: operations in conflict still wait, since a flush or  *)
(* a late request may bring them through.                                  *)
Fate(o) ==
  IF seq[o] = 0 THEN "fresh"
  ELSE IF o \in dropped THEN "abandoned"
  ELSE IF status[o] \in {"none", "acked"} THEN "delivered"
  ELSE "waiting"

Delivery == INSTANCE OperationDelivery
              WITH phase <- [o \in Op |-> Fate(o)], applied <- effects

KeepsDelivery == Delivery!Spec

(* No row is settled while another account than its owner's is signed in:  *)
(* "never project or delete it into this account".                         *)
SettledByOwner ==
  [][\A o \in Op : status[o] = "inflight" /\ status'[o] \in {"none", "acked"}
       => session \in {Owner[o], NoActor}]_vars

(* Selection passes over a row that waits out its backoff: an operation    *)
(* that is due and depends on nothing open is in the selected batch.       *)
NoHeadOfLine ==
  [][pc = "select" /\ pc' # pc /\ faults' = faults =>
       \A o \in Lane(session) :
         /\ IsOpen(o) /\ Eligible(o) /\ ~Unmet(o, {})
         /\ Cardinality(batch') < MaxBatch
         => o \in batch']_vars

(* As long as its owner stays signed in, a queued operation is settled.    *)
Settles ==
  \A o \in Op : (IsOpen(o) /\ session = Owner[o])
                ~> (~IsOpen(o) \/ session # Owner[o])

=============================================================================
