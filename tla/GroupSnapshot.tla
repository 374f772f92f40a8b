--------------------------- MODULE GroupSnapshot ---------------------------
(***************************************************************************)
(* What one group looks like on one device: useGroupState.ts (the view, its *)
(* reload machine and its open operations), coreDataStore.ts (the stored   *)
(* card and its serial lane), the enqueue and settle transactions of the   *)
(* outbox that write the card, and the exchange that answers both.         *)
(*                                                                         *)
(* An itinerary is a set of items: 0 is there at first, 1 .. MaxOps are    *)
(* added by this device's operations, Theirs by another member.  Versions  *)
(* index the server's history, and stand for the revision and the commit   *)
(* timestamp too, which the code compares in the same way.  A step between *)
(* two awaits is atomic; "queue" is the serial lane of the store, and the  *)
(* lane of the outbox is taken while receipts of an exchange are left.     *)
(***************************************************************************)
EXTENDS Integers, Sequences, FiniteSets

CONSTANTS
  Accounts,     \* accounts that use the device in turn, members of the group
  NoOne,        \* nobody signed in
  MaxOps,       \* bound: operations enqueued on this device
  MaxEvents     \* bound: operations, edits of other members, changes of the
                \* session, crashes, lost replies and deadlines together

GroupAssumption ==
  /\ NoOne \notin Accounts
  /\ MaxOps \in Nat /\ MaxEvents \in Nat

VARIABLES
  history,  \* server: the itinerary at versions 0, 1, ...
  verdict,  \* server: what it answered to an operation, and at which version
  ops,      \* rows of the outbox
  store,    \* the stored card of the group
  session,  \* account the session guard reports
  actor,    \* account the hook works for (myUserIdRef)
  view,     \* stateRef: what the screens paint before open operations
  open,     \* openOperationsRef
  relist,   \* a refreshOpenOperations waits for the lane of the outbox
  queue,    \* requests in the serial lane of the store
  load,     \* the load in flight
  pending,  \* pendingReloadRef
  due,      \* the debounce timer runs
  latest,   \* latestRevisionRef
  supplied, \* recoveries of exchanges that wait for the load in flight
  flight,   \* the exchange in flight
  writer,   \* account whose enqueue waits for the lane of the outbox
  mixed,    \* history: a card was written under another account's name
  bare,     \* history: an operation was written on a card of nobody
  events

serverVars == <<history, verdict>>
paintVars == <<view, open, relist>>
loadVars == <<load, pending, due, latest, supplied>>
vars == <<serverVars, ops, store, session, actor, paintVars, queue, loadVars,
          flight, writer, mixed, bare, events>>

Op == 1 .. MaxOps
Theirs == MaxOps + 1
Item == 0 .. Theirs
Now == Len(history) - 1
PlanAt(v) == history[v + 1]
Most(a, b) == IF a > b THEN a ELSE b

NoCard == [owner |-> NoOne, plan |-> {}, applied |-> {}, version |-> -1]
NoView == [plan |-> {}, applied |-> {-1}]
NoLoad == [phase |-> "none", base |-> 0, painted |-> FALSE, version |-> 0]
NoFlight == [on |-> FALSE, who |-> NoOne, left |-> {}, version |-> 0]
Unused == [state |-> "unused", owner |-> NoOne, removes |-> FALSE]
Unjudged == [answer |-> "none", version |-> 0]

Own(who) == {o \in Op : ops[o].state = "open" /\ ops[o].owner = who}
Earliest(os) == CHOOSE o \in os : \A p \in os : o <= p
LaneFree == flight.left = {}

-----------------------------------------------------------------------------
(* The card and its projections *)

Effect(plan, os) ==
  (plan \union {o \in os : ~ops[o].removes})
    \ (IF \E o \in os : ops[o].removes THEN {0} ELSE {})

Undo(plan, o) == IF ops[o].removes THEN plan \union {0} ELSE plan \ {o}

ProjectAdded(plan, applied, intents) ==
  plan \union {o \in intents \ applied : ~ops[o].removes}

(* Open operations the plan does not contain yet are applied to it. *)
Project(plan, applied, intents) == Effect(plan, intents \ applied)

Displayed ==
  IF view = NoView THEN {} ELSE Project(view.plan, view.applied, open)

ReadableAny(who) == store # NoCard

(* A card of another account is a cache miss. *)
Readable(who) == store # NoCard /\ store.owner \in {NoOne, who}

(* Reads asked for by what has been superseded still take their turn, and   *)
(* have no effect.                                                         *)
Without(kinds) ==
  [i \in DOMAIN queue |-> IF queue[i].kind \in kinds
                          THEN [kind |-> "none", version |-> 0] ELSE queue[i]]

(* Every change of the outbox asks for the stored card; only the last      *)
(* request may still paint.                                                *)
Painting == Append(Without({"apply"}), [kind |-> "apply", version |-> 0])

(* saveRemoteGroupState: an older recovery keeps the stored plan, and open *)
(* operations are projected on what is written.                            *)
Saved(v) ==
  LET existing == IF Readable(session) THEN store ELSE NoCard
      kept == existing # NoCard /\ v < existing.version
      mine == IF session = NoOne THEN {} ELSE Own(session)
      plan == IF kept THEN existing.plan ELSE PlanAt(v)
      applied == IF kept THEN existing.applied ELSE {}
  IN  [owner |-> session,
       plan |-> Project(plan, applied, mine),
       applied |-> IF mine = {} THEN applied ELSE mine,
       version |-> IF kept \/ mine # {} THEN Most(v, existing.version) ELSE v]

(* applyAcceptedEffects: the answer of the server, with the account's      *)
(* other operations projected on it; the owner of the card stays.          *)
Accepted(o) ==
  LET others == Own(ops[o].owner) \ {o}
      v == verdict[o].version
  IN  [store EXCEPT !.plan = Project(PlanAt(v), {}, others),
                    !.applied = others,
                    !.version = IF others = {} THEN v ELSE Most(v, @)]

(* handleSubmitResult: with the server's state in the conflict it replaces *)
(* the card; without it the operation is undone and the predicted version  *)
(* stays.                                                                  *)
RefusedWith(o) ==
  LET others == Own(ops[o].owner) \ {o}
      v == verdict[o].version
  IN  [store EXCEPT !.plan = Project(PlanAt(v), {}, others),
                    !.applied = others, !.version = v]

RefusedBare(o) ==
  [store EXCEPT !.plan = Undo(@, o),
                !.applied = @ \intersect (Own(ops[o].owner) \ {o})]

(* A group on the screen is painted from its card and loaded. *)
Hydration(who) ==
  IF who = NoOne THEN <<>> ELSE << [kind |-> "apply", version |-> 0] >>

-----------------------------------------------------------------------------
Init ==
  /\ history = << {0} >> /\ verdict = [o \in Op |-> Unjudged]
  /\ ops = [o \in Op |-> Unused] /\ store = NoCard
  /\ session \in Accounts \union {NoOne} /\ actor = session
  /\ view = NoView /\ open = {} /\ relist = FALSE
  /\ queue = Hydration(actor) /\ due = (actor # NoOne)
  /\ load = NoLoad /\ pending = FALSE /\ latest = 0
  /\ supplied = {} /\ flight = NoFlight /\ writer = NoOne
  /\ mixed = FALSE /\ bare = FALSE /\ events = 0

(* load: start a request, or join the one in flight; only a manual refresh *)
(* or a newer revision asks for another one.                               *)
Called(current, revision, manual) ==
  IF current.phase = "none"
  THEN [load |-> [NoLoad EXCEPT !.phase = "asked", !.base = revision],
        again |-> FALSE]
  ELSE [load |-> current, again |-> manual \/ revision # current.base]

Reload(manual) ==
  LET call == Called(load, latest, manual)
  IN  load' = call.load /\ pending' = (pending \/ call.again)

With(v) == [NoLoad EXCEPT !.phase = "served", !.base = latest, !.version = v]

(* The load in flight is over: a reload asked for meanwhile starts now, in  *)
(* the place of the debounce timer, or else a recovery that waited.        *)
Ended(again) ==
  IF pending \/ again
  THEN /\ load' = [NoLoad EXCEPT !.phase = "asked", !.base = latest]
       /\ pending' = FALSE /\ due' = FALSE /\ UNCHANGED supplied
  ELSE /\ UNCHANGED <<pending, due>>
       /\ IF supplied = {} THEN load' = NoLoad /\ UNCHANGED supplied
          ELSE \E v \in supplied :
                 load' = With(v) /\ supplied' = supplied \ {v}

Failed ==
  IF load.phase = "asked" THEN Ended(FALSE)
  ELSE UNCHANGED <<load, pending, due, supplied>>

-----------------------------------------------------------------------------
(* The server and its messages *)

MemberEdits ==
  /\ events < MaxEvents /\ events' = events + 1
  /\ \E plan \in {PlanAt(Now) \union {Theirs}, PlanAt(Now) \ {0}} :
       plan # PlanAt(Now) /\ history' = Append(history, plan)
  /\ UNCHANGED <<verdict, ops, store, session, actor, paintVars, queue,
                 loadVars, flight, writer, mixed, bare>>

(* Realtime: a commit the view has not passed is noted, and asks for a     *)
(* reload now or after the load in flight.  Events may be lost or late.    *)
Realtime ==
  /\ actor # NoOne
  /\ \E v \in 1 .. Now :
       /\ v >= latest /\ latest' = v
       /\ IF load.phase = "none" THEN due' = TRUE /\ UNCHANGED pending
                                 ELSE pending' = TRUE /\ UNCHANGED due
  /\ UNCHANGED <<serverVars, ops, store, session, actor, paintVars, queue,
                 load, supplied, flight, writer, mixed, bare, events>>

Debounced ==
  /\ due /\ actor # NoOne /\ due' = FALSE /\ Reload(FALSE)
  /\ UNCHANGED <<serverVars, ops, store, session, actor, paintVars, queue,
                 latest, supplied, flight, writer, mixed, bare, events>>

Poll ==
  /\ actor # NoOne /\ Reload(TRUE)
  /\ UNCHANGED <<serverVars, ops, store, session, actor, paintVars, queue,
                 due, latest, supplied, flight, writer, mixed, bare, events>>

-----------------------------------------------------------------------------
(* Operations of the user *)

EnqueueReads ==
  /\ writer = NoOne /\ session # NoOne /\ actor = session /\ Readable(session)
  /\ \E o \in Op : ops[o] = Unused
  /\ writer' = session /\ events < MaxEvents /\ events' = events + 1
  /\ UNCHANGED <<serverVars, ops, store, session, actor, paintVars, queue,
                 loadVars, flight, mixed, bare>>

(* enqueueMutation: the operation belongs to the session of this moment,   *)
(* and the card is written as it is found.                                 *)
EnqueueCommits ==
  /\ writer # NoOne /\ LaneFree /\ writer' = NoOne
  /\ IF session = NoOne THEN UNCHANGED <<ops, store, queue, mixed, bare>>
     ELSE \E removes \in BOOLEAN :
       LET o == Earliest({p \in Op : ops[p] = Unused})
       IN  /\ removes => 0 \in store.plan
           /\ ops' = [ops EXCEPT ![o] = [state |-> "open", owner |-> session,
                                         removes |-> removes]]
           /\ store' = [owner |-> session,
                        plan |-> IF removes THEN store.plan \ {0}
                                 ELSE store.plan \union {o},
                        applied |-> store.applied \union {o},
                        version |-> store.version + 1]
           /\ mixed' = (mixed \/ store.owner \notin {NoOne, session})
           /\ bare' = (bare \/ store.owner = NoOne)
           /\ queue' = Painting
  /\ UNCHANGED <<serverVars, session, actor, paintVars, loadVars, flight,
                 events>>

-----------------------------------------------------------------------------
(* The exchange *)

(* The server judges a prefix of the operations, each of them once, up to *)
(* the first it refuses, and answers with its verdicts and a snapshot.     *)
Judges(passed) ==
  LET rest == Own(session) \ passed
      stopped == {o \in rest : \A p \in rest : o <= p}
      fresh == {o \in passed : verdict[o].answer = "none"}
      upTo(o) == {p \in fresh : p <= o}
      after ==
        history \o [i \in 1 .. Cardinality(fresh) |->
          Effect(PlanAt(Now), {o \in fresh : Cardinality(upTo(o)) <= i})]
  IN  /\ \A o \in passed, p \in rest : o < p
      /\ \A o \in passed : verdict[o].answer # "refused"
      /\ \A o \in stopped : verdict[o].answer # "accepted"
      /\ history' = after
      /\ verdict' = [o \in Op |->
           IF o \in fresh
           THEN [answer |-> "accepted", version |-> Now + Cardinality(upTo(o))]
           ELSE IF o \in stopped /\ verdict[o].answer = "none"
           THEN [answer |-> "refused", version |-> Len(after) - 1]
           ELSE verdict[o]]
      /\ flight' = [on |-> TRUE, who |-> session, left |-> passed \union stopped,
                    version |-> Len(after) - 1]

(* Anybody may ask, for operations, locations or a recovery; a load joins  *)
(* the exchange in flight.                                                 *)
ExchangeServed ==
  /\ ~flight.on /\ session # NoOne
  /\ \E passed \in SUBSET Own(session) : Judges(passed)
  /\ UNCHANGED <<ops, store, session, actor, paintVars, queue, loadVars,
                 writer, mixed, bare, events>>

(* One receipt: the row, the card and the notification; another session    *)
(* leaves the rows that remain to their owner.                             *)
Receipt ==
  /\ flight.on /\ flight.left # {}
  /\ LET o == Earliest(flight.left)
     IN  IF session # flight.who
         THEN /\ flight' = [flight EXCEPT !.left = {}]
              /\ UNCHANGED <<ops, store, queue, mixed>>
         ELSE /\ flight' = [flight EXCEPT !.left = @ \ {o}]
              /\ ops' = [ops EXCEPT ![o].state =
                           IF verdict[o].answer = "accepted" THEN "settled"
                           ELSE "refused"]
              /\ IF verdict[o].answer = "accepted" THEN store' = Accepted(o)
                 ELSE store' \in {RefusedWith(o), RefusedBare(o)}
              /\ mixed' = (mixed \/ store.owner # session)
              /\ queue' = Painting
  /\ UNCHANGED <<serverVars, session, actor, paintVars, loadVars, writer,
                 bare, events>>

(* The recovery goes to the load that waits and to the listeners.          *)
ExchangeEnds ==
  /\ flight.on /\ flight.left = {} /\ flight' = NoFlight
  /\ IF session # flight.who THEN Failed
     ELSE /\ UNCHANGED <<pending, due>>
          /\ IF load.phase = "none" /\ actor = flight.who
             THEN load' = With(flight.version) /\ UNCHANGED supplied
             ELSE /\ supplied' = IF actor # flight.who THEN supplied
                                 ELSE supplied \union {flight.version}
                  /\ load' = IF load.phase = "asked"
                             THEN [load EXCEPT !.phase = "served",
                                               !.version = flight.version]
                             ELSE load
  /\ UNCHANGED <<serverVars, ops, store, session, actor, paintVars, queue,
                 latest, writer, mixed, bare, events>>

ReplyLost ==
  /\ flight.on /\ events < MaxEvents /\ events' = events + 1
  /\ flight' = NoFlight /\ Failed
  /\ UNCHANGED <<serverVars, ops, store, session, actor, paintVars, queue,
                 latest, writer, mixed, bare>>

-----------------------------------------------------------------------------
(* The load *)

(* applyLocalSnapshot: the card at the head of the lane is painted unless   *)
(* it is another account's.                                                *)
ApplyReads ==
  /\ queue # <<>> /\ Head(queue).kind = "apply"
  /\ queue' = Tail(queue) /\ relist' = TRUE
  /\ IF Readable(session)
     THEN /\ view' = [plan |-> store.plan, applied |-> store.applied]
          /\ load' = [load EXCEPT !.painted = load.phase # "none"]
     ELSE UNCHANGED <<view, load>>
  /\ UNCHANGED <<serverVars, ops, store, session, actor, open, pending, due,
                 latest, supplied, flight, writer, mixed, bare, events>>

Overtaken ==
  /\ queue # <<>> /\ Head(queue).kind = "none" /\ queue' = Tail(queue)
  /\ UNCHANGED <<serverVars, ops, store, session, actor, paintVars, loadVars,
                 flight, writer, mixed, bare, events>>

ListedMerged ==
  open \union (IF session = actor THEN Own(session) ELSE {})

(* refreshOpenOperations: what the outbox lists for the session, of which   *)
(* the hook keeps its actor's; an intent that is gone asks for a reload.   *)
Listed == IF session = actor THEN Own(session) ELSE {}

Relists ==
  /\ relist /\ LaneFree /\ relist' = FALSE /\ open' = Listed
  /\ IF open \subseteq Listed THEN UNCHANGED <<load, pending>>
     ELSE Reload(FALSE)
  /\ UNCHANGED <<serverVars, ops, store, session, actor, view, queue, due,
                 latest, supplied, flight, writer, mixed, bare, events>>

(* After the answer: receipts first, then a paint or a newer revision that  *)
(* came meanwhile makes this recovery too old.                             *)
LoadLists ==
  /\ load.phase = "served" /\ LaneFree /\ open' = Listed
  /\ IF load.painted
     THEN /\ Ended(TRUE) /\ UNCHANGED <<latest, queue>>
     ELSE /\ UNCHANGED supplied
          /\ pending' = (pending \/ (~(open \subseteq Listed) /\ latest # load.base))
          /\ UNCHANGED due
          /\ IF load.version < latest
             THEN /\ load' = [load EXCEPT !.phase = "closing"]
                  /\ UNCHANGED <<latest, queue>>
             ELSE /\ load' = [load EXCEPT !.phase = "reading"]
                  /\ latest' = load.version
                  /\ queue' = Append(queue, [kind |-> "check",
                                             version |-> load.version])
  /\ UNCHANGED <<serverVars, ops, store, session, actor, view, relist,
                 flight, writer, mixed, bare, events>>

(* The stored card has been read: the recovery is painted and its save      *)
(* queued.                                                                 *)
LoadPaints ==
  /\ queue # <<>> /\ Head(queue).kind = "check"
  /\ view' = [plan |-> PlanAt(load.version), applied |-> {}]
  /\ load' = [load EXCEPT !.phase = "saving"]
  /\ queue' = Append(Tail(queue), [kind |-> "save", version |-> load.version])
  /\ UNCHANGED <<serverVars, ops, store, session, actor, open, relist,
                 pending, due, latest, supplied, flight, writer, mixed, bare,
                 events>>

Saves ==
  /\ queue # <<>> /\ Head(queue).kind = "save"
  /\ queue' = Tail(queue) /\ store' = Saved(Head(queue).version)
  /\ load' = IF load.phase = "saving" THEN [load EXCEPT !.phase = "closing"]
             ELSE load
  /\ UNCHANGED <<serverVars, ops, session, actor, paintVars, pending, due,
                 latest, supplied, flight, writer, mixed, bare, events>>

LoadCloses ==
  /\ load.phase = "closing" /\ LaneFree /\ open' = Listed
  /\ Ended(~(open \subseteq Listed) /\ latest # load.base)
  /\ UNCHANGED <<serverVars, ops, store, session, actor, view, relist, queue,
                 latest, flight, writer, mixed, bare, events>>

DeadlinePasses ==
  /\ load.phase = "asked" /\ events < MaxEvents /\ events' = events + 1
  /\ Ended(FALSE)
  /\ UNCHANGED <<serverVars, ops, store, session, actor, paintVars, queue,
                 latest, flight, writer, mixed, bare>>

-----------------------------------------------------------------------------
(* Identities and the process *)

(* Requests of the previous identity or process lose their effect; a save   *)
(* already in the lane is written all the same.                            *)
Fresh(who, saves) ==
  /\ actor' = who /\ view' = NoView /\ open' = {} /\ relist' = FALSE
  /\ load' = NoLoad /\ pending' = FALSE /\ latest' = 0 /\ supplied' = {}
  /\ queue' = saves \o Hydration(who) /\ due' = (who # NoOne)

(* Somebody signs in on a screen that shows the account before has left. *)
SessionChanges ==
  /\ events < MaxEvents /\ events' = events + 1 /\ actor = session
  /\ session' \in (Accounts \union {NoOne}) \ {session}
  /\ UNCHANGED <<serverVars, ops, store, actor, paintVars, queue, loadVars,
                 flight, writer, mixed, bare>>

(* prepareGroupIdentity, when React has rendered the new account. *)
IdentityPrepared ==
  /\ actor # session
  /\ Fresh(session, Without({"apply", "check"}))
  /\ UNCHANGED <<serverVars, ops, store, session, flight, writer, mixed, bare,
                 events>>

Crash ==
  /\ events < MaxEvents /\ events' = events + 1
  /\ Fresh(session, <<>>)
  /\ flight' = NoFlight /\ writer' = NoOne
  /\ UNCHANGED <<serverVars, ops, store, session, mixed, bare>>

-----------------------------------------------------------------------------
Next ==
  \/ MemberEdits \/ Realtime \/ Debounced \/ Poll
  \/ EnqueueReads \/ EnqueueCommits
  \/ ExchangeServed
  \/ Receipt \/ ExchangeEnds \/ ReplyLost
  \/ ApplyReads \/ Overtaken \/ Relists
  \/ LoadLists \/ LoadPaints \/ Saves \/ LoadCloses \/ DeadlinePasses
  \/ SessionChanges \/ IdentityPrepared \/ Crash

Spec == Init /\ [][Next]_vars

Wanted == load.phase = "asked" \/ Own(session) # {}

(* Timers fire, requests are answered and lanes move; polls repeat while    *)
(* the group is on the screen.  Edits, events, accounts owe nothing.       *)
Fairness ==
  /\ WF_vars(Debounced) /\ WF_vars(Poll) /\ WF_vars(EnqueueCommits)
  /\ WF_vars(Wanted /\ ExchangeServed) /\ WF_vars(Receipt) /\ WF_vars(ExchangeEnds)
  /\ WF_vars(ApplyReads) /\ WF_vars(Overtaken) /\ WF_vars(Relists)
  /\ WF_vars(LoadLists) /\ WF_vars(LoadPaints) /\ WF_vars(Saves)
  /\ WF_vars(LoadCloses) /\ WF_vars(IdentityPrepared)

FairSpec == Spec /\ Fairness

-----------------------------------------------------------------------------
(* Properties *)

TypeOK ==
  /\ history # <<>> /\ \A v \in DOMAIN history : history[v] \subseteq Item
  /\ verdict \in [Op -> [answer : {"none", "accepted", "refused"},
                         version : 0 .. Now]]
  /\ ops \in [Op -> [state : {"unused", "open", "settled", "refused"},
                     owner : Accounts \union {NoOne}, removes : BOOLEAN]]
  /\ store.owner \in Accounts \union {NoOne}
  /\ store.plan \subseteq Item /\ store.applied \subseteq Op
  /\ view # NoView => view.plan \subseteq Item /\ view.applied \subseteq Op
  /\ open \subseteq Op /\ latest \in 0 .. Now /\ supplied \subseteq 0 .. Now
  /\ \A i \in DOMAIN queue : queue[i].version \in 0 .. Now
  /\ load.phase \in {"none", "asked", "served", "reading", "saving", "closing"}
  /\ load.version \in 0 .. Now /\ flight.version \in 0 .. Now
  /\ flight.left \subseteq Op /\ flight.who \in Accounts \union {NoOne}
  /\ session \in Accounts \union {NoOne} /\ actor \in Accounts \union {NoOne}

(* What the screens show of another account's operation the server has     *)
(* accepted: a card under its owner's name holds nobody else's drafts.     *)
OthersDraft(o) ==
  /\ session = actor /\ ops[o].owner \notin {actor, NoOne}
  /\ verdict[o].answer # "accepted"
  /\ ~ops[o].removes /\ o \in Displayed

DraftsPrivate == \A o \in Op : OthersDraft(o) => mixed

NoDraftPainted == \A o \in Op : ~OthersDraft(o)

(* An intent on the screen stays there until the server has judged it,     *)
(* whatever recovery, receipt of another operation or save comes between.  *)
(* Not so once an operation was written on a card that is not the          *)
(* account's: that card lacks its other intents, so that the same stop may *)
(* be removed twice and the refusal of one removal shows it again.         *)
Shown(o) ==
  /\ ops[o].state = "open" /\ ops[o].owner = actor /\ view # NoView
  /\ o \in open \union view.applied
  /\ IF ops[o].removes THEN 0 \notin Displayed ELSE o \in Displayed

IntentKept ==
  [][\A o \in Op :
       /\ Shown(o) /\ session = actor /\ ~mixed /\ ~bare
       /\ ops'[o].state = "open" /\ actor' = actor /\ view' # NoView
       => Shown(o)']_vars

(* Once the session, the edits and the operations rest, the view becomes   *)
(* the itinerary of the server and stays it.                               *)
Converges ==
  <>[](actor \in Accounts => /\ view # NoView
                             /\ Displayed = PlanAt(Now))

(* "this slower poll only repairs events the channel silently missed": an  *)
(* event that was delivered leaves something in motion until its revision  *)
(* is painted.                                                             *)
AtRest ==
  /\ load.phase = "none" /\ ~due /\ queue = <<>> /\ supplied = {}
  /\ ~flight.on /\ ~relist /\ actor = session

HeardIsShown ==
  AtRest /\ view # NoView =>
    Own(actor) # {} \/ \E v \in latest .. Now : view.plan = PlanAt(v)
=============================================================================
