--------------------------- MODULE LocationOutbox ---------------------------
(***************************************************************************)
(* GPS samples on their way to the server: the access that location        *)
(* privacy grants and revokes, the durable location outbox with its serial *)
(* lane, the exchange that carries a batch, and ingest_location_batch.     *)
(*                                                                         *)
(* Consent may be withdrawn, the account may change and the process may    *)
(* die at every await.  The code answers with generations: work captures   *)
(* the access it runs under, checks it again before it acts, and whatever  *)
(* withdraws consent puts a purge on the lane.                             *)
(*                                                                         *)
(* One group is modelled, and one exchange at a time: syncGroup puts the   *)
(* exchanges of an account one after the other.  A sample is the number of *)
(* its capture time; nothing orders the arrival of samples.                *)
(***************************************************************************)
EXTENDS Naturals, Sequences, FiniteSets

CONSTANTS
  Samples,     \* samples 1 .. Samples are captured on this device
  Actor,       \* accounts used on this device
  NoActor,
  MaxBatch,    \* samples in one exchange (50)
  MaxChanges,  \* bound: changes of access and of account
  MaxFaults    \* bound: crashes, failed reads and writes, refusals, lost
               \*   answers, cut batches, rows that expire

LocationAssumption ==
  /\ NoActor \notin Actor
  /\ Samples \in Nat /\ MaxBatch \in Nat \ {0}
  /\ MaxChanges \in Nat /\ MaxFaults \in Nat

VARIABLES
  stage,       \* "new", "asking", "queued", "row", "sent", "lost"
  grant,       \* the access generation a sample was captured under
  owner,       \* actorId of a sample, fixed when it is enqueued
  ready,       \* next_attempt_at has passed
  unchecked,   \* inserted samples whose access is to be checked again
  context, consent, generation,           \* locationPrivacy
  wish, saved, \* the sharing switch in memory and in AsyncStorage
  session,     \* the account signed in
  lane,        \* runSerial of the outbox: waiting tasks, the head is next
  pc, flight,  \* the exchange: where it stands and what it captured
  reply,
  request, late, \* a request on its way, and those nobody waits for
  stored,      \* location_upload_events: the user of each stored sample
  position,    \* member_locations: the newest sample of each account, or 0
  capturer,    \* history: the account a sample was captured under
  revoked,     \* history: the generation that last withdrew access
  slipped,     \* history: a purge died with the process or failed
  changes, faults

sampleVars == <<stage, grant, owner, ready, unchecked, capturer>>
accessVars == <<context, consent, generation, revoked>>
deviceVars == <<wish, saved, session>>
flightVars == <<pc, flight, reply, request>>
serverVars == <<late, stored, position>>
bounds == <<changes, faults>>
vars == <<sampleVars, accessVars, deviceVars, lane, flightVars, serverVars,
          slipped, bounds>>

Sample == 1 .. Samples
ActorOrNone == Actor \cup {NoActor}
Task == [kind : {"insert", "purge", "exchange"}, of : 0 .. Samples]
Insertion(s) == [kind |-> "insert", of |-> s]
(* Mutant: a purge is queued without the shape of a task. *)
PurgeBare == [kind |-> "purge"]

Purge == [kind |-> "purge", of |-> 0]
Exchange == [kind |-> "exchange", of |-> 0]
Request == [events : SUBSET Sample, actor : ActorOrNone]
NoRequest == [events |-> {}, actor |-> NoActor]
NoFlight == [actor |-> NoActor, grant |-> 0, batch |-> {}]
NoReply == [accepted |-> {}, rejected |-> {}, untouched |-> {}]

TypeOK ==
  /\ stage \in [Sample -> {"new", "asking", "queued", "row", "sent", "lost"}]
  /\ grant \in [Sample -> Nat]
  /\ owner \in [Sample -> ActorOrNone] /\ capturer \in [Sample -> ActorOrNone]
  /\ ready \in [Sample -> BOOLEAN] /\ unchecked \subseteq Sample
  /\ context \in {"group", "none", "pending"} /\ consent \in BOOLEAN
  /\ generation \in Nat /\ revoked \in Nat
  /\ wish \in BOOLEAN /\ saved \in BOOLEAN /\ session \in ActorOrNone
  /\ lane \in Seq(Task)
  /\ pc \in {"idle", "ask", "queued", "permit", "transmit", "wait", "answer"}
  /\ flight \in [actor : ActorOrNone, grant : Nat, batch : SUBSET Sample]
  /\ reply \in [accepted : SUBSET Sample, rejected : SUBSET Sample,
                untouched : SUBSET Sample]
  /\ request \in Request /\ late \subseteq Request
  /\ stored \in [Sample -> ActorOrNone]
  /\ position \in [Actor -> 0 .. Samples]
  /\ slipped \in BOOLEAN
  /\ changes \in 0 .. MaxChanges /\ faults \in 0 .. MaxFaults

(* Just launched, by a signed-in user or not; the map restores its inputs.  *)
Init ==
  /\ stage = [s \in Sample |-> "new"]
  /\ grant = [s \in Sample |-> 0]
  /\ owner = [s \in Sample |-> NoActor] /\ capturer = owner
  /\ ready = [s \in Sample |-> TRUE] /\ unchecked = {}
  /\ context = "pending" /\ consent = FALSE /\ generation = 0 /\ revoked = 0
  /\ wish = TRUE /\ saved = TRUE /\ session \in ActorOrNone
  /\ lane = <<>>
  /\ pc = "idle" /\ flight = NoFlight /\ reply = NoReply /\ request = NoRequest
  /\ late = {} /\ stored = [s \in Sample |-> NoActor]
  /\ position = [a \in Actor |-> 0]
  /\ slipped = FALSE /\ changes = 0 /\ faults = 0

RowsIn == {s \in Sample : stage[s] = "row"}
Fault == faults < MaxFaults /\ faults' = faults + 1
Change == changes < MaxChanges /\ changes' = changes + 1

-----------------------------------------------------------------------------
(* Access to location: locationPrivacy. *)

Enabled == consent /\ context = "group"

(* isLocationAccessCurrent of an access captured at generation g. *)
Current(g) == Enabled /\ generation = g

(* A purge right behind a purge finds nothing more to delete. *)
WithPurge == IF lane # <<>> /\ lane[Len(lane)] = Purge THEN lane
             ELSE Append(lane, Purge)

(* Mutant: a withdrawal leaves the queue to the next flush. *)
BecomeQuiet(c, e) ==
  LET changed == c # context \/ e # consent
      off == changed /\ ~(e /\ c = "group") /\ c # "pending"
  IN
    /\ context' = c /\ consent' = e
    /\ generation' = IF changed THEN generation + 1 ELSE generation
    /\ revoked' = IF off THEN generation + 1 ELSE revoked
    /\ UNCHANGED lane

(* setLocationAccessContext and setLocationSharingConsent: a change        *)
(* invalidates every captured access, and the listener of backgroundJourney *)
(* purges when that left the access off for good.                          *)
Become(c, e) ==
  LET changed == c # context \/ e # consent
      off == changed /\ ~(e /\ c = "group") /\ c # "pending"
  IN
    /\ context' = c /\ consent' = e
    /\ generation' = IF changed THEN generation + 1 ELSE generation
    /\ revoked' = IF off THEN generation + 1 ELSE revoked
    /\ lane' = IF off THEN WithPurge ELSE lane

(* setSharingEnabled: the switch, the consent, and a write nobody awaits.  *)
(* Withdrawing while the map restores its inputs gives the context up.     *)
Toggle ==
  /\ Change
  /\ wish' = ~wish
  /\ Become(IF wish /\ context = "pending" THEN "none" ELSE context, ~wish)
  /\ UNCHANGED <<sampleVars, saved, session, flightVars, serverVars, slipped, faults>>

SavePreference ==
  /\ saved # wish /\ saved' = wish
  /\ UNCHANGED <<sampleVars, accessVars, wish, session, lane, flightVars,
                 serverVars, slipped, bounds>>

(* The map mounts or refreshes, suspends while it restores, or has no group. *)
SetContext(c) ==
  /\ Change /\ session # NoActor
  /\ c # context \/ consent # wish
  /\ Become(c, wish)
  /\ UNCHANGED <<sampleVars, deviceVars, flightVars, serverVars, slipped, faults>>

(* adoptActor runs in the auth callback, under the lock that requireUserId *)
(* needs: nobody sees the new account before the access is gone.  Signing  *)
(* in from nothing has nobody's access to take away.                       *)
ChangeAccount(a) ==
  /\ Change /\ a # session /\ session' = a
  /\ CASE session = NoActor -> UNCHANGED <<accessVars, lane>>
       [] session # NoActor /\ context = "none" /\ ~consent ->
            lane' = WithPurge /\ UNCHANGED accessVars
       [] OTHER -> Become("none", FALSE)
  /\ UNCHANGED <<sampleVars, wish, saved, flightVars, serverVars, slipped, faults>>

(* The process dies: its access, its lane and its exchange are gone, the   *)
(* rows and the stored switch are not.  A request on its way may arrive.   *)
Crash ==
  /\ Fault
  /\ stage' = [s \in Sample |-> IF stage[s] \in {"asking", "queued"} THEN "lost"
                                ELSE stage[s]]
  /\ unchecked' = {}
  /\ context' = "pending" /\ consent' = FALSE /\ generation' = generation + 1
  /\ wish' = saved
  /\ slipped' = (slipped \/ \E i \in 1 .. Len(lane) : lane[i] = Purge)
  /\ lane' = <<>>
  /\ pc' = "idle" /\ flight' = NoFlight /\ reply' = NoReply /\ request' = NoRequest
  /\ late' = IF pc = "wait" THEN late \cup {request} ELSE late
  /\ UNCHANGED <<grant, owner, ready, capturer, revoked, saved, session, stored,
                 position, changes>>

-----------------------------------------------------------------------------
(* enqueueLocationOutbox. *)

Capture(s) ==
  /\ stage[s] = "new" /\ \A t \in 1 .. (s - 1) : stage[t] # "new"
  /\ Enabled /\ session # NoActor
  /\ stage' = [stage EXCEPT ![s] = "asking"]
  /\ grant' = [grant EXCEPT ![s] = generation]
  /\ capturer' = [capturer EXCEPT ![s] = session]
  /\ UNCHANGED <<owner, ready, unchecked, accessVars, deviceVars, lane,
                 flightVars, serverVars, slipped, bounds>>

(* The stored switch and the account are read, the access is checked once  *)
(* more, and the insertion joins the lane.  A sample whose switch cannot be *)
(* read is dropped like one without access.                                *)
Label(s) ==
  /\ stage[s] = "asking"
  /\ \/ /\ saved /\ session # NoActor /\ Current(grant[s])
        /\ stage' = [stage EXCEPT ![s] = "queued"]
        /\ owner' = [owner EXCEPT ![s] = session]
        /\ lane' = Append(lane, Insertion(s))
        /\ UNCHANGED faults
     \/ /\ IF saved /\ session # NoActor /\ Current(grant[s])
           THEN Fault ELSE UNCHANGED faults
        /\ stage' = [stage EXCEPT ![s] = "lost"]
        /\ UNCHANGED <<owner, lane>>
  /\ UNCHANGED <<grant, ready, unchecked, capturer, accessVars, deviceVars,
                 flightVars, serverVars, slipped, changes>>

(* After its insertion the caller looks again and purges if anything about *)
(* the access has changed.                                                 *)
CheckAgain(s) ==
  /\ s \in unchecked /\ unchecked' = unchecked \ {s}
  /\ lane' = IF Current(grant[s]) THEN lane ELSE WithPurge
  /\ UNCHANGED <<stage, grant, owner, ready, capturer, accessVars, deviceVars,
                 flightVars, serverVars, slipped, bounds>>

(* flushLocationOutbox without access purges, unless the access is pending. *)
FlushDenied ==
  /\ ~(Enabled /\ saved) /\ context # "pending"
  /\ lane' = WithPurge
  /\ UNCHANGED <<sampleVars, accessVars, deviceVars, flightVars, serverVars,
                 slipped, bounds>>

-----------------------------------------------------------------------------
(* The lane: one task at a time, in the order they came. *)

(* The row is written, or the write fails and its caller with it. *)
Insert(s) ==
  /\ lane # <<>> /\ Head(lane) = Insertion(s) /\ lane' = Tail(lane)
  /\ \/ /\ stage' = [stage EXCEPT ![s] = "row"]
        /\ unchecked' = unchecked \cup {s}
        /\ UNCHANGED faults
     \/ Fault /\ stage' = [stage EXCEPT ![s] = "lost"] /\ UNCHANGED unchecked
  /\ UNCHANGED <<grant, owner, ready, capturer, accessVars, deviceVars, flightVars,
                 serverVars, slipped, changes>>

(* purgeLocationOutbox; nobody hears of one that fails. *)
PurgeRows ==
  /\ lane # <<>> /\ Head(lane) = Purge /\ lane' = Tail(lane)
  /\ \/ /\ stage' = [s \in Sample |-> IF stage[s] = "row" THEN "lost" ELSE stage[s]]
        /\ UNCHANGED <<slipped, faults>>
     \/ Fault /\ slipped' = TRUE /\ UNCHANGED stage
  /\ UNCHANGED <<grant, owner, ready, unchecked, capturer, accessVars, deviceVars,
                 flightVars, serverVars, changes>>

(* removeExpired deletes the rows that are a day old: oldest first. *)
DayOld == {{t \in RowsIn : t <= s} : s \in RowsIn}

(* flushLocationOutbox prunes before it asks for access. *)
PruneExpired ==
  /\ pc \notin {"permit", "transmit", "wait", "answer"} /\ Fault
  /\ \E gone \in DayOld :
       stage' = [s \in Sample |-> IF s \in gone THEN "lost" ELSE stage[s]]
  /\ UNCHANGED <<grant, owner, ready, unchecked, capturer, accessVars, deviceVars,
                 lane, flightVars, serverVars, slipped, changes>>

BackoffElapsed(s) ==
  /\ stage[s] = "row" /\ ~ready[s]
  /\ ready' = [ready EXCEPT ![s] = TRUE]
  /\ UNCHANGED <<stage, grant, owner, unchecked, capturer, accessVars, deviceVars,
                 lane, flightVars, serverVars, slipped, bounds>>

-----------------------------------------------------------------------------
(* The exchange. *)

(* syncGroup reads the account; the core operations come first. *)
StartExchange ==
  /\ pc = "idle" /\ session # NoActor
  /\ pc' = "ask" /\ flight' = [NoFlight EXCEPT !.actor = session]
  /\ UNCHANGED <<sampleVars, accessVars, deviceVars, lane, reply, request,
                 serverVars, slipped, bounds>>

(* exchangeLocationOutbox: with access the exchange joins the lane,        *)
(* without it, or if the switch cannot be read, the core operations travel *)
(* alone.                                                                  *)
Ask ==
  /\ pc = "ask"
  /\ \/ /\ Enabled /\ saved
        /\ pc' = "queued" /\ flight' = [flight EXCEPT !.grant = generation]
        /\ lane' = Append(lane, Exchange)
        /\ UNCHANGED faults
     \/ /\ IF Enabled /\ saved THEN Fault ELSE UNCHANGED faults
        /\ pc' = "idle" /\ flight' = NoFlight
        /\ UNCHANGED lane
  /\ UNCHANGED <<sampleVars, accessVars, deviceVars, reply, request, serverVars,
                 slipped, changes>>

(* The outcome of the exchange is recorded and the lane moves on. *)
Leave ==
  /\ pc' = "idle" /\ flight' = NoFlight /\ reply' = NoReply /\ request' = NoRequest
  /\ lane' = Tail(lane)

(* Mutant: an uploader that throws is called again, under the access it had. *)
FailRepeating(batch) ==
  /\ pc' = "queued" /\ flight' = [flight EXCEPT !.batch = {}]
  /\ reply' = NoReply /\ request' = NoRequest
  /\ UNCHANGED <<ready, lane>>

(* The uploader threw: every row of the batch backs off. *)
Fail(batch) ==
  /\ ready' = [s \in Sample |-> ready[s] /\ s \notin batch]
  /\ Leave

Newest(S, n) == {s \in S : Cardinality({t \in S : t > s}) < n}

(* runFlush: rows older than a day go, the newest due rows of the account  *)
(* are the batch, and the access is what it was when the exchange asked.   *)
Select ==
  /\ pc = "queued" /\ Head(lane) = Exchange
  /\ \E gone \in {{}} \cup DayOld :
       LET due == {s \in RowsIn \ gone : ready[s] /\ owner[s] = flight.actor}
           batch == Newest(due, MaxBatch)
       IN
         /\ IF gone = {} THEN UNCHANGED faults ELSE Fault
         /\ stage' = [s \in Sample |-> IF s \in gone THEN "lost" ELSE stage[s]]
         /\ \/ /\ batch # {} /\ Current(flight.grant)
               /\ pc' = "permit" /\ flight' = [flight EXCEPT !.batch = batch]
               /\ UNCHANGED <<ready, lane, reply, request>>
            \/ batch = {} /\ Leave /\ UNCHANGED ready
            \/ batch # {} /\ ~Current(flight.grant) /\ Fail(batch)
  /\ UNCHANGED <<grant, owner, unchecked, capturer, accessVars, deviceVars,
                 serverVars, slipped, changes>>

(* captureLocationAccess with the operating system's permission: granted,  *)
(* denied (the samples are given up) or not to be had (they are retried).  *)
Permit ==
  /\ pc = "permit"
  /\ \/ /\ saved /\ Current(flight.grant)
        /\ pc' = "transmit" /\ UNCHANGED <<reply, faults>>
     \/ /\ IF saved /\ Current(flight.grant) THEN Fault ELSE UNCHANGED faults
        /\ pc' = "answer"
        /\ reply' = [NoReply EXCEPT !.rejected = flight.batch]
     \/ Fault /\ pc' = "answer" /\ UNCHANGED reply
  /\ UNCHANGED <<sampleVars, accessVars, deviceVars, lane, flight, request,
                 serverVars, slipped, changes>>

(* Mutant: the request does not carry the AbortSignal of the access. *)
TransmitDeaf ==
  /\ pc = "transmit" /\ session = flight.actor
  /\ request' = [events |-> flight.batch, actor |-> session]
  /\ pc' = "wait"
  /\ UNCHANGED <<sampleVars, accessVars, deviceVars, lane, flight, reply,
                 serverVars, slipped, bounds>>

(* exchangeGroup: the account is still the same, the access that was       *)
(* captured has not been aborted, and what fits travels, newest first.     *)
Transmit ==
  /\ pc = "transmit"
  /\ \/ /\ session = flight.actor /\ Current(flight.grant)
        /\ \E n \in 0 .. Cardinality(flight.batch) :
             /\ IF n = Cardinality(flight.batch) THEN UNCHANGED faults ELSE Fault
             /\ request' = [events |-> Newest(flight.batch, n), actor |-> session]
        /\ pc' = "wait" /\ UNCHANGED <<ready, lane, flight, reply>>
     \/ /\ ~(session = flight.actor /\ Current(flight.grant))
        /\ Fail(flight.batch) /\ UNCHANGED faults
  /\ UNCHANGED <<stage, grant, owner, unchecked, capturer, accessVars, deviceVars,
                 serverVars, slipped, changes>>

(* Mutant: whatever is not rejected was accepted. *)
SettleAll ==
  /\ pc = "answer"
  /\ stage' = [s \in Sample |-> CASE s \in reply.rejected -> "lost"
                                  [] s \in flight.batch \ reply.rejected -> "sent"
                                  [] OTHER -> stage[s]]
  /\ Leave
  /\ UNCHANGED <<grant, owner, ready, unchecked, capturer, accessVars, deviceVars,
                 serverVars, slipped, bounds>>

(* The answer is used only under the account and the access of the asking; *)
(* accepted rows and rows given up go, rows not sent stay as they are.     *)
(* If resolveBatch fails the answer is forgotten.                          *)
Settle ==
  /\ pc = "answer"
  /\ \/ /\ session = flight.actor /\ Current(flight.grant)
        /\ stage' = [s \in Sample |-> CASE s \in reply.accepted -> "sent"
                                        [] s \in reply.rejected -> "lost"
                                        [] OTHER -> stage[s]]
        /\ ready' = [s \in Sample |-> ready[s] /\
                       s \notin flight.batch \ (reply.accepted \cup reply.rejected
                                                \cup reply.untouched)]
        /\ Leave /\ UNCHANGED faults
     \/ /\ ~(session = flight.actor /\ Current(flight.grant))
        /\ Fail(flight.batch) /\ UNCHANGED <<stage, faults>>
     \/ Fault /\ Leave /\ UNCHANGED <<stage, ready>>
  /\ UNCHANGED <<grant, owner, unchecked, capturer, accessVars, deviceVars,
                 serverVars, slipped, changes>>

-----------------------------------------------------------------------------
(* The server: ingest_location_batch. *)

MaxOf(S) == CHOOSE n \in S : \A m \in S : m <= n

(* A sample stored before is accepted again; of the others, taken newest   *)
(* first, one that is newer than the shown position is stored and shown,   *)
(* and the rest are stale and leave no trace.                              *)
Fresh(m) ==
  LET newer == {s \in m.events : stored[s] = NoActor /\ s > position[m.actor]}
  IN IF newer = {} THEN {} ELSE {MaxOf(newer)}

Accepted(m) == {s \in m.events : stored[s] = m.actor} \cup Fresh(m)

(* Mutant: the upsert of the shown position takes whatever comes last. *)
IngestAny(m) ==
  LET new == {s \in m.events : stored[s] = NoActor} IN
  /\ stored' = [s \in Sample |-> IF s \in new THEN m.actor ELSE stored[s]]
  /\ position' = IF new = {} THEN position
                 ELSE [position EXCEPT ![m.actor] = MaxOf(new)]

Ingest(m) ==
  /\ stored' = [s \in Sample |-> IF s \in Fresh(m) THEN m.actor ELSE stored[s]]
  /\ position' = IF Fresh(m) = {} THEN position
                 ELSE [position EXCEPT ![m.actor] = MaxOf(Fresh(m))]

Execute ==
  /\ pc = "wait" /\ pc' = "answer" /\ request' = NoRequest
  /\ Ingest(request)
  /\ reply' = [accepted |-> Accepted(request),
               rejected |-> request.events \ Accepted(request),
               untouched |-> flight.batch \ request.events]
  /\ UNCHANGED <<sampleVars, accessVars, deviceVars, lane, flight, late, slipped,
                 bounds>>

ExecuteLate(m) ==
  /\ m \in late /\ late' = late \ {m}
  /\ Ingest(m)
  /\ UNCHANGED <<sampleVars, accessVars, deviceVars, lane, flightVars, slipped,
                 bounds>>

(* The server takes nothing of a member who left or stopped sharing there, *)
(* or it rolls the events back and asks for them again.                    *)
Refuse ==
  /\ pc = "wait" /\ pc' = "answer" /\ request' = NoRequest /\ Fault
  /\ reply' \in [accepted : {{}}, rejected : {{}, request.events},
                 untouched : {flight.batch \ request.events}]
  /\ UNCHANGED <<sampleVars, accessVars, deviceVars, lane, flight, serverVars,
                 slipped, changes>>

(* The connection breaks, or the signal of a withdrawn access aborts the   *)
(* request: the server may have answered, may still act, or never hears.   *)
BreakOff ==
  /\ pc \in {"wait", "answer"}
  /\ IF Current(flight.grant) THEN Fault ELSE UNCHANGED faults
  /\ late' \in {late} \cup IF pc = "wait" THEN {late \cup {request}} ELSE {}
  /\ Fail(flight.batch)
  /\ UNCHANGED <<stage, grant, owner, unchecked, capturer, accessVars, deviceVars,
                 stored, position, slipped, changes>>

-----------------------------------------------------------------------------
Internal ==
  \/ PurgeRows \/ StartExchange \/ Ask \/ Select \/ Permit \/ Transmit
  \/ Execute \/ Settle \/ SavePreference
  \/ \E s \in Sample : Label(s) \/ CheckAgain(s) \/ Insert(s) \/ BackoffElapsed(s)

Next ==
  \/ Internal \/ Toggle \/ Crash \/ FlushDenied \/ PruneExpired
  \/ Refuse \/ BreakOff
  \/ \E c \in {"group", "none", "pending"} : SetContext(c)
  \/ \E a \in ActorOrNone : ChangeAccount(a)
  \/ \E s \in Sample : Capture(s)
  \/ \E m \in late : ExecuteLate(m)

Spec == Init /\ [][Next]_vars

(* Promises settle, the poll of the map starts exchanges, backoffs elapse. *)
Fairness ==
  /\ WF_vars(PurgeRows) /\ WF_vars(StartExchange) /\ WF_vars(Ask)
  /\ WF_vars(Select) /\ WF_vars(Permit) /\ WF_vars(Transmit)
  /\ WF_vars(Execute) /\ WF_vars(Settle)
  /\ \A s \in Sample : WF_vars(Label(s)) /\ WF_vars(Insert(s))
                       /\ WF_vars(BackoffElapsed(s))

FairSpec == Spec /\ Fairness

-----------------------------------------------------------------------------
(* Properties *)

(* Samples captured before access was withdrawn. *)
Withdrawn == {s \in Sample : grant[s] < revoked}

(* "Revoke first, then clear": once the lane has run its purges, no row of *)
(* a sample captured before a withdrawal is left, unless a purge died with *)
(* the process or failed.                                                  *)
WithdrawnLeave ==
  (lane = <<>> /\ ~slipped) => Withdrawn \cap RowsIn = {}

(* A request with samples is sent only while access is granted, by the     *)
(* account that captured them, and never carries a sample from before a    *)
(* withdrawal, even if access has been granted again.                      *)
SentUnderConsent ==
  [][(request'.events # {} /\ request' # request) =>
       /\ Enabled
       /\ \A s \in request'.events : capturer[s] = session
       /\ slipped \/ request'.events \cap Withdrawn = {}]_vars

(* The position shown for a member is the newest sample stored for them,   *)
(* whatever order batches, retries and late requests arrive in.            *)
NewestShown ==
  \A a \in Actor : position[a] = MaxOf({0} \cup {s \in Sample : stored[s] = a})

(* A row leaves the outbox as sent only if the server has stored it.       *)
SentIsStored == \A s \in Sample : stage[s] = "sent" => stored[s] = owner[s]

(* While the account stays and access stays granted and stored, a row is   *)
(* settled in the end, over failures, crashes aside.                       *)
Serving(a) == session = a /\ Enabled /\ saved

RowsSettle ==
  \A s \in Sample : (stage[s] = "row" /\ Serving(owner[s]))
                    ~> (stage[s] # "row" \/ ~Serving(owner[s]))

=============================================================================
