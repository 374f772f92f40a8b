------------------------ MODULE LocationOutboxProofs ------------------------
(***************************************************************************)
(* A sample is sent only under the consent and the account it was captured *)
(* under, leaves as sent only when it is stored, does not outlive a        *)
(* withdrawal, and the position shown is the newest one stored: for any    *)
(* number of samples, accounts, changes of access, failures and crashes.   *)
(*                                                                         *)
(* What makes the invariant inductive: a withdrawal makes every access     *)
(* captured so far stale and puts a purge behind every insertion that is   *)
(* waiting; whatever joins the lane later was captured later.              *)
(***************************************************************************)
EXTENDS LocationOutbox, FiniteSetTheorems, WellFoundedInduction, TLAPS

(* The lane q has a purge behind place j and before place k. *)
PurgeBetween(q, j, k) ==
  \E i \in 1 .. Len(q) : j < i /\ i < k /\ q[i] = Purge

(* Nothing of sample s, which stands at st, is left at place k of the lane. *)
Cleared(q, st, s, k) ==
  /\ st = "row" => PurgeBetween(q, 0, k)
  /\ \A j \in 1 .. Len(q) : q[j] = Insertion(s) => PurgeBetween(q, j, k)

LaneClear(q, stg, W) == \A s \in W : Cleared(q, stg[s], s, Len(q) + 1)
ExchangeClear(q, stg, W) ==
  \A s \in W, k \in 1 .. Len(q) : q[k] = Exchange => Cleared(q, stg[s], s, k)

(* Insertions are of queued samples, and nothing but a purge waits twice. *)
LaneOK(q, stg) ==
  /\ \A s \in Sample, i \in 1 .. Len(q) : q[i] = Insertion(s) => stg[s] = "queued"
  /\ \A i, j \in 1 .. Len(q) : q[i] = q[j] /\ q[i] # Purge => i = j

HasExchange(q) == \E i \in 1 .. Len(q) : q[i] = Exchange

LaneInv ==
  /\ LaneOK(lane, stage)
  /\ HasExchange(lane) => pc \notin {"idle", "ask"}
  /\ pc = "queued" => HasExchange(lane)
  /\ pc \in {"permit", "transmit", "wait", "answer"} =>
       lane # <<>> /\ Head(lane) = Exchange

ClearInv ==
  ~slipped =>
    /\ LaneClear(lane, stage, Withdrawn)
    /\ pc = "queued" /\ Current(flight.grant) =>
         ExchangeClear(lane, stage, Withdrawn)

(* Nobody has access while signed out; an access that still stands is the  *)
(* one of the account that is signed in.                                   *)
AccessInv ==
  /\ session = NoActor => context # "group"
  /\ revoked <= generation /\ flight.grant <= generation
  /\ \A s \in Sample : grant[s] <= generation
  /\ \A s \in Sample :
       stage[s] = "asking" /\ Current(grant[s]) => session = capturer[s]

OwnerInv ==
  \A s \in Sample :
    stage[s] \in {"queued", "row", "sent"} =>
      owner[s] = capturer[s] /\ owner[s] \in Actor

FlightInv ==
  /\ pc # "idle" => flight.actor \in Actor
  /\ pc \in {"permit", "transmit", "wait", "answer"} =>
       \A s \in flight.batch : stage[s] = "row" /\ owner[s] = flight.actor
  /\ pc \in {"permit", "transmit"} /\ Current(flight.grant) =>
       slipped \/ flight.batch \cap Withdrawn = {}
  /\ pc = "wait" => request.actor = flight.actor
       /\ request.events \subseteq flight.batch
  /\ \A m \in late : m.actor \in Actor

StoredInv ==
  /\ \A s \in reply.accepted : /\ pc = "answer" /\ s \in flight.batch
                               /\ stored[s] = flight.actor
  /\ \A s \in reply.rejected : pc = "answer" /\ s \in flight.batch
  /\ SentIsStored

PositionInv ==
  \A a \in Actor :
    /\ position[a] = 0 \/ (position[a] \in Sample /\ stored[position[a]] = a)
    /\ \A s \in Sample : stored[s] = a => s <= position[a]

LocationInv ==
  /\ TypeOK /\ AccessInv /\ OwnerInv /\ LaneInv /\ ClearInv /\ FlightInv
  /\ StoredInv /\ PositionInv

-----------------------------------------------------------------------------
(* The lane. *)

LEMMA Tasks ==
  ASSUME LocationAssumption
  PROVE
  /\ Purge \in Task /\ Exchange \in Task /\ Exchange # Purge
  /\ \A s \in Sample : /\ Insertion(s) \in Task /\ Insertion(s) # Purge
                       /\ Insertion(s) # Exchange
  /\ \A s, t \in Sample : Insertion(s) = Insertion(t) => s = t
<1>1. \A s \in Sample : Insertion(s).kind = "insert" /\ Insertion(s).of = s
  BY DEF Insertion
<1>2. Purge.kind = "purge" /\ Exchange.kind = "exchange"
  BY DEF Purge, Exchange
<1>3. \A s \in Sample : s \in 0 .. Samples
  BY DEF LocationAssumption, Sample
<1>4. 0 \in 0 .. Samples
  BY DEF LocationAssumption
<1>5. /\ Purge \in Task /\ Exchange \in Task
      /\ \A s \in Sample : Insertion(s) \in Task
  BY <1>3, <1>4 DEF Purge, Exchange, Insertion, Task
<1> HIDE DEF Purge, Exchange, Insertion
<1>6. /\ Exchange # Purge
      /\ \A s \in Sample : Insertion(s) # Purge /\ Insertion(s) # Exchange
      /\ \A s, t \in Sample : Insertion(s) = Insertion(t) => s = t
  BY <1>1, <1>2
<1> QED BY <1>5, <1>6

LEMMA TailLane ==
  ASSUME NEW q \in Seq(Task), q # <<>>
  PROVE  /\ Tail(q) \in Seq(Task) /\ Len(Tail(q)) = Len(q) - 1 /\ Len(q) \in Nat
         /\ Len(q) > 0
         /\ \A i \in 1 .. Len(Tail(q)) : Tail(q)[i] = q[i + 1]
         /\ Head(q) = q[1] /\ Head(q) \in Task
OBVIOUS

LEMMA AppendLane ==
  ASSUME NEW q \in Seq(Task), NEW x \in Task
  PROVE  /\ Append(q, x) \in Seq(Task) /\ Len(Append(q, x)) = Len(q) + 1
         /\ Len(q) \in Nat /\ Append(q, x) # <<>>
         /\ Append(q, x)[Len(q) + 1] = x
         /\ \A i \in 1 .. Len(q) : Append(q, x)[i] = q[i]
         /\ \A i \in 1 .. Len(q) + 1 : i \in 1 .. Len(q) \/ i = Len(q) + 1
         /\ q # <<>> => Head(Append(q, x)) = Head(q)
<1> DEFINE r == Append(q, x)
<1>1. /\ r \in Seq(Task) /\ Len(r) = Len(q) + 1 /\ Len(q) \in Nat
      /\ r[Len(q) + 1] = x /\ \A i \in 1 .. Len(q) : r[i] = q[i]
  OBVIOUS
<1>2. Len(r) > 0 /\ (q # <<>> => 1 \in 1 .. Len(q))
  BY <1>1
<1> HIDE DEF r
<1>3. r # <<>> /\ Head(r) = r[1]
  BY <1>1, <1>2
<1>4. q # <<>> => Head(q) = q[1]
  OBVIOUS
<1> QED BY <1>1, <1>2, <1>3, <1>4 DEF r

(* The head leaves: a sample stays cleared, unless the head was its purge. *)
LEMMA TailCleared ==
  ASSUME NEW q \in Seq(Task), q # <<>>, NEW s \in Sample, NEW k \in 1 .. Len(q) + 1,
         NEW st, Cleared(q, st, s, k)
  PROVE  /\ Head(q) # Purge => Cleared(Tail(q), st, s, k - 1)
         /\ st # "row" => Cleared(Tail(q), st, s, k - 1)
         /\ Head(q) = Insertion(s) => PurgeBetween(Tail(q), 0, k - 1)
<1> DEFINE t == Tail(q)
<1>1. /\ Len(t) = Len(q) - 1 /\ Len(q) \in Nat /\ Len(q) > 0
      /\ \A i \in 1 .. Len(t) : t[i] = q[i + 1]
      /\ Head(q) = q[1]
  BY TailLane
<1> HIDE DEF t
<1>2. ASSUME NEW j \in Nat, PurgeBetween(q, j + 1, k)
      PROVE  PurgeBetween(t, j, k - 1)
  <2>1. PICK i \in 1 .. Len(q) : j + 1 < i /\ i < k /\ q[i] = Purge
    BY <1>2 DEF PurgeBetween
  <2>2. i - 1 \in 1 .. Len(t) /\ j < i - 1 /\ i - 1 < k - 1 /\ t[i - 1] = Purge
    BY <1>1, <2>1
  <2> QED BY <2>2 DEF PurgeBetween
<1>3. ASSUME NEW j \in 1 .. Len(t), t[j] = Insertion(s)
      PROVE  PurgeBetween(t, j, k - 1)
  <2>1. j + 1 \in 1 .. Len(q) /\ q[j + 1] = Insertion(s) /\ j \in Nat
    BY <1>1, <1>3
  <2> QED BY <1>2, <2>1 DEF Cleared
<1>4. ASSUME Head(q) # Purge, PurgeBetween(q, 0, k)
      PROVE  PurgeBetween(t, 0, k - 1)
  <2>1. PICK i \in 1 .. Len(q) : i < k /\ q[i] = Purge
    BY <1>4 DEF PurgeBetween
  <2>2. 0 + 1 < i
    BY <1>1, <1>4, <2>1
  <2> QED BY <1>2, <2>1, <2>2 DEF PurgeBetween
<1>5. ASSUME Head(q) = Insertion(s)
      PROVE  PurgeBetween(t, 0, k - 1)
  <2>1. 1 \in 1 .. Len(q) /\ q[1] = Insertion(s)
    BY <1>1, <1>5
  <2>2. PurgeBetween(q, 0 + 1, k)
    BY <2>1 DEF Cleared
  <2> QED BY <1>2, <2>2
<1> QED BY <1>3, <1>4, <1>5 DEF Cleared, t

(* Something else joins behind place k. *)
LEMMA AppendCleared ==
  ASSUME NEW q \in Seq(Task), NEW x \in Task, NEW s \in Sample, NEW st,
         NEW k \in 1 .. Len(q) + 1, NEW h \in Nat, h >= k,
         x # Insertion(s), Cleared(q, st, s, k)
  PROVE  Cleared(Append(q, x), st, s, h)
<1> DEFINE r == Append(q, x)
<1>1. /\ Len(r) = Len(q) + 1 /\ Len(q) \in Nat /\ r[Len(q) + 1] = x
      /\ \A i \in 1 .. Len(q) : r[i] = q[i]
      /\ \A i \in 1 .. Len(r) : i \in 1 .. Len(q) \/ i = Len(q) + 1
  BY AppendLane
<1> HIDE DEF r
<1>2. ASSUME NEW j \in Nat, PurgeBetween(q, j, k)
      PROVE  PurgeBetween(r, j, h)
  <2>1. PICK i \in 1 .. Len(q) : j < i /\ i < k /\ q[i] = Purge
    BY <1>2 DEF PurgeBetween
  <2>2. i \in 1 .. Len(r) /\ r[i] = Purge /\ i < h
    BY <1>1, <2>1
  <2> QED BY <2>1, <2>2 DEF PurgeBetween
<1>3. ASSUME NEW j \in 1 .. Len(r), r[j] = Insertion(s)
      PROVE  j \in 1 .. Len(q) /\ q[j] = Insertion(s)
  BY <1>1, <1>3
<1>4. ASSUME NEW j \in 1 .. Len(r), r[j] = Insertion(s)
      PROVE  PurgeBetween(r, j, h)
  BY <1>2, <1>3, <1>4 DEF Cleared
<1> QED BY <1>2, <1>4 DEF Cleared, r

(* A purge at the end clears every sample. *)
LEMMA PurgeClears ==
  ASSUME LocationAssumption, NEW q \in Seq(Task), q # <<>>, q[Len(q)] = Purge,
         NEW s \in Sample, NEW st
  PROVE  Cleared(q, st, s, Len(q) + 1)
<1>1. Len(q) \in 1 .. Len(q) /\ Len(q) < Len(q) + 1 /\ 0 < Len(q)
  OBVIOUS
<1>2. PurgeBetween(q, 0, Len(q) + 1)
  BY <1>1 DEF PurgeBetween
<1>3. ASSUME NEW j \in 1 .. Len(q), q[j] = Insertion(s)
      PROVE  PurgeBetween(q, j, Len(q) + 1)
  <2>1. j # Len(q)
    BY <1>3, Tasks
  <2>2. j < Len(q)
    BY <2>1
  <2> QED BY <1>1, <2>2 DEF PurgeBetween
<1> QED BY <1>2, <1>3 DEF Cleared

-----------------------------------------------------------------------------
(* Types. *)

Shape ==
  /\ stage \in [Sample -> {"new", "asking", "queued", "row", "sent", "lost"}]
  /\ grant \in [Sample -> Nat]
  /\ owner \in [Sample -> ActorOrNone] /\ capturer \in [Sample -> ActorOrNone]
  /\ generation \in Nat /\ revoked \in Nat /\ session \in ActorOrNone
  /\ lane \in Seq(Task)
  /\ flight \in [actor : ActorOrNone, grant : Nat, batch : SUBSET Sample]
  /\ stored \in [Sample -> ActorOrNone]
  /\ position \in [Actor -> 0 .. Samples]

LEMMA Shaped == ASSUME TypeOK PROVE Shape
BY DEF TypeOK, Shape

LEMMA WithPurgeType ==
  ASSUME LocationAssumption, lane \in Seq(Task)
  PROVE  /\ WithPurge \in Seq(Task) /\ WithPurge # <<>>
         /\ WithPurge[Len(WithPurge)] = Purge
<1>1. CASE lane # <<>> /\ lane[Len(lane)] = Purge
  BY <1>1 DEF WithPurge
<1>2. CASE ~(lane # <<>> /\ lane[Len(lane)] = Purge)
  <2>1. WithPurge = Append(lane, Purge) /\ Purge \in Task
    BY <1>2, Tasks DEF WithPurge
  <2> QED BY <2>1, AppendLane
<1> QED BY <1>1, <1>2

LEMMA BecomeType ==
  ASSUME LocationAssumption, TypeOK, NEW c \in {"group", "none", "pending"},
         NEW e \in BOOLEAN, Become(c, e)
  PROVE  /\ context' \in {"group", "none", "pending"} /\ consent' \in BOOLEAN
         /\ generation' \in Nat /\ revoked' \in Nat /\ lane' \in Seq(Task)
<1> DEFINE changed == c # context \/ e # consent
           off == changed /\ ~(e /\ c = "group") /\ c # "pending"
<1>1. /\ context' = c /\ consent' = e
      /\ generation' = (IF changed THEN generation + 1 ELSE generation)
      /\ revoked' = (IF off THEN generation + 1 ELSE revoked)
      /\ lane' = (IF off THEN WithPurge ELSE lane)
  BY DEF Become
<1> HIDE DEF changed, off
<1>2. generation' \in Nat /\ revoked' \in Nat
  BY <1>1 DEF TypeOK
<1>3. lane' \in Seq(Task)
  BY <1>1, WithPurgeType DEF TypeOK
<1> QED BY <1>1, <1>2, <1>3

LEMMA NewestIn == ASSUME NEW S, NEW n PROVE Newest(S, n) \subseteq S
BY DEF Newest

LEMMA Empty ==
  /\ NoRequest.events = {} /\ NoRequest.actor = NoActor
  /\ NoFlight.actor = NoActor /\ NoFlight.grant = 0 /\ NoFlight.batch = {}
  /\ NoReply.accepted = {} /\ NoReply.rejected = {}
  /\ NoFlight \in [actor : ActorOrNone, grant : Nat, batch : SUBSET Sample]
  /\ NoReply \in [accepted : SUBSET Sample, rejected : SUBSET Sample,
                  untouched : SUBSET Sample]
  /\ NoRequest \in Request
BY DEF NoRequest, NoFlight, NoReply, Request, ActorOrNone

Bounded == changes \in 0 .. MaxChanges /\ faults \in 0 .. MaxFaults

LEMMA Faulted ==
  ASSUME LocationAssumption, Bounded
  PROVE  /\ Fault => faults' \in 0 .. MaxFaults
         /\ Change => changes' \in 0 .. MaxChanges
BY DEF LocationAssumption, Bounded, Fault, Change

LEMMA TypeBounds ==
  ASSUME LocationAssumption, TypeOK, [Next]_vars
  PROVE  Bounded'
<1>1. Bounded
  BY DEF TypeOK, Bounded
<1>2. UNCHANGED faults \/ Fault
  BY DEF Next, Internal, vars, bounds, Toggle, Crash, FlushDenied,
     PruneExpired, Refuse, BreakOff, SetContext, ChangeAccount, Capture,
     ExecuteLate, PurgeRows, StartExchange, Ask, Select, Permit, Transmit,
     Execute, Settle, SavePreference, Label, CheckAgain, Insert, BackoffElapsed
<1>3. UNCHANGED changes \/ Change
  BY DEF Next, Internal, vars, bounds, Toggle, Crash, FlushDenied,
     PruneExpired, Refuse, BreakOff, SetContext, ChangeAccount, Capture,
     ExecuteLate, PurgeRows, StartExchange, Ask, Select, Permit, Transmit,
     Execute, Settle, SavePreference, Label, CheckAgain, Insert, BackoffElapsed
<1> QED BY <1>1, <1>2, <1>3, Faulted DEF Bounded

LEMMA TypeAccess ==
  ASSUME LocationAssumption, TypeOK,
         \/ Toggle \/ \E c \in {"group", "none", "pending"} : SetContext(c)
         \/ \E a \in ActorOrNone : ChangeAccount(a)
  PROVE  TypeOK'
<1> DEFINE Access ==
      /\ context' \in {"group", "none", "pending"} /\ consent' \in BOOLEAN
      /\ generation' \in Nat /\ revoked' \in Nat /\ lane' \in Seq(Task)
<1>1. Bounded'
  BY TypeBounds DEF Next
<1> DEFINE Rest ==
      /\ UNCHANGED <<sampleVars, flightVars, serverVars, slipped, saved>>
      /\ wish' \in BOOLEAN /\ session' \in ActorOrNone
<1>2. Access /\ Rest
  <2>1. CASE Toggle
    <3>1. PICK c \in {"group", "none", "pending"} : Become(c, ~wish)
      BY <2>1 DEF Toggle, TypeOK
    <3>2. (~wish) \in BOOLEAN
      BY DEF TypeOK
    <3>3. Access
      BY <3>1, <3>2, BecomeType, Zenon
    <3> QED BY <2>1, <3>2, <3>3 DEF Toggle, TypeOK
  <2>2. ASSUME NEW c \in {"group", "none", "pending"}, SetContext(c)
        PROVE  Access /\ Rest
    <3>1. Become(c, wish) /\ wish \in BOOLEAN
      BY <2>2 DEF SetContext, TypeOK
    <3>2. Access
      BY <3>1, BecomeType, Zenon
    <3> QED BY <2>2, <3>2 DEF SetContext, TypeOK, deviceVars
  <2>3. ASSUME NEW a \in ActorOrNone, ChangeAccount(a)
        PROVE  Access /\ Rest
    <3>1. \/ UNCHANGED <<accessVars, lane>>
          \/ lane' = WithPurge /\ UNCHANGED accessVars
          \/ Become("none", FALSE)
      BY <2>3 DEF ChangeAccount
    <3>2. Access
      BY <3>1, BecomeType, WithPurgeType DEF TypeOK, accessVars
    <3> QED BY <2>3, <3>2 DEF ChangeAccount, TypeOK
  <2> HIDE DEF Access, Rest
  <2> QED BY <2>1, <2>2, <2>3
<1> QED
  BY <1>1, <1>2
  DEF TypeOK, Bounded, sampleVars, flightVars, serverVars

LEMMA LabelTypes ==
  ASSUME LocationAssumption, Shape, NEW s \in Sample, Label(s)
  PROVE  /\ stage' \in [Sample -> {"new", "asking", "queued", "row", "sent", "lost"}]
         /\ owner' \in [Sample -> ActorOrNone] /\ lane' \in Seq(Task)
<1>1. \/ /\ stage' = [stage EXCEPT ![s] = "queued"]
         /\ owner' = [owner EXCEPT ![s] = session]
         /\ lane' = Append(lane, Insertion(s))
      \/ stage' = [stage EXCEPT ![s] = "lost"] /\ owner' = owner /\ lane' = lane
  BY DEF Label
<1>2. lane' \in Seq(Task)
  BY <1>1, AppendLane, Tasks DEF Shape
<1>3. stage' \in [Sample -> {"new", "asking", "queued", "row", "sent", "lost"}]
  BY <1>1 DEF Shape
<1>4. owner' \in [Sample -> ActorOrNone]
  BY <1>1 DEF Shape
<1> QED BY <1>2, <1>3, <1>4

LEMMA TypeSamples ==
  ASSUME LocationAssumption, TypeOK,
         \/ Crash \/ FlushDenied \/ PruneExpired \/ PurgeRows \/ SavePreference
         \/ \E s \in Sample : \/ Label(s) \/ CheckAgain(s) \/ Insert(s)
                              \/ BackoffElapsed(s) \/ Capture(s)
  PROVE  TypeOK'
<1>1. Bounded'
  BY TypeBounds DEF Next, Internal
<1> USE <1>1, WithPurgeType, TailLane, Tasks, Shaped
    DEF TypeOK, Bounded, sampleVars, accessVars, deviceVars, flightVars,
        serverVars
<1>2. CASE Crash
  <2>1. request \in Request /\ (late' = late \cup {request} \/ late' = late)
    BY <1>2 DEF Crash
  <2>2. lane' \in Seq(Task) /\ lane' = <<>>
    BY <1>2 DEF Crash
  <2>3. generation' \in Nat
    BY <1>2 DEF Crash
  <2> QED BY <1>2, <2>1, <2>2, <2>3, Empty DEF Crash
<1>3. CASE FlushDenied
  BY <1>3 DEF FlushDenied
<1>4. CASE PruneExpired
  BY <1>4 DEF PruneExpired
<1>5. CASE PurgeRows
  BY <1>5 DEF PurgeRows
<1>6. CASE SavePreference
  BY <1>6 DEF SavePreference
<1>7. ASSUME NEW s \in Sample, Label(s)
      PROVE  TypeOK'
  <2>1. /\ stage' \in [Sample -> {"new", "asking", "queued", "row", "sent", "lost"}]
        /\ owner' \in [Sample -> ActorOrNone] /\ lane' \in Seq(Task)
    BY <1>7, LabelTypes
  <2>2. UNCHANGED <<grant, ready, unchecked, capturer, accessVars, deviceVars,
                    flightVars, serverVars, slipped>>
    BY <1>7 DEF Label
  <2> QED BY <2>1, <2>2
<1>8. ASSUME NEW s \in Sample, CheckAgain(s)
      PROVE  TypeOK'
  BY <1>8 DEF CheckAgain
<1>9. ASSUME NEW s \in Sample, Insert(s)
      PROVE  TypeOK'
  BY <1>9 DEF Insert
<1>10. ASSUME NEW s \in Sample, BackoffElapsed(s)
       PROVE  TypeOK'
  BY <1>10 DEF BackoffElapsed
<1>11. ASSUME NEW s \in Sample, Capture(s)
       PROVE  TypeOK'
  BY <1>11 DEF Capture
<1> QED BY <1>2, <1>3, <1>4, <1>5, <1>6, <1>7, <1>8, <1>9, <1>10, <1>11

-----------------------------------------------------------------------------
(* The server. *)

(* A set of samples has a newest one, which MaxOf is. *)
LEMMA NewestOf ==
  ASSUME LocationAssumption, NEW S \in SUBSET Sample, S # {}
  PROVE  MaxOf(S) \in S /\ \A m \in S : m <= MaxOf(S)
<1> DEFINE T == {Samples - x : x \in S}
<1> DEFINE Less == {ss \in Nat \X Nat : ss[1] < ss[2]}
<1>1. IsWellFoundedOn(Less, Nat)
  BY NatLessThanWellFounded DEF OpToRel
<1>2. T \subseteq Nat /\ T # {}
  <2>1. T \subseteq Nat
    BY DEF LocationAssumption, Sample
  <2>2. PICK x \in S : TRUE
    OBVIOUS
  <2>3. Samples - x \in T
    BY <2>2
  <2> QED BY <2>1, <2>3
<1>3. PICK t \in T : \A y \in T : ~(<<y, t>> \in Less)
  <2> HIDE DEF T, Less
  <2> QED BY <1>1, <1>2, WFMin
<1>4. PICK x \in S : t = Samples - x
  OBVIOUS
<1>5. \A y \in S : x >= y
  <2> TAKE y \in S
  <2>1. Samples - y \in T /\ Samples - y \in Nat /\ t \in Nat
    BY DEF LocationAssumption, Sample
  <2>2. ~(Samples - y < t)
    BY <1>3, <2>1
  <2> QED BY <1>4, <2>2 DEF LocationAssumption, Sample
<1> QED BY <1>4, <1>5 DEF MaxOf

(* At most one sample of a request is new to the server and newer than     *)
(* what it shows of the member.                                            *)
LEMMA FreshOne ==
  ASSUME LocationAssumption, Shape, NEW m \in Request, m.actor \in Actor
  PROVE  \/ Fresh(m) = {}
         \/ \E n \in m.events : /\ Fresh(m) = {n} /\ MaxOf(Fresh(m)) = n
                                /\ n \in Sample /\ stored[n] = NoActor
                                /\ n > position[m.actor]
<1> DEFINE newer == {s \in m.events : stored[s] = NoActor /\ s > position[m.actor]}
<1>1. CASE newer = {}
  BY <1>1 DEF Fresh
<1>2. CASE newer # {}
  <2>1. newer \in SUBSET Sample
    BY DEF Request
  <2>2. MaxOf(newer) \in newer /\ Fresh(m) = {MaxOf(newer)}
    BY <1>2, <2>1, NewestOf DEF Fresh
  <2> DEFINE n == MaxOf(newer)
  <2>3. /\ n \in m.events /\ n \in Sample /\ stored[n] = NoActor
        /\ n > position[m.actor]
    BY <2>1, <2>2
  <2> HIDE DEF n
  <2>4. {n} \in SUBSET Sample /\ {n} # {}
    BY <2>3
  <2>5. MaxOf({n}) \in {n}
    BY <2>4, NewestOf
  <2>6. Fresh(m) = {n}
    BY <2>2 DEF n
  <2> QED BY <2>3, <2>5, <2>6
<1> QED BY <1>1, <1>2

LEMMA IngestTypes ==
  ASSUME LocationAssumption, Shape, NEW m \in Request, m.actor \in Actor, Ingest(m)
  PROVE  /\ stored' \in [Sample -> ActorOrNone]
         /\ position' \in [Actor -> 0 .. Samples]
<1>1. stored' \in [Sample -> ActorOrNone]
  BY DEF Ingest, Shape, ActorOrNone
<1>2. CASE Fresh(m) = {}
  BY <1>1, <1>2 DEF Ingest, Shape
<1>3. CASE Fresh(m) # {}
  <2>1. PICK n \in Sample : MaxOf(Fresh(m)) = n
    BY <1>3, FreshOne
  <2>2. n \in 0 .. Samples
    BY DEF Sample, LocationAssumption
  <2>3. position' = [position EXCEPT ![m.actor] = n]
    BY <1>3, <2>1 DEF Ingest
  <2> QED BY <1>1, <2>2, <2>3 DEF Shape
<1> QED BY <1>2, <1>3

(* Where the exchange stands after a step of it. *)
FlightTypes ==
  /\ pc \in {"idle", "ask", "queued", "permit", "transmit", "wait", "answer"}
  /\ flight \in [actor : ActorOrNone, grant : Nat, batch : SUBSET Sample]
  /\ reply \in [accepted : SUBSET Sample, rejected : SUBSET Sample,
                untouched : SUBSET Sample]
  /\ request \in Request
LaneTypes ==
  /\ lane \in Seq(Task)
  /\ stage \in [Sample -> {"new", "asking", "queued", "row", "sent", "lost"}]
  /\ ready \in [Sample -> BOOLEAN]
ServerTypes ==
  /\ late \subseteq Request /\ stored \in [Sample -> ActorOrNone]
  /\ position \in [Actor -> 0 .. Samples]

LEMMA LeaveTypes ==
  ASSUME LocationAssumption, lane \in Seq(Task), lane # <<>>, Leave
  PROVE  FlightTypes' /\ lane' \in Seq(Task) /\ flight' = NoFlight
         /\ reply' = NoReply /\ request' = NoRequest /\ pc' = "idle"
         /\ lane' = Tail(lane)
BY Empty, TailLane DEF Leave, FlightTypes

LEMMA FailTypes ==
  ASSUME LocationAssumption, TypeOK, lane # <<>>, NEW batch, Fail(batch)
  PROVE  FlightTypes' /\ lane' \in Seq(Task) /\ ready' \in [Sample -> BOOLEAN]
         /\ Leave
<1>1. Leave /\ ready' \in [Sample -> BOOLEAN]
  BY DEF Fail, TypeOK
<1> QED BY <1>1, LeaveTypes DEF TypeOK

LEMMA TypeExchange ==
  ASSUME LocationAssumption, TypeOK, LaneInv, FlightInv,
         \/ StartExchange \/ Ask \/ Select \/ Permit \/ Transmit \/ Execute
         \/ Settle \/ Refuse \/ BreakOff \/ \E m \in late : ExecuteLate(m)
  PROVE  TypeOK'
<1>1. Bounded'
  BY TypeBounds DEF Next, Internal
<1>2. FlightTypes /\ LaneTypes /\ ServerTypes
  BY DEF TypeOK, FlightTypes, LaneTypes, ServerTypes
<1>3. pc \in {"permit", "transmit", "wait", "answer"} => lane # <<>>
  BY DEF LaneInv
<1>4. pc = "queued" => lane # <<>>
  BY DEF LaneInv, HasExchange
<1> DEFINE Others ==
      /\ UNCHANGED <<grant, owner, unchecked, capturer, accessVars, deviceVars>>
      /\ UNCHANGED slipped
<1> SUFFICES FlightTypes' /\ LaneTypes' /\ ServerTypes' /\ Others
  BY <1>1 DEF TypeOK, FlightTypes, LaneTypes, ServerTypes, Bounded, accessVars,
              deviceVars
<1> USE DEF sampleVars, flightVars, serverVars
<1>5. CASE StartExchange
  BY <1>2, <1>5, Empty
  DEF StartExchange, TypeOK, FlightTypes, LaneTypes, ServerTypes
<1>6. CASE Ask
  <2>1. lane' \in Seq(Task)
    <3>1. lane' = lane \/ lane' = Append(lane, Exchange)
      BY <1>6 DEF Ask
    <3> QED BY <3>1, <1>2, Tasks, AppendLane DEF LaneTypes
  <2>2. FlightTypes'
    <3>1. /\ pc' \in {"queued", "idle"} /\ UNCHANGED <<reply, request>>
          /\ flight' = NoFlight \/ flight' = [flight EXCEPT !.grant = generation]
      BY <1>6 DEF Ask
    <3>2. generation \in Nat
      BY DEF TypeOK
    <3> QED BY <3>1, <3>2, <1>2, Empty DEF FlightTypes
  <2> QED BY <1>2, <1>6, <2>1, <2>2 DEF Ask, LaneTypes, ServerTypes
<1>7. CASE Select
  <2>1. LaneTypes' /\ FlightTypes'
    <3>1. PICK gone \in {{}} \cup DayOld :
            LET due == {s \in RowsIn \ gone : ready[s] /\ owner[s] = flight.actor}
                batch == Newest(due, MaxBatch)
            IN /\ stage' = [s \in Sample |-> IF s \in gone THEN "lost" ELSE stage[s]]
               /\ \/ /\ batch # {} /\ Current(flight.grant)
                     /\ pc' = "permit" /\ flight' = [flight EXCEPT !.batch = batch]
                     /\ UNCHANGED <<ready, lane, reply, request>>
                  \/ batch = {} /\ Leave /\ UNCHANGED ready
                  \/ batch # {} /\ ~Current(flight.grant) /\ Fail(batch)
      BY <1>7, Zenon DEF Select
    <3> DEFINE due == {s \in RowsIn \ gone : ready[s] /\ owner[s] = flight.actor}
               batch == Newest(due, MaxBatch)
    <3>2. batch \subseteq Sample
      BY NewestIn DEF RowsIn
    <3>3. /\ \/ /\ pc' = "permit" /\ flight' = [flight EXCEPT !.batch = batch]
                /\ UNCHANGED <<ready, lane, reply, request>>
             \/ Leave /\ UNCHANGED ready
             \/ Fail(batch)
          /\ stage' = [s \in Sample |-> IF s \in gone THEN "lost" ELSE stage[s]]
      BY <3>1, Zenon
    <3> HIDE DEF batch
    <3>4. stage' \in [Sample -> {"new", "asking", "queued", "row", "sent", "lost"}]
      BY <3>3, <1>2 DEF LaneTypes
    <3>5. lane # <<>>
      BY <1>4, <1>7 DEF Select
    <3>6. CASE pc' = "permit" /\ flight' = [flight EXCEPT !.batch = batch]
               /\ UNCHANGED <<ready, lane, reply, request>>
      BY <3>2, <3>4, <3>6, <1>2 DEF LaneTypes, FlightTypes
    <3>7. CASE Leave /\ UNCHANGED ready
      BY <3>4, <3>5, <3>7, <1>2, LeaveTypes DEF LaneTypes
    <3>8. CASE Fail(batch)
      BY <3>4, <3>5, <3>8, <1>2, FailTypes DEF LaneTypes
    <3> QED BY <3>3, <3>6, <3>7, <3>8
  <2> QED BY <1>2, <1>7, <2>1 DEF Select, ServerTypes
<1>8. CASE Permit
  <2>1. reply' = reply \/ reply' = [NoReply EXCEPT !.rejected = flight.batch]
    BY <1>8, Zenon DEF Permit
  <2>2. reply' \in [accepted : SUBSET Sample, rejected : SUBSET Sample,
                    untouched : SUBSET Sample]
    BY <1>2, <2>1, Empty DEF FlightTypes
  <2>3. pc' \in {"transmit", "answer"}
    BY <1>8 DEF Permit
  <2> QED BY <1>2, <1>8, <2>2, <2>3 DEF Permit, FlightTypes, LaneTypes,
            ServerTypes
<1>9. CASE Transmit
  <2>1. lane # <<>>
    BY <1>3, <1>9 DEF Transmit
  <2>2. CASE Fail(flight.batch)
    BY <1>2, <1>9, <2>1, <2>2, FailTypes DEF Transmit, LaneTypes, ServerTypes
  <2>3. CASE ~Fail(flight.batch)
    <3>1. PICK n \in 0 .. Cardinality(flight.batch) :
            request' = [events |-> Newest(flight.batch, n), actor |-> session]
      BY <1>9, <2>3, Zenon DEF Transmit
    <3>2. Newest(flight.batch, n) \subseteq Sample /\ session \in ActorOrNone
      BY <1>2, NewestIn DEF FlightTypes, TypeOK
    <3>3. request' \in Request
      BY <3>1, <3>2 DEF Request
    <3>4. pc' = "wait" /\ UNCHANGED <<ready, lane, flight, reply>>
      BY <1>9, <2>3 DEF Transmit
    <3> QED BY <1>2, <1>9, <3>3, <3>4
            DEF Transmit, FlightTypes, LaneTypes, ServerTypes
  <2> QED BY <2>2, <2>3
<1>10. CASE Execute
  <2>1. request \in Request /\ request.actor \in Actor /\ Ingest(request)
    BY <1>2, <1>10 DEF Execute, FlightInv, FlightTypes
  <2>2. ServerTypes'
    BY <1>2, <1>10, <2>1, IngestTypes, Shaped DEF Execute, ServerTypes
  <2>3. Accepted(request) \subseteq Sample
    <3>1. Fresh(request) \subseteq Sample
      BY <2>1, FreshOne, Shaped
    <3> QED BY <2>1, <3>1 DEF Accepted, Request
  <2>4. reply' \in [accepted : SUBSET Sample, rejected : SUBSET Sample,
                    untouched : SUBSET Sample]
    BY <1>2, <1>10, <2>1, <2>3 DEF Execute, Request, FlightTypes
  <2> QED BY <1>2, <1>10, <2>2, <2>4, Empty DEF Execute, FlightTypes, LaneTypes
<1>11. CASE Settle
  <2>1. lane # <<>>
    BY <1>3, <1>11 DEF Settle
  <2>2. Leave \/ Fail(flight.batch)
    BY <1>11 DEF Settle
  <2>3. FlightTypes' /\ lane' \in Seq(Task)
    BY <1>2, <2>1, <2>2, LeaveTypes, FailTypes DEF LaneTypes
  <2>4. stage' \in [Sample -> {"new", "asking", "queued", "row", "sent", "lost"}]
    <3>1. \/ stage' = stage
          \/ stage' = [s \in Sample |-> CASE s \in reply.accepted -> "sent"
                                        [] s \in reply.rejected -> "lost"
                                        [] OTHER -> stage[s]]
      BY <1>11, Zenon DEF Settle
    <3> QED BY <1>2, <3>1 DEF LaneTypes
  <2>5. ready' \in [Sample -> BOOLEAN]
    <3>1. \/ ready' = ready \/ Fail(flight.batch)
          \/ \E S : ready' = [s \in Sample |-> ready[s] /\ s \notin S]
      BY <1>11, Zenon DEF Settle
    <3> QED BY <1>2, <2>1, <3>1, FailTypes DEF LaneTypes
  <2> QED BY <1>2, <1>11, <2>3, <2>4, <2>5 DEF Settle, LaneTypes, ServerTypes
<1>12. CASE Refuse
  <2>1. reply' \in [accepted : SUBSET Sample, rejected : SUBSET Sample,
                    untouched : SUBSET Sample]
    <3>1. reply' \in [accepted : {{}}, rejected : {{}, request.events},
                      untouched : {flight.batch \ request.events}]
      BY <1>12 DEF Refuse
    <3>2. request.events \in SUBSET Sample /\ flight.batch \in SUBSET Sample
      BY <1>2 DEF FlightTypes, Request
    <3> QED BY <3>1, <3>2
  <2> QED BY <1>2, <1>12, <2>1, Empty DEF Refuse, FlightTypes, LaneTypes,
            ServerTypes
<1>13. CASE BreakOff
  <2>1. lane # <<>> /\ Fail(flight.batch)
    BY <1>3, <1>13 DEF BreakOff
  <2>2. late' \subseteq Request
    BY <1>2, <1>13 DEF BreakOff, ServerTypes, FlightTypes
  <2> QED BY <1>2, <1>13, <2>1, <2>2, FailTypes DEF BreakOff, LaneTypes,
            ServerTypes
<1>14. ASSUME NEW m \in late, ExecuteLate(m)
       PROVE  FlightTypes' /\ LaneTypes' /\ ServerTypes' /\ Others
  <2>1. m \in Request /\ m.actor \in Actor /\ Ingest(m)
    BY <1>2, <1>14 DEF ExecuteLate, FlightInv, ServerTypes
  <2>2. ServerTypes'
    BY <1>2, <1>14, <2>1, IngestTypes, Shaped DEF ExecuteLate, ServerTypes
  <2> QED BY <1>2, <1>14, <2>2 DEF ExecuteLate, FlightTypes, LaneTypes
<1> QED BY <1>5, <1>6, <1>7, <1>8, <1>9, <1>10, <1>11, <1>12, <1>13, <1>14

LEMMA NextTypes ==
  ASSUME LocationAssumption, LocationInv, [Next]_vars
  PROVE  TypeOK'
<1>1. TypeOK /\ LaneInv /\ FlightInv
  BY DEF LocationInv
<1>2. CASE UNCHANGED vars
  BY <1>1, <1>2 DEF vars, TypeOK, sampleVars, accessVars, deviceVars,
    flightVars, serverVars, bounds
<1>3. CASE Next
  BY <1>1, <1>3, TypeAccess, TypeSamples, TypeExchange, Zenon DEF Next, Internal
<1> QED BY <1>2, <1>3

-----------------------------------------------------------------------------
(* Access and accounts. *)

(* A change of access makes every captured one stale. *)
LEMMA BecomeStale ==
  ASSUME TypeOK, AccessInv, NEW c, NEW e, Become(c, e)
  PROVE  /\ context' = c /\ revoked' <= generation' /\ generation <= generation'
         /\ \A g \in Nat : g <= generation /\ Current(g)' => Current(g)
<1> DEFINE changed == c # context \/ e # consent
<1>1. /\ context' = c /\ consent' = e
      /\ generation' = (IF changed THEN generation + 1 ELSE generation)
      /\ (revoked' = generation + 1 /\ changed) \/ revoked' = revoked
  BY DEF Become
<1>2. generation \in Nat /\ revoked \in Nat /\ revoked <= generation
  BY DEF TypeOK, AccessInv
<1>3. revoked' <= generation' /\ generation <= generation'
  <2> HIDE DEF changed
  <2> QED BY <1>1, <1>2
<1>4. CASE changed
  <2>1. generation' = generation + 1
    BY <1>1, <1>4
  <2> QED BY <1>1, <1>2, <1>3, <2>1 DEF Current
<1>5. CASE ~changed
  <2>1. generation' = generation /\ context' = context /\ consent' = consent
    BY <1>1, <1>5
  <2> QED BY <1>1, <1>3, <2>1 DEF Current, Enabled
<1> QED BY <1>4, <1>5

LEMMA NextAccess ==
  ASSUME LocationAssumption, LocationInv, [Next]_vars
  PROVE  AccessInv'
<1>0. TypeOK /\ AccessInv /\ generation \in Nat /\ grant \in [Sample -> Nat]
      /\ flight.grant \in Nat /\ revoked \in Nat
  BY DEF LocationInv, TypeOK
<1> DEFINE Flights == flight'.grant = flight.grant \/ flight'.grant = 0
                      \/ flight'.grant = generation
<1> DEFINE Asks == \A s \in Sample : stage'[s] = "asking" => stage[s] = "asking"
(* Access does not change. *)
<1>1. ASSUME UNCHANGED <<accessVars, session, grant, capturer>>, Flights, Asks
      PROVE  AccessInv'
  <2>1. \A g : Current(g)' <=> Current(g)
    BY <1>1 DEF Current, Enabled, accessVars
  <2>2. flight'.grant <= generation
    BY <1>0, <1>1 DEF AccessInv
  <2> QED BY <1>0, <1>1, <2>1, <2>2 DEF AccessInv, accessVars
(* It does, and nothing else. *)
<1>2. ASSUME UNCHANGED <<stage, grant, capturer, flight>>,
             NEW c, NEW e, Become(c, e),
             session' = session \/ ~e,
             session' = NoActor => c # "group"
      PROVE  AccessInv'
  <2>1. /\ context' = c /\ revoked' <= generation' /\ generation <= generation'
        /\ \A g \in Nat : g <= generation /\ Current(g)' => Current(g)
    BY <1>0, <1>2, BecomeStale
  <2>2. generation' \in Nat
    BY <1>0, <1>2 DEF Become
  <2>3. /\ flight'.grant <= generation'
        /\ \A s \in Sample : grant'[s] <= generation'
    BY <1>0, <1>2, <2>1, <2>2 DEF AccessInv
  <2>4. ASSUME NEW s \in Sample, stage'[s] = "asking", Current(grant[s])'
        PROVE  session' = capturer'[s]
    <3>1. Current(grant[s]) /\ stage[s] = "asking"
      BY <1>0, <1>2, <2>1, <2>4 DEF AccessInv
    <3>2. consent' = e /\ consent'
      BY <1>2, <2>4 DEF Become, Current, Enabled
    <3> QED BY <1>0, <1>2, <3>1, <3>2 DEF AccessInv
  <2> QED BY <1>2, <2>1, <2>3, <2>4 DEF AccessInv
<1>3. CASE Toggle
  <2>1. PICK c : Become(c, ~wish) /\ (c = "none" \/ c = context)
    BY <1>3 DEF Toggle
  <2>2. session = NoActor => c # "group"
    BY <1>0, <2>1 DEF AccessInv
  <2>3. UNCHANGED <<stage, grant, capturer, flight, session>>
    BY <1>3 DEF Toggle, sampleVars, flightVars
  <2> HIDE DEF Flights, Asks
  <2> QED BY <1>2, <2>1, <2>2, <2>3
<1>4. ASSUME NEW c \in {"group", "none", "pending"}, SetContext(c)
      PROVE  AccessInv'
  <2>1. /\ Become(c, wish) /\ session # NoActor
        /\ UNCHANGED <<stage, grant, capturer, flight, session>>
    BY <1>4 DEF SetContext, sampleVars, flightVars, deviceVars
  <2> QED BY <1>2, <2>1
<1>5. ASSUME NEW a \in ActorOrNone, ChangeAccount(a)
      PROVE  AccessInv'
  <2>1. UNCHANGED <<stage, grant, capturer, flight>> /\ session' = a /\ a # session
    BY <1>5 DEF ChangeAccount, sampleVars, flightVars
  <2>2. CASE Become("none", FALSE)
    BY <1>2, <2>1, <2>2
  <2>3. CASE UNCHANGED accessVars /\ ~Enabled /\ (session' = NoActor => context # "group")
    <3>1. \A g : ~Current(g)'
      BY <2>3 DEF Current, Enabled, accessVars
    <3> QED BY <1>0, <2>1, <2>3, <3>1 DEF AccessInv, accessVars
  <2>4. \/ Become("none", FALSE)
        \/ UNCHANGED accessVars /\ session = NoActor
        \/ UNCHANGED accessVars /\ context = "none"
    BY <1>5 DEF ChangeAccount
  <2> QED BY <1>0, <2>1, <2>2, <2>3, <2>4 DEF AccessInv, Enabled
<1>6. CASE Crash
  <2>1. /\ generation' = generation + 1 /\ context' = "pending"
        /\ flight'.grant = 0 /\ revoked' = revoked /\ grant' = grant
    BY <1>6, Empty DEF Crash
  <2>2. \A s \in Sample : stage'[s] # "asking"
    BY <1>6 DEF Crash
  <2> QED BY <1>0, <2>1, <2>2 DEF AccessInv
<1>7. ASSUME NEW s \in Sample, Capture(s)
      PROVE  AccessInv'
  <2>1. /\ grant' = [grant EXCEPT ![s] = generation]
        /\ capturer' = [capturer EXCEPT ![s] = session]
        /\ stage' = [stage EXCEPT ![s] = "asking"]
        /\ UNCHANGED <<accessVars, session, flight>>
    BY <1>7 DEF Capture, deviceVars, flightVars
  <2>2. \A g : Current(g)' <=> Current(g)
    BY <2>1 DEF Current, Enabled, accessVars
  <2>3. ASSUME NEW t \in Sample
        PROVE  /\ grant'[t] <= generation
               /\ stage'[t] = "asking" /\ Current(grant'[t])
                    => session = capturer'[t]
    BY <1>0, <2>1, <2>3 DEF AccessInv, TypeOK
  <2> QED BY <1>0, <2>1, <2>2, <2>3 DEF AccessInv, accessVars
<1>8. CASE \/ FlushDenied \/ SavePreference \/ PruneExpired \/ PurgeRows
           \/ \E s \in Sample : CheckAgain(s) \/ Insert(s)
                \/ BackoffElapsed(s) \/ Label(s)
  <2>1. UNCHANGED <<accessVars, session, grant, capturer, flight>>
    BY <1>8 DEF FlushDenied, SavePreference, PruneExpired, PurgeRows,
      CheckAgain, Insert, BackoffElapsed, Label, sampleVars, deviceVars,
      flightVars
  <2>2. Asks
    BY <1>0, <1>8 DEF FlushDenied, SavePreference, PruneExpired, PurgeRows,
      CheckAgain, Insert, BackoffElapsed, Label, sampleVars, TypeOK
  <2> QED BY <1>1, <2>1, <2>2
<1>9. CASE \/ StartExchange \/ Ask \/ Select \/ Permit \/ Transmit \/ Execute
           \/ Settle \/ Refuse \/ BreakOff \/ \E m \in late : ExecuteLate(m)
  <2>1. UNCHANGED <<accessVars, session, grant, capturer>>
    BY <1>9 DEF StartExchange, Ask, Select, Permit, Transmit, Execute, Settle,
      Refuse, BreakOff, ExecuteLate, sampleVars, deviceVars
  <2>2. Flights
    BY <1>0, <1>9, Empty DEF StartExchange, Ask, Select, Permit, Transmit,
      Execute, Settle, Refuse, BreakOff, ExecuteLate, Fail, Leave, flightVars,
      TypeOK
  <2>3. Asks
    <3>1. \/ stage' = stage
          \/ \E gone : stage' = [s \in Sample |-> IF s \in gone THEN "lost" ELSE stage[s]]
          \/ stage' = [s \in Sample |-> CASE s \in reply.accepted -> "sent"
                                        [] s \in reply.rejected -> "lost"
                                        [] OTHER -> stage[s]]
      BY <1>9, Zenon DEF StartExchange, Ask, Select, Permit, Transmit,
        Execute, Settle, Refuse, BreakOff, ExecuteLate, sampleVars
    <3> QED BY <1>0, <3>1 DEF TypeOK
  <2> QED BY <1>1, <2>1, <2>2, <2>3
<1>10. CASE UNCHANGED vars
  BY <1>1, <1>10 DEF vars, sampleVars, accessVars, deviceVars, flightVars
<1> QED BY <1>3, <1>4, <1>5, <1>6, <1>7, <1>8, <1>9, <1>10 DEF Next, Internal

-----------------------------------------------------------------------------
(* What waits on the lane. *)

LEMMA LaneTail ==
  ASSUME LocationAssumption, NEW q \in Seq(Task), q # <<>>, NEW stg, NEW new,
         LaneOK(q, stg),
         \A s \in Sample : stg[s] = "queued" /\ Head(q) # Insertion(s)
             => new[s] = "queued"
  PROVE  /\ LaneOK(Tail(q), new)
         /\ HasExchange(Tail(q)) => HasExchange(q) /\ Head(q) # Exchange
         /\ HasExchange(q) => HasExchange(Tail(q)) \/ Head(q) = Exchange
<1> DEFINE t == Tail(q)
<1>1. /\ Len(t) = Len(q) - 1 /\ Len(q) \in Nat /\ Len(q) > 0
      /\ \A i \in 1 .. Len(t) : t[i] = q[i + 1]
      /\ Head(q) = q[1]
  BY TailLane
<1> HIDE DEF t
<1>2. /\ \A i \in 1 .. Len(t) : i + 1 \in 1 .. Len(q) /\ i + 1 # 1
      /\ \A i \in 1 .. Len(q) : i # 1 => i - 1 \in 1 .. Len(t) /\ q[i] = t[i - 1]
      /\ 1 \in 1 .. Len(q)
      /\ \A i, j \in 1 .. Len(t) : i + 1 = j + 1 => i = j
  BY <1>1
<1>3. ASSUME NEW i \in 1 .. Len(t), t[i] # Purge
      PROVE  t[i] # Head(q)
  BY <1>1, <1>2, <1>3 DEF LaneOK
<1>4. ASSUME NEW s \in Sample, NEW i \in 1 .. Len(t), t[i] = Insertion(s)
      PROVE  new[s] = "queued"
  BY <1>1, <1>2, <1>3, <1>4, Tasks DEF LaneOK
<1>5. ASSUME NEW i \in 1 .. Len(t), NEW j \in 1 .. Len(t), t[i] = t[j], t[i] # Purge
      PROVE  i = j
  <2>1. q[i + 1] = q[j + 1] /\ q[i + 1] # Purge
    BY <1>1, <1>5
  <2> QED BY <1>2, <2>1 DEF LaneOK
<1>6. HasExchange(t) => HasExchange(q) /\ Head(q) # Exchange
  BY <1>1, <1>2, <1>3, Tasks DEF HasExchange
<1>7. HasExchange(q) => HasExchange(t) \/ Head(q) = Exchange
  BY <1>1, <1>2 DEF HasExchange
<1> QED BY <1>4, <1>5, <1>6, <1>7 DEF LaneOK, t

LEMMA LaneAppend ==
  ASSUME LocationAssumption, NEW q \in Seq(Task), NEW x \in Task, NEW stg, NEW new,
         LaneOK(q, stg),
         \A s \in Sample : stg[s] = "queued" \/ x = Insertion(s)
             => new[s] = "queued",
         x = Purge \/ \A i \in 1 .. Len(q) : q[i] # x
  PROVE  /\ LaneOK(Append(q, x), new)
         /\ HasExchange(Append(q, x)) <=> (HasExchange(q) \/ x = Exchange)
<1> DEFINE r == Append(q, x)
<1>1. /\ Len(r) = Len(q) + 1 /\ Len(q) \in Nat /\ r[Len(q) + 1] = x
      /\ \A i \in 1 .. Len(q) : r[i] = q[i] /\ i \in 1 .. Len(r)
      /\ \A i \in 1 .. Len(r) : i \in 1 .. Len(q) \/ i = Len(q) + 1
      /\ Len(q) + 1 \in 1 .. Len(r)
  BY AppendLane
<1> HIDE DEF r
<1>2. ASSUME NEW s \in Sample, NEW i \in 1 .. Len(r), r[i] = Insertion(s)
      PROVE  new[s] = "queued"
  BY <1>1, <1>2 DEF LaneOK
<1>3. ASSUME NEW i \in 1 .. Len(r), NEW j \in 1 .. Len(r), r[i] = r[j], r[i] # Purge
      PROVE  i = j
  BY <1>1, <1>3 DEF LaneOK
<1>4. HasExchange(r) <=> (HasExchange(q) \/ x = Exchange)
  BY <1>1 DEF HasExchange
<1> QED BY <1>2, <1>3, <1>4 DEF LaneOK, r

LEMMA LaneWithPurge ==
  ASSUME LocationAssumption, TypeOK, LaneOK(lane, stage)
  PROVE  /\ LaneOK(WithPurge, stage)
         /\ HasExchange(WithPurge) <=> HasExchange(lane)
         /\ lane # <<>> => Head(WithPurge) = Head(lane)
         /\ WithPurge # <<>>
<1>1. lane \in Seq(Task)
  BY DEF TypeOK
<1>2. CASE lane # <<>> /\ lane[Len(lane)] = Purge
  BY <1>2 DEF WithPurge
<1>3. CASE ~(lane # <<>> /\ lane[Len(lane)] = Purge)
  <2>1. WithPurge = Append(lane, Purge) /\ Purge \in Task
    BY <1>3, Tasks DEF WithPurge
  <2>2. \A s \in Sample : stage[s] = "queued" \/ Purge = Insertion(s)
          => stage[s] = "queued"
    BY Tasks
  <2>3. /\ LaneOK(Append(lane, Purge), stage)
        /\ HasExchange(Append(lane, Purge)) <=> (HasExchange(lane) \/ Purge = Exchange)
    BY <1>1, <2>1, <2>2, LaneAppend
  <2>4. (lane # <<>> => Head(Append(lane, Purge)) = Head(lane))
          /\ Append(lane, Purge) # <<>>
    BY <1>1, <2>1, AppendLane
  <2> QED BY <2>1, <2>3, <2>4, Tasks
<1> QED BY <1>2, <1>3

(* How a step moves the lane; the last case is the death of the process. *)
Requeued == lane' = lane \/ lane' = WithPurge

LEMMA BecomeLane == ASSUME NEW c, NEW e, Become(c, e) PROVE Requeued
BY DEF Become, Requeued

LEMMA KeepsLane ==
  ASSUME LocationAssumption, TypeOK, LaneInv, Requeued,
         \A s \in Sample : stage[s] = "queued" => stage'[s] = "queued",
         \/ pc' = pc
         \/ pc \in {"idle", "ask"} /\ pc' \in {"idle", "ask"}
         \/ /\ pc \in {"permit", "transmit", "wait", "answer"}
            /\ pc' \in {"permit", "transmit", "wait", "answer"}
         \/ pc = "queued" /\ Head(lane) = Exchange /\ pc' = "permit"
  PROVE  LaneInv'
<1>1. LaneOK(lane', stage) /\ (HasExchange(lane') <=> HasExchange(lane))
      /\ (lane # <<>> => Head(lane') = Head(lane) /\ lane' # <<>>)
  BY LaneWithPurge DEF Requeued, LaneInv
<1>2. LaneOK(lane', stage')
  BY <1>1 DEF LaneOK
<1>3. pc = "queued" => lane # <<>>
  BY DEF LaneInv, HasExchange
<1> QED BY <1>1, <1>2, <1>3 DEF LaneInv

LEMMA LeavesLane ==
  ASSUME LocationAssumption, TypeOK, LaneInv, Leave,
         \/ pc \in {"permit", "transmit", "wait", "answer"}
         \/ pc = "queued" /\ Head(lane) = Exchange,
         \A s \in Sample : stage[s] = "queued" => stage'[s] = "queued"
  PROVE  LaneInv' /\ lane # <<>>
<1>1. lane \in Seq(Task) /\ lane # <<>> /\ Head(lane) = Exchange
        /\ LaneOK(lane, stage)
  BY DEF TypeOK, LaneInv, HasExchange
<1>2. LaneOK(Tail(lane), stage') /\ ~HasExchange(Tail(lane))
  BY <1>1, LaneTail
<1>3. lane' = Tail(lane) /\ pc' = "idle"
  BY DEF Leave
<1> QED BY <1>1, <1>2, <1>3 DEF LaneInv

LEMMA NextLane ==
  ASSUME LocationAssumption, LocationInv, [Next]_vars
  PROVE  LaneInv'
<1>0. TypeOK /\ LaneInv /\ lane \in Seq(Task) /\ LaneOK(lane, stage)
      /\ stage \in [Sample -> {"new", "asking", "queued", "row", "sent", "lost"}]
  BY DEF LocationInv, TypeOK, LaneInv
<1> DEFINE Kept == \A s \in Sample : stage[s] = "queued" => stage'[s] = "queued"
<1> USE DEF sampleVars, flightVars
<1>1. CASE \/ Toggle \/ \E c \in {"group", "none", "pending"} : SetContext(c)
           \/ \E a \in ActorOrNone : ChangeAccount(a)
           \/ FlushDenied \/ \E s \in Sample : CheckAgain(s)
  <2>1. Requeued /\ UNCHANGED <<stage, pc>>
    BY <1>1, BecomeLane DEF Toggle, SetContext, ChangeAccount, FlushDenied,
      CheckAgain, Requeued
  <2> QED BY <1>0, <2>1, KeepsLane
<1>2. CASE Crash
  <2>1. lane' = <<>> /\ pc' = "idle"
    BY <1>2 DEF Crash
  <2> QED BY <2>1 DEF LaneInv, LaneOK, HasExchange
<1>3. ASSUME NEW s \in Sample, Capture(s) \/ BackoffElapsed(s)
      PROVE  LaneInv'
  <2>1. Kept /\ UNCHANGED <<lane, pc>>
    BY <1>0, <1>3 DEF Capture, BackoffElapsed
  <2> QED BY <1>0, <2>1, KeepsLane DEF Requeued
<1>4. ASSUME NEW s \in Sample, Label(s)
      PROVE  LaneInv'
  <2>1. CASE lane' = lane
    <3>1. Kept /\ UNCHANGED <<lane, pc>>
      BY <1>0, <1>4, <2>1 DEF Label
    <3> QED BY <1>0, <3>1, KeepsLane DEF Requeued
  <2>2. CASE lane' # lane
    <3>1. /\ stage[s] = "asking" /\ stage' = [stage EXCEPT ![s] = "queued"]
          /\ lane' = Append(lane, Insertion(s)) /\ pc' = pc
      BY <1>4, <2>2 DEF Label
    <3>2. \A i \in 1 .. Len(lane) : lane[i] # Insertion(s)
      BY <1>0, <3>1 DEF LaneOK
    <3>3. \A t \in Sample : stage[t] = "queued" \/ Insertion(s) = Insertion(t) =>
                              stage'[t] = "queued"
      BY <1>0, <3>1, Tasks
    <3>4. LaneOK(lane', stage') /\ (HasExchange(lane') <=> HasExchange(lane))
      BY <1>0, <3>1, <3>2, <3>3, LaneAppend, Tasks
    <3>5. lane' # <<>> /\ (lane # <<>> => Head(lane') = Head(lane))
      BY <1>0, <3>1, Tasks, AppendLane
    <3> QED BY <1>0, <3>1, <3>4, <3>5 DEF LaneInv
  <2> QED BY <2>1, <2>2
<1>5. CASE PurgeRows \/ \E s \in Sample : Insert(s)
  <2>1. /\ lane # <<>> /\ lane' = Tail(lane) /\ pc' = pc
        /\ Head(lane) = Purge \/ \E s \in Sample : Head(lane) = Insertion(s)
    BY <1>5 DEF PurgeRows, Insert
  <2>2. \A s \in Sample : stage[s] = "queued" /\ Head(lane) # Insertion(s) =>
                            stage'[s] = "queued"
    BY <1>0, <1>5, Tasks DEF PurgeRows, Insert
  <2>3. Head(lane) # Exchange
    BY <2>1, Tasks
  <2>4. /\ LaneOK(lane', stage')
        /\ HasExchange(lane') => HasExchange(lane)
        /\ HasExchange(lane) => HasExchange(lane')
    BY <1>0, <2>1, <2>2, <2>3, LaneTail
  <2> QED BY <1>0, <2>1, <2>3, <2>4 DEF LaneInv
<1>6. CASE PruneExpired
  <2>1. Kept /\ UNCHANGED <<lane, pc>>
    BY <1>0, <1>6 DEF PruneExpired, DayOld, RowsIn
  <2> QED BY <1>0, <2>1, KeepsLane DEF Requeued
<1>7. CASE \/ SavePreference \/ StartExchange \/ Permit \/ Execute \/ Refuse
           \/ \E m \in late : ExecuteLate(m)
  <2>1. /\ UNCHANGED <<lane, stage>>
        /\ \/ pc' = pc
           \/ pc \in {"idle", "ask"} /\ pc' \in {"idle", "ask"}
           \/ /\ pc \in {"permit", "transmit", "wait", "answer"}
              /\ pc' \in {"permit", "transmit", "wait", "answer"}
    BY <1>7 DEF SavePreference, StartExchange, Permit, Execute, Refuse,
      ExecuteLate
  <2> QED BY <1>0, <2>1, KeepsLane DEF Requeued
<1>8. CASE Ask
  <2>1. CASE lane' = lane /\ pc' = "idle"
    BY <1>0, <1>8, <2>1, KeepsLane DEF Requeued, Ask
  <2>2. CASE ~(lane' = lane /\ pc' = "idle")
    <3>1. /\ lane' = Append(lane, Exchange) /\ pc' = "queued" /\ stage' = stage
          /\ pc = "ask"
      BY <1>8, <2>2 DEF Ask
    <3>2. \A i \in 1 .. Len(lane) : lane[i] # Exchange
      BY <1>0, <3>1 DEF LaneInv, HasExchange
    <3>3. LaneOK(lane', stage') /\ HasExchange(lane')
      BY <1>0, <3>1, <3>2, LaneAppend, Tasks
    <3> QED BY <3>1, <3>3 DEF LaneInv
  <2> QED BY <2>1, <2>2
<1>9. CASE Select
  <2>1. Kept /\ pc = "queued" /\ Head(lane) = Exchange
    BY <1>0, <1>9 DEF Select, DayOld, RowsIn
  <2>2. Leave \/ (pc' = "permit" /\ lane' = lane)
    BY <1>9 DEF Select, Fail
  <2> QED BY <1>0, <2>1, <2>2, KeepsLane, LeavesLane DEF Requeued
<1>10. CASE Transmit \/ BreakOff
  <2>1. /\ stage' = stage /\ pc \in {"transmit", "wait", "answer"}
        /\ Leave \/ (pc' = "wait" /\ lane' = lane)
    BY <1>10 DEF Transmit, BreakOff, Fail
  <2> QED BY <1>0, <2>1, KeepsLane, LeavesLane DEF Requeued
<1>11. CASE Settle
  <2>1. pc = "answer" /\ Leave
    BY <1>11 DEF Settle, Fail
  <2>2. \A s \in reply.accepted \cup reply.rejected : stage[s] = "row"
    BY <2>1 DEF LocationInv, FlightInv, StoredInv
  <2>3. \/ stage' = stage
        \/ stage' = [s \in Sample |-> CASE s \in reply.accepted -> "sent"
                                      [] s \in reply.rejected -> "lost"
                                      [] OTHER -> stage[s]]
    BY <1>11, Zenon DEF Settle
  <2>4. Kept
    BY <1>0, <2>2, <2>3
  <2> QED BY <1>0, <2>1, <2>4, LeavesLane
<1>12. CASE UNCHANGED vars
  BY <1>0, <1>12, KeepsLane DEF Requeued, vars
<1> QED BY <1>1, <1>2, <1>3, <1>4, <1>5, <1>6, <1>7, <1>8, <1>9, <1>10, <1>11,
          <1>12 DEF Next, Internal

-----------------------------------------------------------------------------
(* Owners. *)

LEMMA NextOwner ==
  ASSUME LocationAssumption, LocationInv, [Next]_vars
  PROVE  OwnerInv'
<1>0. TypeOK /\ OwnerInv /\ LaneOK(lane, stage) /\ AccessInv
      /\ stage \in [Sample -> {"new", "asking", "queued", "row", "sent", "lost"}]
      /\ owner \in [Sample -> ActorOrNone] /\ capturer \in [Sample -> ActorOrNone]
  BY DEF LocationInv, TypeOK, LaneInv
<1> DEFINE Held(s) == stage[s] \in {"queued", "row", "sent"}
<1>1. ASSUME UNCHANGED <<owner, capturer>>,
             \A s \in Sample : stage'[s] \in {"queued", "row", "sent"} => Held(s)
      PROVE  OwnerInv'
  BY <1>0, <1>1 DEF OwnerInv
<1> USE DEF sampleVars
<1>2. ASSUME NEW s \in Sample, Capture(s)
      PROVE  OwnerInv'
  BY <1>0, <1>2 DEF Capture, OwnerInv
<1>3. ASSUME NEW s \in Sample, Label(s)
      PROVE  OwnerInv'
  <2>1. CASE stage' = [stage EXCEPT ![s] = "lost"]
    BY <1>0, <1>3, <2>1 DEF Label, OwnerInv
  <2>2. CASE stage' # [stage EXCEPT ![s] = "lost"]
    <3>1. /\ stage[s] = "asking" /\ stage' = [stage EXCEPT ![s] = "queued"]
          /\ owner' = [owner EXCEPT ![s] = session] /\ capturer' = capturer
          /\ session # NoActor /\ Current(grant[s])
      BY <1>3, <2>2 DEF Label
    <3>2. session = capturer[s] /\ session \in Actor
      BY <1>0, <3>1 DEF AccessInv, TypeOK, ActorOrNone
    <3> QED BY <1>0, <3>1, <3>2 DEF OwnerInv
  <2> QED BY <2>1, <2>2
<1>4. ASSUME NEW s \in Sample, Insert(s)
      PROVE  OwnerInv'
  <2>1. stage[s] = "queued"
    <3>1. lane[1] = Insertion(s) /\ 1 \in 1 .. Len(lane)
      BY <1>0, <1>4, TailLane DEF Insert, TypeOK
    <3> QED BY <1>0, <3>1 DEF LaneOK
  <2> QED BY <1>0, <1>1, <1>4, <2>1 DEF Insert
<1>5. CASE Settle
  <2>1. \A s \in reply.accepted \cup reply.rejected : stage[s] = "row"
    BY <1>5 DEF Settle, LocationInv, FlightInv, StoredInv
  <2>2. \/ stage' = stage
        \/ stage' = [s \in Sample |-> CASE s \in reply.accepted -> "sent"
                                      [] s \in reply.rejected -> "lost"
                                      [] OTHER -> stage[s]]
    BY <1>5, Zenon DEF Settle
  <2>3. UNCHANGED <<owner, capturer>>
    BY <1>5 DEF Settle
  <2> QED BY <1>0, <1>1, <2>1, <2>2, <2>3
<1>6. CASE \/ Crash \/ PurgeRows \/ PruneExpired \/ Select
           \/ \E s \in Sample : CheckAgain(s) \/ BackoffElapsed(s)
  <2>1. /\ UNCHANGED <<owner, capturer>>
        /\ \A s \in Sample : stage'[s] = stage[s] \/ stage'[s] = "lost"
    BY <1>0, <1>6 DEF Crash, PurgeRows, PruneExpired, Select, CheckAgain,
      BackoffElapsed
  <2> QED BY <1>0, <1>1, <2>1
<1>7. CASE \/ StartExchange \/ Ask \/ Permit \/ Transmit \/ Execute \/ Refuse \/ BreakOff
           \/ FlushDenied \/ SavePreference \/ Toggle
           \/ \E c \in {"group", "none", "pending"} : SetContext(c)
           \/ \E a \in ActorOrNone : ChangeAccount(a)
           \/ \E m \in late : ExecuteLate(m)
  <2>1. UNCHANGED <<owner, capturer, stage>>
    BY <1>7 DEF StartExchange, Ask, Permit, Transmit, Execute, Refuse,
      BreakOff, FlushDenied, SavePreference, Toggle, SetContext,
      ChangeAccount, ExecuteLate
  <2> QED BY <1>1, <2>1
<1>8. CASE UNCHANGED vars
  BY <1>1, <1>8 DEF vars
<1> QED BY <1>2, <1>3, <1>4, <1>5, <1>6, <1>7, <1>8 DEF Next, Internal

-----------------------------------------------------------------------------
(* What a withdrawal leaves behind. *)

(* The samples of W are cleared as they were: fewer rows, the lane or with *)
(* one more purge.                                                         *)
LEMMA ClearRequeued ==
  ASSUME LocationAssumption, TypeOK, Requeued, NEW W \in SUBSET Sample, NEW new,
         \A s \in W : new[s] = "row" => stage[s] = "row"
  PROVE  /\ LaneClear(lane, stage, W) => LaneClear(lane', new, W)
         /\ ExchangeClear(lane, stage, W) => ExchangeClear(lane', new, W)
<1>1. lane \in Seq(Task) /\ Purge \in Task
  BY Tasks DEF TypeOK
<1>2. lane' = lane \/ lane' = Append(lane, Purge)
  BY DEF Requeued, WithPurge
<1>3. CASE lane' = lane
  BY <1>3 DEF LaneClear, ExchangeClear, Cleared
<1>4. CASE lane' = Append(lane, Purge)
  <2>1. ASSUME NEW s \in W, NEW k \in 1 .. Len(lane) + 1, NEW h \in Nat, h >= k,
               Cleared(lane, stage[s], s, k)
        PROVE  Cleared(lane', new[s], s, h)
    <3>1. Cleared(lane', stage[s], s, h)
      BY <1>1, <1>4, <2>1, AppendCleared, Tasks
    <3> QED BY <3>1 DEF Cleared
  <2>2. /\ Len(lane') = Len(lane) + 1 /\ Len(lane) \in Nat
        /\ \A i \in 1 .. Len(lane) : lane'[i] = lane[i]
        /\ lane'[Len(lane) + 1] = Purge
        /\ \A i \in 1 .. Len(lane') : i \in 1 .. Len(lane) \/ i = Len(lane) + 1
    BY <1>1, <1>4, AppendLane
  <2>3. LaneClear(lane, stage, W) => LaneClear(lane', new, W)
    <3>1. /\ Len(lane) + 1 \in 1 .. Len(lane) + 1 /\ Len(lane') + 1 \in Nat
          /\ Len(lane') + 1 >= Len(lane) + 1
      BY <2>2
    <3> QED BY <2>1, <3>1 DEF LaneClear
  <2>4. ASSUME ExchangeClear(lane, stage, W), NEW s \in W,
                 NEW k \in 1 .. Len(lane'),
               lane'[k] = Exchange
        PROVE  Cleared(lane', new[s], s, k)
    <3>1. k \in 1 .. Len(lane) /\ lane[k] = Exchange /\ k \in Nat /\ k >= k
          /\ k \in 1 .. Len(lane) + 1
      BY <2>2, <2>4, Tasks
    <3> QED BY <2>1, <2>4, <3>1 DEF ExchangeClear
  <2> QED BY <2>3, <2>4 DEF ExchangeClear
<1> QED BY <1>2, <1>3, <1>4

(* The head leaves the lane. *)
LEMMA ClearTail ==
  ASSUME LocationAssumption, NEW q \in Seq(Task), q # <<>>, NEW W \in SUBSET Sample,
         NEW stg, NEW new,
         \A s \in W : /\ new[s] = "row" => \/ stg[s] = "row" /\ Head(q) # Purge
                                           \/ Head(q) = Insertion(s)
  PROVE  /\ LaneClear(q, stg, W) => LaneClear(Tail(q), new, W)
         /\ ExchangeClear(q, stg, W) => ExchangeClear(Tail(q), new, W)
<1> DEFINE t == Tail(q)
<1>1. /\ Len(t) = Len(q) - 1 /\ Len(q) \in Nat /\ Len(q) > 0
      /\ \A i \in 1 .. Len(t) : t[i] = q[i + 1] /\ i + 1 \in 1 .. Len(q)
  BY TailLane
<1>2. ASSUME NEW s \in W, NEW k \in 1 .. Len(q) + 1, Cleared(q, stg[s], s, k)
      PROVE  Cleared(t, new[s], s, k - 1)
  <2>1. /\ Head(q) # Purge => Cleared(t, stg[s], s, k - 1)
        /\ stg[s] # "row" => Cleared(t, stg[s], s, k - 1)
        /\ Head(q) = Insertion(s) => PurgeBetween(t, 0, k - 1)
    BY <1>2, TailCleared
  <2>2. Cleared(q, "lost", s, k)
    BY <1>2 DEF Cleared
  <2>3. Cleared(t, "lost", s, k - 1)
    BY <2>2, TailCleared
  <2> HIDE DEF t
  <2> QED BY <2>1, <2>3 DEF Cleared
<1> HIDE DEF t
<1>3. LaneClear(q, stg, W) => LaneClear(t, new, W)
  <2>1. Len(q) + 1 \in 1 .. Len(q) + 1 /\ Len(q) + 1 - 1 = Len(t) + 1
    BY <1>1
  <2> QED BY <1>2, <2>1 DEF LaneClear
<1>4. ASSUME ExchangeClear(q, stg, W), NEW s \in W,
               NEW k \in 1 .. Len(t), t[k] = Exchange
      PROVE  Cleared(t, new[s], s, k)
  <2>1. k + 1 \in 1 .. Len(q) /\ q[k + 1] = Exchange /\ k + 1 \in 1 .. Len(q) + 1
        /\ k + 1 - 1 = k
    BY <1>1, <1>4
  <2>2. Cleared(q, stg[s], s, k + 1)
    BY <1>4, <2>1 DEF ExchangeClear
  <2>3. Cleared(t, new[s], s, k + 1 - 1)
    BY <1>2, <2>1, <2>2
  <2> QED BY <2>1, <2>3
<1> QED BY <1>3, <1>4 DEF ExchangeClear, t

LEMMA Fewer ==
  ASSUME NEW q, NEW stg, NEW W, NEW V, V \subseteq W
  PROVE  /\ LaneClear(q, stg, W) => LaneClear(q, stg, V)
         /\ ExchangeClear(q, stg, W) => ExchangeClear(q, stg, V)
BY DEF LaneClear, ExchangeClear

(* A step that withdraws nothing and starts no exchange. *)
LEMMA StaysClear ==
  ASSUME LocationAssumption, TypeOK, ClearInv, Requeued,
         slipped' = slipped, Withdrawn' \subseteq Withdrawn,
         \A s \in Withdrawn' : stage'[s] = "row" => stage[s] = "row",
         pc' = "queued" /\ Current(flight.grant)' =>
           pc = "queued" /\ Current(flight.grant)
  PROVE  ClearInv'
<1> DEFINE V == Withdrawn'
<1>1. V \in SUBSET Sample
  BY DEF Withdrawn
<1>2. /\ LaneClear(lane, stage, V) => LaneClear(lane', stage', V)
      /\ ExchangeClear(lane, stage, V) => ExchangeClear(lane', stage', V)
  <2> HIDE DEF V
  <2>1. \A s \in V : stage'[s] = "row" => stage[s] = "row"
    BY DEF V
  <2> QED BY <1>1, <2>1, ClearRequeued
<1>3. /\ LaneClear(lane, stage, Withdrawn) => LaneClear(lane, stage, V)
      /\ ExchangeClear(lane, stage, Withdrawn) => ExchangeClear(lane, stage, V)
  <2> HIDE DEF V
  <2> QED BY Fewer DEF V
<1> QED BY <1>2, <1>3 DEF ClearInv

(* The head of the lane, no purge that matters, leaves it. *)
LEMMA TailClear ==
  ASSUME LocationAssumption, TypeOK, ClearInv, lane # <<>>, lane' = Tail(lane),
         slipped' = slipped, Withdrawn' = Withdrawn,
         \A s \in Sample : stage'[s] = "row" => \/ stage[s] = "row" /\ Head(lane) # Purge
                                                \/ Head(lane) = Insertion(s),
         pc' = "queued" => pc = "queued" /\ UNCHANGED <<flight, accessVars>>
  PROVE  ClearInv'
<1>1. Withdrawn \in SUBSET Sample /\ lane \in Seq(Task)
  BY DEF Withdrawn, TypeOK
<1>2. \A s \in Withdrawn :
        stage'[s] = "row" => \/ stage[s] = "row" /\ Head(lane) # Purge
                             \/ Head(lane) = Insertion(s)
  BY <1>1
<1>3. /\ LaneClear(lane, stage, Withdrawn)
           => LaneClear(Tail(lane), stage', Withdrawn)
      /\ ExchangeClear(lane, stage, Withdrawn) =>
           ExchangeClear(Tail(lane), stage', Withdrawn)
  BY <1>1, <1>2, ClearTail
<1>4. pc' = "queued" /\ Current(flight.grant)'
        => pc = "queued" /\ Current(flight.grant)
  BY DEF Current, Enabled, accessVars
<1> QED BY <1>3, <1>4 DEF ClearInv

(* A withdrawal puts its purge behind whatever waits. *)
LEMMA BecomeClear ==
  ASSUME LocationAssumption, TypeOK, AccessInv, ClearInv, NEW c,
           NEW e, Become(c, e),
         UNCHANGED <<stage, grant, pc, flight, slipped>>
  PROVE  ClearInv'
<1>1. lane \in Seq(Task) /\ flight.grant \in Nat /\ flight.grant <= generation
      /\ generation \in Nat
  BY DEF TypeOK, AccessInv
<1>2. CASE revoked' = revoked
  <2>1. Withdrawn' = Withdrawn
    BY <1>2 DEF Withdrawn
  <2>2. Current(flight.grant)' => Current(flight.grant)
    BY <1>1, BecomeStale
  <2>3. Requeued
    BY BecomeLane
  <2> QED BY <2>1, <2>2, <2>3, StaysClear
<1>3. CASE revoked' # revoked
  <2>1. lane' = WithPurge /\ generation' = generation + 1
    BY <1>3 DEF Become
  <2>2. ~Current(flight.grant)'
    BY <1>1, <2>1 DEF Current
  <2>3. /\ WithPurge \in Seq(Task) /\ WithPurge # <<>>
        /\ WithPurge[Len(WithPurge)] = Purge
    BY <1>1, WithPurgeType
  <2>4. \A s \in Sample : Cleared(lane', stage'[s], s, Len(lane') + 1)
    BY <2>1, <2>3, PurgeClears
  <2>5. \A s \in Withdrawn' : s \in Sample
    BY DEF Withdrawn
  <2> QED BY <2>2, <2>4, <2>5 DEF ClearInv, LaneClear
<1> QED BY <1>2, <1>3

LEMMA NextClear ==
  ASSUME LocationAssumption, LocationInv, [Next]_vars
  PROVE  ClearInv'
<1>0. /\ TypeOK /\ ClearInv /\ AccessInv /\ LaneInv /\ lane \in Seq(Task)
      /\ stage \in [Sample -> {"new", "asking", "queued", "row", "sent", "lost"}]
      /\ grant \in [Sample -> Nat] /\ revoked \in Nat /\ generation \in Nat
      /\ revoked <= generation
  BY DEF LocationInv, TypeOK, AccessInv
<1> USE DEF sampleVars, flightVars, deviceVars
<1> DEFINE Same == /\ UNCHANGED <<grant, revoked, slipped>>
                   /\ \A s \in Sample : stage'[s] = "row" => stage[s] = "row"
           Still == pc' = "queued"
               => pc = "queued" /\ UNCHANGED <<flight, accessVars>>
<1>1. ASSUME Same, Still, Requeued
      PROVE  ClearInv'
  <2>1. Withdrawn' = Withdrawn /\ Withdrawn \subseteq Sample
    BY <1>1 DEF Withdrawn
  <2>2. pc' = "queued" /\ Current(flight.grant)'
          => pc = "queued" /\ Current(flight.grant)
    BY <1>1 DEF Current, Enabled, accessVars
  <2> QED BY <1>0, <1>1, <2>1, <2>2, StaysClear
<1>2. ASSUME Same, Leave, lane # <<>>, Head(lane) = Exchange
      PROVE  ClearInv'
  <2>1. Withdrawn' = Withdrawn
    BY <1>2 DEF Withdrawn
  <2>2. lane' = Tail(lane) /\ pc' = "idle" /\ Head(lane) # Purge
    BY <1>2, Tasks DEF Leave
  <2> QED BY <1>0, <1>2, <2>1, <2>2, TailClear
<1>3. CASE Toggle
  <2>1. PICK c : Become(c, ~wish)
    BY <1>3 DEF Toggle
  <2>2. UNCHANGED <<stage, grant, pc, flight, slipped>>
    BY <1>3 DEF Toggle
  <2> QED BY <1>0, <2>1, <2>2, BecomeClear
<1>4. ASSUME NEW c \in {"group", "none", "pending"}, SetContext(c)
      PROVE  ClearInv'
  <2>1. Become(c, wish) /\ UNCHANGED <<stage, grant, pc, flight, slipped>>
    BY <1>4 DEF SetContext
  <2> QED BY <1>0, <2>1, BecomeClear
<1>5. ASSUME NEW a \in ActorOrNone, ChangeAccount(a)
      PROVE  ClearInv'
  <2>1. UNCHANGED <<stage, grant, pc, flight, slipped>>
    BY <1>5 DEF ChangeAccount
  <2>2. CASE Become("none", FALSE)
    BY <1>0, <2>1, <2>2, BecomeClear
  <2>3. CASE Requeued /\ UNCHANGED accessVars
    BY <1>1, <2>1, <2>3 DEF accessVars
  <2> QED BY <1>5, <2>2, <2>3 DEF ChangeAccount, Requeued
<1>6. CASE FlushDenied \/ \E s \in Sample : CheckAgain(s)
  <2>1. Requeued /\ Same /\ Still
    BY <1>6 DEF FlushDenied, CheckAgain, Requeued, accessVars
  <2> QED BY <1>1, <2>1
<1>7. CASE Crash
  <2>1. /\ lane' = <<>> /\ pc' = "idle" /\ UNCHANGED <<grant, revoked>>
        /\ ~slipped' => ~slipped /\ \A i \in 1 .. Len(lane) : lane[i] # Purge
        /\ \A s \in Sample : stage'[s] = "row" => stage[s] = "row"
    BY <1>7 DEF Crash
  <2>2. ASSUME ~slipped', NEW s \in Withdrawn'
        PROVE  Cleared(lane', stage'[s], s, Len(lane') + 1)
    <3>1. s \in Withdrawn /\ s \in Sample
      BY <2>1 DEF Withdrawn
    <3>2. Cleared(lane, stage[s], s, Len(lane) + 1)
      BY <2>1, <2>2, <3>1 DEF ClearInv, LocationInv, LaneClear
    <3>3. stage[s] # "row"
      BY <2>1, <2>2, <3>2 DEF Cleared, PurgeBetween
    <3>4. stage'[s] # "row" /\ 1 .. Len(lane') = {}
      BY <2>1, <3>1, <3>3
    <3> QED BY <3>4 DEF Cleared
  <2> QED BY <2>1, <2>2 DEF ClearInv, LaneClear
<1>8. ASSUME NEW s \in Sample, Capture(s)
      PROVE  ClearInv'
  <2>1. /\ grant' = [grant EXCEPT ![s] = generation]
        /\ UNCHANGED <<revoked, slipped, pc, flight, lane, accessVars>>
        /\ stage' = [stage EXCEPT ![s] = "asking"]
    BY <1>8 DEF Capture, accessVars
  <2>2. Withdrawn' \subseteq Withdrawn /\ Withdrawn \subseteq Sample
    BY <1>0, <2>1 DEF Withdrawn
  <2>3. \A t \in Sample : stage'[t] = "row" => stage[t] = "row"
    BY <1>0, <2>1
  <2>4. Current(flight.grant)' => Current(flight.grant)
    BY <2>1 DEF Current, Enabled, accessVars
  <2> QED BY <1>0, <2>1, <2>2, <2>3, <2>4, StaysClear DEF Requeued
<1>9. ASSUME NEW s \in Sample, Label(s)
      PROVE  ClearInv'
  <2>1. CASE stage' = [stage EXCEPT ![s] = "lost"]
    <3>1. Same /\ Still /\ Requeued
      BY <1>0, <1>9, <2>1 DEF Label, accessVars, Requeued
    <3> QED BY <1>1, <3>1
  <2>2. CASE stage' # [stage EXCEPT ![s] = "lost"]
    <3>1. /\ stage' = [stage EXCEPT ![s] = "queued"] /\ Current(grant[s])
          /\ lane' = Append(lane, Insertion(s))
               /\ UNCHANGED <<grant, slipped, pc, flight>>
          /\ UNCHANGED <<context, consent, generation, revoked>>
      BY <1>9, <2>2 DEF Label, accessVars
    <3>2. s \notin Withdrawn /\ Withdrawn' = Withdrawn /\ Withdrawn \subseteq Sample
      BY <1>0, <3>1 DEF Withdrawn, Current
    <3>3. \A t \in Withdrawn : Insertion(s) # Insertion(t) /\ stage'[t] = stage[t]
      BY <1>0, <3>1, <3>2, Tasks
    <3>4. /\ Len(lane') = Len(lane) + 1 /\ Len(lane) \in Nat
          /\ \A i \in 1 .. Len(lane) : lane'[i] = lane[i]
          /\ lane'[Len(lane) + 1] = Insertion(s)
          /\ \A i \in 1 .. Len(lane') : i \in 1 .. Len(lane) \/ i = Len(lane) + 1
      BY <1>0, <3>1, Tasks, AppendLane
    <3>5. ASSUME NEW t \in Withdrawn, NEW k \in 1 .. Len(lane) + 1,
                   NEW h \in Nat, h >= k,
                 Cleared(lane, stage[t], t, k)
          PROVE  Cleared(lane', stage'[t], t, h)
      BY <1>0, <3>1, <3>2, <3>3, <3>5, AppendCleared, Tasks
    <3>6. LaneClear(lane, stage, Withdrawn) => LaneClear(lane', stage', Withdrawn)
      <4>1. /\ Len(lane) + 1 \in 1 .. Len(lane) + 1 /\ Len(lane') + 1 \in Nat
            /\ Len(lane') + 1 >= Len(lane) + 1
        BY <3>4
      <4> QED BY <3>5, <4>1 DEF LaneClear
    <3>7. ASSUME ExchangeClear(lane, stage, Withdrawn), NEW t \in Withdrawn,
                 NEW k \in 1 .. Len(lane'), lane'[k] = Exchange
          PROVE  Cleared(lane', stage'[t], t, k)
      <4>1. k \in 1 .. Len(lane) /\ lane[k] = Exchange /\ k \in Nat /\ k >= k
            /\ k \in 1 .. Len(lane) + 1
        BY <3>4, <3>7, Tasks
      <4> QED BY <3>5, <3>7, <4>1 DEF ExchangeClear
    <3>8. Current(flight.grant)' => Current(flight.grant)
      BY <3>1 DEF Current, Enabled
    <3> QED BY <1>0, <3>1, <3>2, <3>6, <3>7, <3>8 DEF ClearInv, ExchangeClear
  <2> QED BY <2>1, <2>2
<1>10. ASSUME NEW s \in Sample, Insert(s)
       PROVE  ClearInv'
  <2>1. /\ lane # <<>> /\ lane' = Tail(lane) /\ Head(lane) = Insertion(s)
        /\ UNCHANGED <<slipped, grant, accessVars, pc, flight>>
        /\ Head(lane) # Purge
    BY <1>10, Tasks DEF Insert
  <2>2. \A t \in Sample : stage'[t] = "row" => stage[t] = "row" \/ t = s
    BY <1>0, <1>10 DEF Insert
  <2>3. Withdrawn' = Withdrawn
    BY <2>1 DEF Withdrawn, accessVars
  <2> QED BY <1>0, <2>1, <2>2, <2>3, TailClear
<1>11. CASE PurgeRows
  <2>1. /\ lane # <<>> /\ lane' = Tail(lane) /\ Head(lane) = Purge
        /\ UNCHANGED <<grant, accessVars, pc, flight>>
    BY <1>11 DEF PurgeRows
  <2>2. Withdrawn' = Withdrawn
    BY <2>1 DEF Withdrawn, accessVars
  <2>3. CASE slipped'
    BY <2>3 DEF ClearInv
  <2>4. CASE ~slipped'
    <3>1. slipped' = slipped /\ \A s \in Sample : stage'[s] # "row"
      BY <1>0, <1>11, <2>4 DEF PurgeRows
    <3> QED BY <1>0, <2>1, <2>2, <3>1, TailClear
  <2> QED BY <2>3, <2>4
<1>12. CASE PruneExpired
  <2>1. Same /\ Still /\ Requeued
    BY <1>0, <1>12 DEF PruneExpired, accessVars, Requeued
  <2> QED BY <1>1, <2>1
<1>13. CASE \/ SavePreference \/ StartExchange \/ Permit \/ Execute \/ Refuse
            \/ \E s \in Sample : BackoffElapsed(s)
            \/ \E m \in late : ExecuteLate(m)
  <2>1. Same /\ Still /\ Requeued
    BY <1>13 DEF SavePreference, StartExchange, Permit, Execute, Refuse,
      BackoffElapsed, ExecuteLate, Requeued, accessVars
  <2> QED BY <1>1, <2>1
<1>14. CASE Ask
  <2>1. CASE lane' = lane /\ pc' = "idle"
    <3>1. Same /\ Still /\ Requeued
      BY <1>14, <2>1 DEF Ask, accessVars, Requeued
    <3> QED BY <1>1, <3>1
  <2>2. CASE ~(lane' = lane /\ pc' = "idle")
    <3>1. /\ lane' = Append(lane, Exchange) /\ pc = "ask"
          /\ UNCHANGED <<stage, grant, revoked, slipped>>
      BY <1>14, <2>2 DEF Ask, accessVars
    <3>2. /\ Len(lane') = Len(lane) + 1 /\ Len(lane) \in Nat
          /\ \A i \in 1 .. Len(lane) : lane'[i] = lane[i]
          /\ \A i \in 1 .. Len(lane') : i \in 1 .. Len(lane) \/ i = Len(lane) + 1
      BY <1>0, <3>1, Tasks, AppendLane
    <3>3. Withdrawn' = Withdrawn /\ Withdrawn \subseteq Sample
      BY <3>1 DEF Withdrawn
    <3>4. ASSUME ~slipped, NEW s \in Withdrawn, NEW h \in Nat, h >= Len(lane) + 1
          PROVE  Cleared(lane', stage'[s], s, h)
      <4>1. Cleared(lane, stage[s], s, Len(lane) + 1)
        BY <1>0, <3>4 DEF ClearInv, LaneClear
      <4>2. Len(lane) + 1 \in 1 .. Len(lane) + 1 /\ Exchange # Insertion(s)
              /\ s \in Sample
            /\ Exchange \in Task
        BY <3>2, <3>3, Tasks
      <4>3. Cleared(Append(lane, Exchange), stage[s], s, h)
        BY <1>0, <3>4, <4>1, <4>2, AppendCleared
      <4> QED BY <3>1, <4>3
    <3>5. \A i \in 1 .. Len(lane) : lane[i] # Exchange
      BY <1>0, <3>1 DEF LaneInv, HasExchange
    <3>6. ASSUME NEW k \in 1 .. Len(lane'), lane'[k] = Exchange
          PROVE  k \in Nat /\ k >= Len(lane) + 1
      BY <3>2, <3>5, <3>6
    <3>7. Len(lane') + 1 \in Nat /\ Len(lane') + 1 >= Len(lane) + 1
      BY <3>2
    <3> QED BY <3>1, <3>3, <3>4, <3>6, <3>7 DEF ClearInv, LaneClear,
              ExchangeClear
  <2> QED BY <2>1, <2>2
<1>15. CASE Select
  <2>1. Same /\ lane # <<>> /\ Head(lane) = Exchange
    BY <1>0, <1>15 DEF Select, LaneInv, HasExchange, accessVars
  <2>2. Leave \/ (lane' = lane /\ pc' = "permit")
    BY <1>15 DEF Select, Fail
  <2> QED BY <1>1, <1>2, <2>1, <2>2 DEF Requeued
<1>16. CASE Transmit \/ BreakOff \/ Settle
  <2>1. pc \in {"permit", "transmit", "wait", "answer"}
    BY <1>16 DEF Transmit, BreakOff, Settle
  <2>2. lane # <<>> /\ Head(lane) = Exchange
    BY <1>0, <2>1 DEF LaneInv
  <2>3. Leave \/ (lane' = lane /\ pc' = "wait")
    BY <1>16 DEF Transmit, BreakOff, Settle, Fail
  <2>4. \/ stage' = stage
        \/ stage' = [s \in Sample |-> CASE s \in reply.accepted -> "sent"
                                      [] s \in reply.rejected -> "lost"
                                      [] OTHER -> stage[s]]
    BY <1>16, Zenon DEF Transmit, BreakOff, Settle
  <2>5. UNCHANGED <<grant, revoked, slipped>>
    BY <1>16 DEF Transmit, BreakOff, Settle, accessVars
  <2>6. Same
    BY <1>0, <2>4, <2>5
  <2> QED BY <1>1, <1>2, <2>2, <2>3, <2>6 DEF Requeued
<1>17. CASE UNCHANGED vars
  <2>1. Same /\ Still /\ Requeued
    BY <1>17 DEF vars, Requeued, accessVars
  <2> QED BY <1>1, <2>1
<1> QED BY <1>3, <1>4, <1>5, <1>6, <1>7, <1>8, <1>9, <1>10, <1>11, <1>12,
          <1>13, <1>14, <1>15, <1>16, <1>17 DEF Next, Internal

-----------------------------------------------------------------------------
(* The exchange and the server. *)

(* What was stored stays, and what is accepted is stored for the account.  *)
LEMMA Ingested ==
  ASSUME LocationAssumption, Shape, NEW m \in Request, m.actor \in Actor, Ingest(m)
  PROVE  /\ \A s \in Sample : stored[s] # NoActor => stored'[s] = stored[s]
         /\ \A s \in Accepted(m) : stored'[s] = m.actor /\ s \in m.events
         /\ \A s \in Sample : stored'[s] = stored[s]
              \/ (s \in Fresh(m) /\ stored'[s] = m.actor)
<1>1. m.actor # NoActor /\ m.events \subseteq Sample
  BY DEF LocationAssumption, Request
<1>2. stored' = [s \in Sample |-> IF s \in Fresh(m) THEN m.actor ELSE stored[s]]
  BY DEF Ingest
<1>3. \A s \in Fresh(m) : s \in m.events /\ stored[s] = NoActor
  BY FreshOne
<1> QED BY <1>1, <1>2, <1>3 DEF Accepted

(* Nobody leaves the outbox while the exchange is under way. *)
LEMMA BatchStays ==
  ASSUME LocationAssumption, LocationInv, [Next]_vars,
         pc \in {"permit", "transmit", "wait", "answer"},
         pc' \in {"permit", "transmit", "wait", "answer"}
  PROVE  /\ flight' = flight
         /\ \A s \in flight.batch : stage'[s] = "row" /\ owner'[s] = owner[s]
<1>0. /\ TypeOK /\ flight.batch \subseteq Sample
      /\ \A s \in flight.batch : stage[s] = "row"
      /\ lane # <<>> /\ Head(lane) = Exchange
      /\ stage \in [Sample -> {"new", "asking", "queued", "row", "sent", "lost"}]
      /\ owner \in [Sample -> ActorOrNone]
  BY DEF LocationInv, TypeOK, FlightInv, LaneInv
<1>1. ~Leave /\ ~Crash
  BY DEF Leave, Crash
<1>2. ~PurgeRows /\ \A s \in Sample : ~Insert(s)
  BY <1>0, Tasks DEF PurgeRows, Insert
<1> USE DEF sampleVars, flightVars
<1>3. CASE UNCHANGED <<flight, stage, owner>>
  BY <1>0, <1>3
<1>4. CASE \E s \in Sample : Capture(s) \/ Label(s)
  BY <1>0, <1>4 DEF Capture, Label
<1>5. CASE ~(\E s \in Sample : Capture(s) \/ Label(s))
  <2>1. UNCHANGED <<flight, stage, owner>>
    BY <1>1, <1>2, <1>5 DEF Next, Internal, vars, Toggle, FlushDenied,
      PruneExpired, Refuse, BreakOff, SetContext, ChangeAccount, ExecuteLate,
      StartExchange, Ask, Select, Permit, Transmit, Execute, Settle,
      SavePreference, CheckAgain, BackoffElapsed, Fail
  <2> QED BY <1>3, <2>1
<1> QED BY <1>4, <1>5

(* What a step that is no step of the exchange does to it. *)
LEMMA OtherSteps ==
  ASSUME [Next]_vars
  PROVE  \/ UNCHANGED <<pc, flight, reply, request, late, stored, position>>
         \/ Crash
         \/ StartExchange \/ Ask \/ Select \/ Permit \/ Transmit \/ Execute
         \/ Settle \/ Refuse \/ BreakOff \/ \E m \in late : ExecuteLate(m)
BY DEF Next, Internal, vars, flightVars, serverVars, Toggle, FlushDenied,
  PruneExpired, SetContext, ChangeAccount, SavePreference, Capture, Label,
  CheckAgain, Insert, BackoffElapsed, PurgeRows

LEMMA StillWithdrawn ==
  ASSUME LocationAssumption, LocationInv, [Next]_vars, pc' # "idle",
           flight' = flight,
         Current(flight.grant)'
  PROVE  Current(flight.grant) /\ Withdrawn' \subseteq Withdrawn
           /\ (slipped => slipped')
<1>0. /\ TypeOK /\ AccessInv /\ grant \in [Sample -> Nat]
      /\ revoked \in Nat /\ generation \in Nat /\ revoked <= generation
      /\ flight.grant \in Nat /\ flight.grant <= generation
  BY DEF LocationInv, TypeOK, AccessInv
<1>1. ~Crash
  BY DEF Crash
<1>2. slipped => slipped'
  BY <1>1 DEF Next, Internal, vars, Toggle, FlushDenied, PruneExpired, Refuse,
    BreakOff, SetContext, ChangeAccount, ExecuteLate, StartExchange, Ask,
    Select, Permit, Transmit, Execute, Settle, SavePreference, CheckAgain,
    BackoffElapsed, Capture, Label, Insert, PurgeRows
<1> USE DEF sampleVars, accessVars
<1>3. CASE UNCHANGED <<accessVars, grant>>
  BY <1>2, <1>3 DEF Current, Enabled, Withdrawn
<1>4. ASSUME NEW s \in Sample, Capture(s)
      PROVE  Current(flight.grant) /\ Withdrawn' \subseteq Withdrawn
  BY <1>0, <1>4 DEF Capture, Current, Enabled, Withdrawn
<1>5. ASSUME NEW c, NEW e, Become(c, e), grant' = grant
      PROVE  Current(flight.grant) /\ Withdrawn' \subseteq Withdrawn
  <2>1. Current(flight.grant)
    <3>1. Current(flight.grant)' => generation' = flight.grant /\ Enabled'
      BY DEF Current
    <3>2. \A g \in Nat : g <= generation /\ Current(g)' => Current(g)
      BY <1>0, <1>5, BecomeStale
    <3>3. flight'.grant = flight.grant
      OBVIOUS
    <3>4. \A g : g = flight'.grant => (Current(flight.grant)' <=> Current(g)')
      BY DEF Current, Enabled
    <3> QED BY <1>0, <3>2, <3>3, <3>4
  <2>2. revoked' = revoked \/ generation' = generation + 1
    BY <1>5 DEF Become
  <2>3. generation' = flight.grant
    BY DEF Current
  <2>4. revoked' = revoked
    BY <1>0, <2>2, <2>3
  <2> QED BY <1>5, <2>1, <2>4 DEF Withdrawn
<1>6. \/ UNCHANGED <<accessVars, grant>>
      \/ \E s \in Sample : Capture(s)
      \/ \E c, e : Become(c, e) /\ grant' = grant
  BY <1>1 DEF Next, Internal, vars, Toggle, FlushDenied, PruneExpired, Refuse,
    BreakOff, SetContext, ChangeAccount, ExecuteLate, StartExchange, Ask,
    Select, Permit, Transmit, Execute, Settle, SavePreference, CheckAgain,
    BackoffElapsed, Label, Insert, PurgeRows
<1> QED BY <1>2, <1>3, <1>4, <1>5, <1>6

(* A batch under an access that stands has no sample of a withdrawal.      *)
LEMMA Selected ==
  ASSUME LocationAssumption, LocationInv, Select, pc' = "permit"
  PROVE  /\ flight'.actor = flight.actor
         /\ \A s \in flight'.batch : stage'[s] = "row" /\ owner'[s] = flight.actor
         /\ slipped' \/ flight'.batch \cap Withdrawn' = {}
<1>0. /\ TypeOK /\ lane \in Seq(Task) /\ pc = "queued" /\ Head(lane) = Exchange
      /\ lane # <<>> /\ flight.batch \subseteq Sample
      /\ stage \in [Sample -> {"new", "asking", "queued", "row", "sent", "lost"}]
      /\ flight \in [actor : ActorOrNone, grant : Nat, batch : SUBSET Sample]
  BY DEF LocationInv, TypeOK, LaneInv, HasExchange, Select
<1>1. PICK gone \in {{}} \cup DayOld :
        LET due == {s \in RowsIn \ gone : ready[s] /\ owner[s] = flight.actor}
            batch == Newest(due, MaxBatch)
        IN /\ stage' = [s \in Sample |-> IF s \in gone THEN "lost" ELSE stage[s]]
           /\ batch # {} /\ Current(flight.grant)
           /\ flight' = [flight EXCEPT !.batch = batch]
  BY DEF Select, Leave, Fail
<1> DEFINE due == {s \in RowsIn \ gone : ready[s] /\ owner[s] = flight.actor}
           batch == Newest(due, MaxBatch)
<1>2. /\ stage' = [s \in Sample |-> IF s \in gone THEN "lost" ELSE stage[s]]
      /\ Current(flight.grant) /\ flight' = [flight EXCEPT !.batch = batch]
  BY <1>1
<1>3. \A s \in batch : /\ s \in Sample /\ stage[s] = "row" /\ s \notin gone
                       /\ owner[s] = flight.actor
  BY NewestIn DEF RowsIn
<1> HIDE DEF batch
<1>4. flight'.batch = batch /\ flight'.actor = flight.actor
  BY <1>0, <1>2
<1>5. \A s \in flight'.batch : stage'[s] = "row" /\ owner'[s] = flight.actor
  BY <1>2, <1>3, <1>4 DEF Select
<1>6. ASSUME ~slipped, NEW s \in batch, s \in Withdrawn
      PROVE  FALSE
  <2>1. 1 \in 1 .. Len(lane) /\ lane[1] = Exchange
    BY <1>0, TailLane
  <2>2. Cleared(lane, stage[s], s, 1)
    BY <1>0, <1>2, <1>6, <2>1 DEF LocationInv, ClearInv, ExchangeClear
  <2>3. PICK i \in 1 .. Len(lane) : 0 < i /\ i < 1
    BY <1>3, <2>2 DEF Cleared, PurgeBetween
  <2> QED BY <2>3
<1>7. Withdrawn' = Withdrawn /\ slipped' = slipped
  BY DEF Select, Withdrawn, accessVars
<1> QED BY <1>4, <1>5, <1>6, <1>7

LEMMA NextFlight ==
  ASSUME LocationAssumption, LocationInv, [Next]_vars
  PROVE  FlightInv'
<1>0. /\ TypeOK /\ TypeOK' /\ FlightInv /\ LaneInv /\ OwnerInv
      /\ flight \in [actor : ActorOrNone, grant : Nat, batch : SUBSET Sample]
  BY NextTypes DEF LocationInv, TypeOK
<1> DEFINE Going == {"permit", "transmit", "wait", "answer"}
(* Who the exchange is for, and which requests nobody waits for. *)
<1>1. (pc' # "idle" => flight'.actor \in Actor)
        /\ \A m \in late' : m.actor \in Actor
  <2>1. CASE UNCHANGED <<pc, flight, late>>
    BY <1>0, <2>1 DEF FlightInv
  <2>2. CASE Crash
    BY <1>0, <2>2 DEF Crash, FlightInv
  <2>3. CASE StartExchange
    BY <1>0, <2>3 DEF StartExchange, FlightInv, TypeOK, ActorOrNone, NoFlight,
      serverVars
  <2>4. CASE Ask
    BY <1>0, <2>4 DEF Ask, FlightInv, serverVars
  <2>5. CASE Select
    <3>1. late' = late /\ (pc' = "idle" \/ pc' = "permit")
      BY <2>5 DEF Select, Leave, Fail, serverVars
    <3> QED BY <1>0, <2>5, <3>1, Selected DEF FlightInv, Select
  <2>6. CASE Permit \/ Transmit \/ Execute \/ Settle \/ Refuse
    <3>1. late' = late /\ (pc' = "idle" \/ flight' = flight) /\ pc # "idle"
      BY <2>6 DEF Permit, Transmit, Execute, Settle, Refuse, Leave, Fail,
        serverVars
    <3> QED BY <1>0, <3>1 DEF FlightInv
  <2>7. CASE BreakOff
    <3>1. pc' = "idle" /\ (late' = late \/ (pc = "wait" /\ late' = late \cup {request}))
      BY <2>7 DEF BreakOff, Leave, Fail
    <3> QED BY <1>0, <3>1 DEF FlightInv
  <2>8. CASE \E m \in late : ExecuteLate(m)
    BY <1>0, <2>8 DEF ExecuteLate, FlightInv, flightVars
  <2> QED BY <2>1, <2>2, <2>3, <2>4, <2>5, <2>6, <2>7, <2>8, OtherSteps
(* Under way: the batch is what was selected. *)
<1>2. ASSUME pc' \in Going, pc \in Going
      PROVE  \A s \in flight'.batch : stage'[s] = "row" /\ owner'[s] = flight'.actor
  BY <1>0, <1>2, BatchStays DEF FlightInv
<1>3. ASSUME pc' \in Going, pc \notin Going
      PROVE  /\ pc' = "permit" /\ flight'.actor = flight.actor
             /\ \A s \in flight'.batch : stage'[s] = "row"
                  /\ owner'[s] = flight'.actor
             /\ slipped' \/ flight'.batch \cap Withdrawn' = {}
  <2>1. Select /\ pc' = "permit"
    BY <1>3, OtherSteps DEF Crash, StartExchange, Ask, Select, Permit,
      Transmit, Execute, Settle, Refuse, BreakOff, ExecuteLate, Leave, Fail,
      flightVars
  <2> QED BY <2>1, Selected
<1>4. ASSUME pc' \in {"permit", "transmit"}, Current(flight.grant)'
      PROVE  slipped' \/ flight'.batch \cap Withdrawn' = {}
  <2>1. CASE pc \in Going
    <3>1. pc \in {"permit", "transmit"}
      BY <1>4, <2>1, OtherSteps DEF Crash, StartExchange, Ask, Select, Permit,
        Transmit, Execute, Settle, Refuse, BreakOff, ExecuteLate, Leave, Fail,
        flightVars
    <3>2. flight' = flight
      BY <1>4, <2>1, BatchStays
    <3>3. Current(flight.grant) /\ Withdrawn' \subseteq Withdrawn
            /\ (slipped => slipped')
      BY <1>4, <3>2, StillWithdrawn
    <3> QED BY <1>0, <3>1, <3>2, <3>3 DEF FlightInv
  <2>2. CASE pc \notin Going
    BY <1>3, <1>4, <2>2
  <2> QED BY <2>1, <2>2
<1>5. ASSUME pc' = "wait"
      PROVE  request'.actor = flight'.actor
               /\ request'.events \subseteq flight'.batch
  <2>1. CASE pc = "wait" /\ UNCHANGED <<flight, request>>
    BY <1>0, <2>1 DEF FlightInv
  <2>2. CASE Transmit
    <3>1. \E n : request' = [events |-> Newest(flight.batch, n), actor |-> session]
      BY <1>5, <2>2 DEF Transmit, Fail, Leave
    <3>2. session = flight.actor /\ flight' = flight
      BY <1>5, <2>2 DEF Transmit, Fail, Leave
    <3> QED BY <3>1, <3>2, NewestIn
  <2>3. \/ pc = "wait" /\ UNCHANGED <<flight, request>>
        \/ Transmit
    BY <1>5, OtherSteps DEF Crash, StartExchange, Ask, Select, Permit,
      Execute, Settle, Refuse, BreakOff, ExecuteLate, Leave, Fail, flightVars
  <2> QED BY <2>1, <2>2, <2>3
<1> HIDE DEF Going
<1>6. pc' \in Going => \A s \in flight'.batch : stage'[s] = "row"
        /\ owner'[s] = flight'.actor
  BY <1>2, <1>3
<1> QED BY <1>1, <1>4, <1>5, <1>6 DEF FlightInv, Going

LEMMA NextStored ==
  ASSUME LocationAssumption, LocationInv, [Next]_vars
  PROVE  StoredInv'
<1>0. /\ TypeOK /\ Shape /\ StoredInv /\ FlightInv /\ LaneOK(lane, stage)
           /\ OwnerInv
      /\ request \in Request
      /\ stage \in [Sample -> {"new", "asking", "queued", "row", "sent", "lost"}]
      /\ owner \in [Sample -> ActorOrNone] /\ reply.accepted \subseteq Sample
  BY Shaped DEF LocationInv, TypeOK, LaneInv
(* The server forgets nothing. *)
<1>1. \A s \in Sample : stored[s] # NoActor => stored'[s] = stored[s]
  <2>1. CASE UNCHANGED stored
    BY <2>1
  <2>2. CASE Execute
    BY <1>0, <2>2, Ingested DEF Execute, FlightInv
  <2>3. CASE \E m \in late : ExecuteLate(m)
    BY <1>0, <2>3, Ingested DEF ExecuteLate, FlightInv, TypeOK
  <2> QED BY <2>1, <2>2, <2>3, OtherSteps DEF Crash, StartExchange, Ask,
            Select, Permit, Transmit, Settle, Refuse, BreakOff, serverVars
(* The answer. *)
<1>2. ASSUME UNCHANGED <<reply, flight>>, pc = "answer" => pc' = "answer"
      PROVE  /\ \A s \in reply'.accepted : /\ pc' = "answer" /\ s \in flight'.batch
                                           /\ stored'[s] = flight'.actor
             /\ \A s \in reply'.rejected : pc' = "answer" /\ s \in flight'.batch
  <2>1. ASSUME NEW s \in reply.accepted
        PROVE  stored'[s] = flight.actor
    <3>1. stored[s] = flight.actor /\ flight.actor \in Actor /\ s \in Sample
      BY <1>0 DEF StoredInv, FlightInv
    <3>2. stored[s] # NoActor
      BY <3>1 DEF LocationAssumption
    <3> QED BY <1>1, <3>1, <3>2
  <2> QED BY <1>0, <1>2, <2>1 DEF StoredInv
<1>3. /\ \A s \in reply'.accepted : /\ pc' = "answer" /\ s \in flight'.batch
                                    /\ stored'[s] = flight'.actor
      /\ \A s \in reply'.rejected : pc' = "answer" /\ s \in flight'.batch
  <2>1. CASE Execute
    <3>1. request.actor \in Actor /\ request.actor = flight.actor
          /\ request.events \subseteq flight.batch
      BY <1>0, <2>1 DEF Execute, FlightInv
    <3>2. \A s \in Accepted(request) : stored'[s] = request.actor
            /\ s \in request.events
      BY <1>0, <2>1, <3>1, Ingested DEF Execute
    <3>3. /\ reply'.accepted = Accepted(request)
          /\ reply'.rejected = request.events \ Accepted(request)
          /\ flight' = flight /\ pc' = "answer"
      BY <2>1 DEF Execute
    <3> QED BY <3>1, <3>2, <3>3
  <2>2. CASE Refuse
    <3>1. /\ reply'.accepted = {} /\ reply'.rejected \subseteq request.events
          /\ flight' = flight /\ pc' = "answer"
               /\ request.events \subseteq flight.batch
      BY <1>0, <2>2 DEF Refuse, FlightInv
    <3> QED BY <3>1
  <2>3. CASE Permit
    <3>1. flight' = flight /\ pc = "permit" /\ (reply' = reply \/
            (pc' = "answer" /\ reply' = [NoReply EXCEPT !.rejected = flight.batch]))
      BY <2>3 DEF Permit
    <3>2. CASE reply' = reply
      BY <1>2, <3>1, <3>2
    <3>3. CASE pc' = "answer" /\ reply' = [NoReply EXCEPT !.rejected = flight.batch]
      <4>1. reply'.accepted = {} /\ reply'.rejected = flight.batch
        BY <3>3 DEF NoReply
      <4> QED BY <3>1, <3>3, <4>1
    <3> QED BY <3>1, <3>2, <3>3
  <2>4. CASE Crash \/ Settle \/ BreakOff
    <3>1. reply' = NoReply
      BY <2>4 DEF Crash, Settle, BreakOff, Fail, Leave
    <3> QED BY <3>1, Empty
  <2>5. CASE StartExchange \/ Ask \/ Select \/ Transmit
    <3>1. (reply' = reply \/ reply' = NoReply) /\ pc # "answer"
      BY <2>5 DEF StartExchange, Ask, Select, Transmit, Fail, Leave
    <3>2. reply.accepted = {} /\ reply.rejected = {}
      BY <1>0, <3>1 DEF StoredInv
    <3> QED BY <3>1, <3>2, Empty
  <2>6. CASE \/ UNCHANGED <<pc, flight, reply, request, late, stored, position>>
             \/ \E m \in late : ExecuteLate(m)
    <3>1. UNCHANGED <<pc, flight, reply>>
      BY <2>6 DEF ExecuteLate, flightVars
    <3> QED BY <1>2, <3>1
  <2> QED BY <2>1, <2>2, <2>3, <2>4, <2>5, <2>6, OtherSteps
(* What left as sent. *)
<1>4. ASSUME NEW s \in Sample, stage'[s] = "sent", stage[s] = "sent",
               owner'[s] = owner[s]
      PROVE  stored'[s] = owner'[s]
  <2>1. stored[s] = owner[s] /\ owner[s] \in Actor
    BY <1>0, <1>4 DEF StoredInv, SentIsStored, OwnerInv
  <2>2. stored[s] # NoActor
    BY <2>1 DEF LocationAssumption
  <2> QED BY <1>1, <1>4, <2>1, <2>2
<1>5. SentIsStored'
  <2> SUFFICES ASSUME NEW s \in Sample, stage'[s] = "sent"
      PROVE stored'[s] = owner'[s]
    BY DEF SentIsStored
  <2>1. CASE stage[s] = "sent"
    <3>1. owner'[s] = owner[s]
      <4>1. owner' = owner \/ \E t \in Sample : Label(t)
        BY DEF Next, Internal, vars, sampleVars, Toggle, FlushDenied,
          PruneExpired, Refuse, BreakOff, SetContext, ChangeAccount,
          ExecuteLate, StartExchange, Ask, Select, Permit, Transmit, Execute,
          Settle, SavePreference, CheckAgain, BackoffElapsed, Capture, Insert,
          PurgeRows, Crash
      <4> QED BY <1>0, <2>1, <4>1 DEF Label
    <3> QED BY <1>4, <2>1, <3>1
  <2>2. CASE stage[s] # "sent"
    <3>1. Settle
      <4>1. ~Crash /\ ~PurgeRows /\ ~PruneExpired /\ ~Select
        BY <1>0, <2>2 DEF Crash, PurgeRows, PruneExpired, Select
      <4>2. \A t \in Sample : ~Label(t) /\ ~Insert(t) /\ ~Capture(t)
        BY <1>0, <2>2 DEF Label, Insert, Capture
      <4>3. stage' # stage
        BY <2>2
      <4> QED BY <4>1, <4>2, <4>3 DEF Next, Internal, vars, sampleVars,
                Toggle, FlushDenied, Refuse, BreakOff, SetContext,
                ChangeAccount, ExecuteLate, StartExchange, Ask, Permit,
                Transmit, Execute, SavePreference, CheckAgain, BackoffElapsed
    <3>2. s \in reply.accepted
      <4>1. \/ stage' = stage
            \/ stage' = [t \in Sample |-> CASE t \in reply.accepted -> "sent"
                                          [] t \in reply.rejected -> "lost"
                                          [] OTHER -> stage[t]]
        BY <3>1, Zenon DEF Settle
      <4> QED BY <2>2, <4>1
    <3>3. pc = "answer" /\ UNCHANGED <<owner, stored>>
      BY <3>1 DEF Settle, serverVars
    <3>4. s \in flight.batch /\ stored[s] = flight.actor
      BY <1>0, <3>2 DEF StoredInv
    <3>5. owner[s] = flight.actor
      BY <1>0, <3>3, <3>4 DEF FlightInv
    <3> QED BY <3>3, <3>4, <3>5
  <2> QED BY <2>1, <2>2
<1> QED BY <1>3, <1>5 DEF StoredInv

LEMMA IngestPosition ==
  ASSUME LocationAssumption, Shape, PositionInv,
           NEW m \in Request, m.actor \in Actor,
         Ingest(m)
  PROVE  PositionInv'
<1>0. /\ stored \in [Sample -> ActorOrNone] /\ position \in [Actor -> 0 .. Samples]
      /\ m.actor # NoActor /\ Samples \in Nat
  BY DEF Shape, LocationAssumption
<1>1. CASE Fresh(m) = {}
  <2>1. position' = position /\ \A s \in Sample : stored'[s] = stored[s]
    BY <1>1 DEF Ingest
  <2> QED BY <2>1 DEF PositionInv
<1>2. CASE Fresh(m) # {}
  <2>1. PICK n \in Sample : /\ Fresh(m) = {n} /\ MaxOf(Fresh(m)) = n
                            /\ stored[n] = NoActor /\ n > position[m.actor]
    BY <1>2, FreshOne
  <2>2. /\ position' = [position EXCEPT ![m.actor] = n]
        /\ \A s \in Sample : stored'[s] = IF s = n THEN m.actor ELSE stored[s]
    BY <1>2, <2>1 DEF Ingest
  <2>3. ASSUME NEW a \in Actor
        PROVE  /\ position'[a] = 0
                    \/ (position'[a] \in Sample /\ stored'[position'[a]] = a)
               /\ \A s \in Sample : stored'[s] = a => s <= position'[a]
    <3>1. CASE a = m.actor
      <4>1. position'[a] = n /\ stored'[n] = a
        BY <1>0, <2>1, <2>2, <3>1
      <4>2. ASSUME NEW s \in Sample, stored'[s] = a
            PROVE  s <= n
        <5>1. s = n \/ stored[s] = a
          BY <2>2, <4>2
        <5>2. stored[s] = a => s <= position[a]
          BY DEF PositionInv
        <5>3. s \in Nat /\ n \in Nat /\ position[a] \in Nat
          BY <1>0 DEF Sample
        <5> QED BY <2>1, <3>1, <5>1, <5>2, <5>3
      <4> QED BY <2>1, <4>1, <4>2
    <3>2. CASE a # m.actor
      <4>1. position'[a] = position[a] /\ a # NoActor
        BY <1>0, <2>2, <3>2 DEF LocationAssumption
      <4>2. \A s \in Sample : stored'[s] = a <=> stored[s] = a
        BY <2>1, <2>2, <3>2, <4>1
      <4> QED BY <4>1, <4>2 DEF PositionInv
    <3> QED BY <3>1, <3>2
  <2> QED BY <2>3 DEF PositionInv
<1> QED BY <1>1, <1>2

LEMMA NextPosition ==
  ASSUME LocationAssumption, LocationInv, [Next]_vars
  PROVE  PositionInv'
<1>0. TypeOK /\ Shape /\ PositionInv /\ FlightInv /\ request \in Request
      /\ late \subseteq Request
  BY Shaped DEF LocationInv, TypeOK
<1>1. CASE UNCHANGED <<stored, position>>
  BY <1>0, <1>1 DEF PositionInv
<1>2. CASE Execute
  BY <1>0, <1>2, IngestPosition DEF Execute, FlightInv
<1>3. CASE \E m \in late : ExecuteLate(m)
  BY <1>0, <1>3, IngestPosition DEF ExecuteLate, FlightInv
<1> QED BY <1>1, <1>2, <1>3, OtherSteps DEF Crash, StartExchange, Ask, Select,
          Permit, Transmit, Settle, Refuse, BreakOff, serverVars

-----------------------------------------------------------------------------
(* The inductive invariant. *)

LEMMA InitLocation == ASSUME LocationAssumption, Init PROVE LocationInv
<1>1. TypeOK
  <2>1. lane \in Seq(Task)
    BY DEF Init
  <2>2. /\ stage \in [Sample -> {"new", "asking", "queued", "row", "sent", "lost"}]
        /\ grant \in [Sample -> Nat] /\ ready \in [Sample -> BOOLEAN]
        /\ owner \in [Sample -> ActorOrNone] /\ capturer \in [Sample -> ActorOrNone]
        /\ stored \in [Sample -> ActorOrNone]
        /\ position \in [Actor -> 0 .. Samples]
    BY DEF Init, ActorOrNone, LocationAssumption
  <2>3. changes \in 0 .. MaxChanges /\ faults \in 0 .. MaxFaults
    BY DEF Init, LocationAssumption
  <2> QED BY <2>1, <2>2, <2>3, Empty DEF Init, TypeOK
<1>2. LaneInv /\ ClearInv
  <2>1. lane = <<>> /\ pc = "idle" /\ \A s \in Sample : stage[s] = "new"
    BY DEF Init
  <2>2. Withdrawn = {} /\ 1 .. Len(lane) = {}
    BY <2>1 DEF Init, Withdrawn
  <2> QED BY <2>1, <2>2 DEF LaneInv, LaneOK, HasExchange, ClearInv, LaneClear
<1>3. OwnerInv /\ AccessInv /\ FlightInv /\ StoredInv /\ PositionInv
  BY Empty DEF Init, OwnerInv, AccessInv, FlightInv, StoredInv, SentIsStored,
    PositionInv, LocationAssumption
<1> QED BY <1>1, <1>2, <1>3 DEF LocationInv

LEMMA NextLocation ==
  ASSUME LocationAssumption, LocationInv, [Next]_vars PROVE LocationInv'
BY NextTypes, NextAccess, NextOwner, NextLane, NextClear, NextFlight,
  NextStored, NextPosition DEF LocationInv

(* A withdrawal makes every captured access stale and puts a purge behind  *)
(* every insertion: for any number of samples, accounts and faults.        *)
THEOREM LocationCorrect == ASSUME LocationAssumption PROVE Spec => []LocationInv
<1>1. Init => LocationInv
  BY InitLocation
<1>2. LocationInv /\ [Next]_vars => LocationInv'
  BY NextLocation
<1> QED BY <1>1, <1>2, PTL DEF Spec

(* The types of the samples, the lane, the exchange and the server. *)
THEOREM LocationTypes == ASSUME LocationAssumption PROVE Spec => []TypeOK
<1>1. LocationInv => TypeOK
  BY DEF LocationInv
<1> QED BY <1>1, LocationCorrect, PTL

(* Once the lane has run its purges no row of a sample captured before a   *)
(* withdrawal is left, unless a purge died or failed.                      *)
THEOREM WithdrawnGone == ASSUME LocationAssumption PROVE Spec => []WithdrawnLeave
<1>1. ASSUME LocationInv, lane = <<>>, ~slipped, NEW s \in Withdrawn, s \in RowsIn
      PROVE  FALSE
  <2>1. Cleared(lane, "row", s, Len(lane) + 1)
    BY <1>1 DEF LocationInv, ClearInv, LaneClear, RowsIn
  <2> QED BY <1>1, <2>1 DEF Cleared, PurgeBetween
<1>2. LocationInv => WithdrawnLeave
  BY <1>1 DEF WithdrawnLeave
<1> QED BY <1>2, LocationCorrect, PTL

(* A row that left the outbox as sent is stored, for its owner. *)
THEOREM SentAreStored == ASSUME LocationAssumption PROVE Spec => []SentIsStored
<1>1. LocationInv => SentIsStored
  BY DEF LocationInv, StoredInv
<1> QED BY <1>1, LocationCorrect, PTL

(* The position shown for a member is the newest sample stored for them.   *)
THEOREM NewestAreShown == ASSUME LocationAssumption PROVE Spec => []NewestShown
<1>1. ASSUME LocationAssumption, LocationInv, NEW a \in Actor
      PROVE  position[a] = MaxOf({0} \cup {s \in Sample : stored[s] = a})
  <2> DEFINE S == {0} \cup {s \in Sample : stored[s] = a}
  <2>1. /\ position[a] = 0 \/ (position[a] \in Sample /\ stored[position[a]] = a)
        /\ \A s \in Sample : stored[s] = a => s <= position[a]
        /\ position[a] \in 0 .. Samples /\ Samples \in Nat
    BY <1>1 DEF LocationInv, PositionInv, TypeOK, LocationAssumption
  <2>2. /\ position[a] \in S /\ S \subseteq Nat
        /\ \A m \in S : m <= position[a]
    BY <2>1 DEF Sample
  <2> HIDE DEF S
  <2>3. ASSUME NEW n \in S, \A m \in S : m <= n
        PROVE  n = position[a]
    <3>1. n <= position[a] /\ position[a] <= n
      BY <2>2, <2>3
    <3>2. n \in Nat /\ position[a] \in Nat
      BY <2>2
    <3> QED BY <3>1, <3>2
  <2>4. MaxOf(S) = position[a]
    BY <2>2, <2>3 DEF MaxOf
  <2> QED BY <2>4 DEF S
<1>2. LocationInv => NewestShown
  BY <1>1 DEF NewestShown
<1> QED BY <1>2, LocationCorrect, PTL

(* Samples are sent only while access is granted, by the account that      *)
(* captured them, and never one from before a withdrawal.                  *)
THEOREM UnderConsent == ASSUME LocationAssumption PROVE Spec => SentUnderConsent
<1> DEFINE Sending ==
      (request'.events # {} /\ request' # request) =>
         /\ Enabled
         /\ \A s \in request'.events : capturer[s] = session
         /\ slipped \/ request'.events \cap Withdrawn = {}
<1>1. ASSUME LocationInv, [Next]_vars
      PROVE  [Sending]_vars
  <2> SUFFICES ASSUME request'.events # {}, request' # request
               PROVE  /\ Enabled
                      /\ \A s \in request'.events : capturer[s] = session
                      /\ slipped \/ request'.events \cap Withdrawn = {}
    OBVIOUS
  <2>1. request' # NoRequest
    BY Empty
  <2>2. Transmit /\ ~Fail(flight.batch)
    BY <2>1, OtherSteps, <1>1 DEF Crash, StartExchange, Ask, Select, Permit,
      Transmit, Execute, Settle, Refuse, BreakOff, ExecuteLate, Leave, Fail,
      flightVars
  <2>3. /\ pc = "transmit" /\ session = flight.actor /\ Current(flight.grant)
        /\ \E n : request' = [events |-> Newest(flight.batch, n), actor |-> session]
    BY <2>2 DEF Transmit
  <2>4. request'.events \subseteq flight.batch /\ flight.batch \subseteq Sample
    BY <1>1, <2>3, NewestIn DEF LocationInv, TypeOK
  <2>5. /\ \A s \in flight.batch : stage[s] = "row" /\ owner[s] = flight.actor
        /\ slipped \/ flight.batch \cap Withdrawn = {}
    BY <1>1, <2>3 DEF LocationInv, FlightInv
  <2>6. \A s \in flight.batch : capturer[s] = session
    BY <1>1, <2>3, <2>4, <2>5 DEF LocationInv, OwnerInv
  <2>7. Enabled
    BY <2>3 DEF Current
  <2> QED BY <2>4, <2>5, <2>6, <2>7
<1>2. Spec => [][Sending]_vars
  BY <1>1, LocationCorrect, PTL DEF Spec
<1> QED BY <1>2 DEF SentUnderConsent

=============================================================================
