---------------------------- MODULE IdentityProofs ----------------------------
(***************************************************************************)
(* The properties of MCIdentity, for every value of its constants: each    *)
(* behaviour of the composition is one of each part, so that what is       *)
(* proved of a part holds in it.                                           *)
(***************************************************************************)
EXTENDS MCIdentity, FiniteSetTheorems, SequenceTheorems, WellFoundedInduction, TLAPS

LEMMA TripOf == Spec => Trip!Spec
<1>1. Init => Trip!Init
  BY DEF Init
<1>2. [Next]_vars => [Trip!Next]_(Trip!vars)
  BY DEF Next, vars, tripVars, Trip!vars, Trip!requestVars, Trip!storeVars,
         Trip!serverVars, Trip!worldVars
<1> QED BY <1>1, <1>2, PTL DEF Spec, Trip!Spec

(* A pass that the notifications accepted so far take back never serves a  *)
(* group: for any number of passes, groups, accounts and notifications.    *)
THEOREM RefundsHold == Spec => []RefundHolds
<1>1. Trip!Spec => []Trip!RefundHolds
  BY Trip!RefundsHold, IdentityAssumption DEF IdentityAssumption
<1>2. Trip!RefundHolds => RefundHolds
  BY DEF RefundHolds
<1> QED BY <1>1, <1>2, TripOf, PTL

(* A pass finished at the store has its row, for the account that paid. *)
THEOREM FinishedGranted == Spec => []FinishedIsGranted
<1>1. Trip!Spec => []Trip!FinishedIsGranted
  BY Trip!FinishedGranted, IdentityAssumption DEF IdentityAssumption
<1>2. Trip!FinishedIsGranted => FinishedIsGranted
  BY DEF FinishedIsGranted
<1> QED BY <1>1, <1>2, TripOf, PTL

(* A pass the store gave back waits only for a slot that is taken. *)
THEOREM ReversalsKept == Spec => []ReversalKept
<1>1. Trip!Spec => []Trip!ReversalKept
  BY Trip!ReversalsKept, IdentityAssumption DEF IdentityAssumption
<1>2. Trip!ReversalKept => ReversalKept
  BY DEF ReversalKept
<1> QED BY <1>1, <1>2, TripOf, PTL

LEMMA AuthOf == Spec => Auth!Spec
<1>1. Init => Auth!Init
  BY DEF Init
<1>2. [Next]_vars => [Auth!Next]_(Auth!vars)
  BY DEF Next, vars, authVars, Auth!vars, Auth!serverVars, Auth!storageVars,
         Auth!slotVars, Auth!history
<1> QED BY <1>1, <1>2, PTL DEF Spec, Auth!Spec

(* Once an account is signed in, the slot holds no other one: for any      *)
(* number of accounts, credentials, failures and crashes.                  *)
THEOREM OthersGone == Spec => []PreviousAccountGone
<1>1. Auth!Spec => []Auth!PreviousAccountGone
  BY Auth!OthersGone, IdentityAssumption DEF IdentityAssumption
<1>2. Auth!PreviousAccountGone => PreviousAccountGone
  BY DEF PreviousAccountGone
<1> QED BY <1>1, <1>2, AuthOf, PTL

(* Recovery removes only a credential that the server refused. *)
THEOREM OnlyRefusedGo == Spec => []RemovedWereRefused
<1>1. Auth!Spec => []Auth!RemovedWereRefused
  BY Auth!OnlyRefusedGo, IdentityAssumption DEF IdentityAssumption
<1>2. Auth!RemovedWereRefused => RemovedWereRefused
  BY DEF RemovedWereRefused
<1> QED BY <1>1, <1>2, AuthOf, PTL

(* An operation is never sent under two accounts. *)
THEOREM UnderOneAccount == Spec => []OneAccount
<1>1. Auth!Spec => []Auth!OneAccount
  BY Auth!UnderOneAccount, IdentityAssumption DEF IdentityAssumption
<1>2. Auth!OneAccount => OneAccount
  BY DEF OneAccount
<1> QED BY <1>1, <1>2, AuthOf, PTL

(* A failed write never makes an older credential readable. *)
THEOREM ReadsNewer == Spec => NeverOlder
<1>1. Auth!Spec => Auth!NeverOlder
  BY Auth!ReadsNewer, IdentityAssumption DEF IdentityAssumption
<1> QED BY <1>1, AuthOf DEF NeverOlder

LEMMA TokenOf == Spec => Token!Spec
<1>1. Init => Token!Init
  BY DEF Init
<1>2. [Next]_vars => [Token!Next]_(Token!vars)
  BY DEF Next, vars, tokenVars, Token!vars, Token!clientVars, Token!gateVars,
         Token!fenceVars, Token!serverVars, Token!bounds
<1> QED BY <1>1, <1>2, PTL DEF Spec, Token!Spec

(* An account that signed out keeps no registration on the installation:   *)
(* for any number of accounts, tokens, changes and faults.                 *)
THEOREM SignedOutIsGone == Spec => []NoneAfterSignOut
<1>1. Token!Spec => []Token!NoneAfterSignOut
  BY Token!SignedOutIsGone, IdentityAssumption DEF IdentityAssumption
<1>2. Token!NoneAfterSignOut => NoneAfterSignOut
  BY DEF NoneAfterSignOut
<1> QED BY <1>1, <1>2, TokenOf, PTL

(* At rest the server has the registration that is wanted, or one of the   *)
(* named exceptions applies.                                               *)
THEOREM RestIsRegistered == Spec => []Registered
<1>1. Token!Spec => []Token!Registered
  BY Token!RestIsRegistered, IdentityAssumption DEF IdentityAssumption
<1>2. Token!Registered => Registered
  BY DEF Registered
<1> QED BY <1>1, <1>2, TokenOf, PTL

LEMMA LocationOf == Spec => Location!Spec
<1>1. Init => Location!Init
  BY DEF Init
<1>2. [Next]_vars => [Location!Next]_(Location!vars)
  BY DEF Next, vars, locationVars, Location!vars, Location!sampleVars,
         Location!accessVars, Location!deviceVars, Location!flightVars,
         Location!serverVars, Location!bounds
<1> QED BY <1>1, <1>2, PTL DEF Spec, Location!Spec

(* Once the lane is empty no row from before a withdrawal is left: for any *)
(* number of accounts, samples, changes of access, failures and crashes.   *)
THEOREM WithdrawnGone == Spec => []WithdrawnLeave
<1>1. Location!Spec => []Location!WithdrawnLeave
  BY Location!WithdrawnGone, IdentityAssumption DEF IdentityAssumption
<1>2. Location!WithdrawnLeave => WithdrawnLeave
  BY DEF WithdrawnLeave
<1> QED BY <1>1, <1>2, LocationOf, PTL

(* The position shown for a member is the newest sample stored for them. *)
THEOREM NewestAreShown == Spec => []NewestShown
<1>1. Location!Spec => []Location!NewestShown
  BY Location!NewestAreShown, IdentityAssumption DEF IdentityAssumption
<1>2. Location!NewestShown => NewestShown
  BY DEF NewestShown
<1> QED BY <1>1, <1>2, LocationOf, PTL

(* A row leaves the outbox as sent only if the server has stored it. *)
THEOREM SentAreStored == Spec => []SentIsStored
<1>1. Location!Spec => []Location!SentIsStored
  BY Location!SentAreStored, IdentityAssumption DEF IdentityAssumption
<1>2. Location!SentIsStored => SentIsStored
  BY DEF SentIsStored
<1> QED BY <1>1, <1>2, LocationOf, PTL

(* Samples are sent only under the account and the consent of their        *)
(* capture, and never from before a withdrawal.                            *)
THEOREM UnderConsent == Spec => SentUnderConsent
<1>1. Location!Spec => Location!SentUnderConsent
  BY Location!UnderConsent, IdentityAssumption DEF IdentityAssumption
<1> QED BY <1>1, LocationOf DEF SentUnderConsent

-----------------------------------------------------------------------------
(* The card of the group.  GroupSnapshot reaches the proofs through the     *)
(* instance, so its definitions carry the prefix, and its ops, store,      *)
(* session, queue, pending, latest and flight are the composition's        *)
(* intents, card, reader, cardLane, again, newest and exchange.  First     *)
(* their types, with what an exchange, an insertion, a receipt and a save  *)
(* write.                                                                  *)

Who == Accounts \cup {NoOne}
Rows == [state : {"unused", "open", "settled", "refused"}, owner : Who,
         removes : BOOLEAN]
Verdicts == [answer : {"none", "accepted", "refused"}, version : 0 .. Group!Now]
Cards == [owner : Who, plan : SUBSET Group!Item, applied : SUBSET Group!Op, version : Int]
Views == [plan : SUBSET Group!Item, applied : SUBSET Group!Op]
Requests == [kind : {"apply", "check", "save", "none"}, version : 0 .. Group!Now]
Loads == [phase : {"none", "asked", "served", "reading", "saving", "closing"},
          base : Nat, painted : BOOLEAN, version : 0 .. Group!Now]
Flights == [on : BOOLEAN, who : Who, left : SUBSET Group!Op, version : 0 .. Group!Now]

GroupShape ==
  /\ history \in Seq(SUBSET Group!Item) /\ history # <<>>
  /\ verdict \in [Group!Op -> Verdicts] /\ intents \in [Group!Op -> Rows]
  /\ card \in Cards /\ view \in Views \cup {Group!NoView}
  /\ open \in SUBSET Group!Op /\ newest \in 0 .. Group!Now
       /\ supplied \in SUBSET (0 .. Group!Now)
  /\ cardLane \in Seq(Requests) /\ load \in Loads /\ exchange \in Flights
  /\ reader \in Who /\ actor \in Who /\ writer \in Who

LEMMA Items ==
  /\ MaxOps \in Nat /\ NoOne \notin Accounts
  /\ Group!Op \subseteq Group!Item /\ Group!Op \subseteq Nat
       /\ 0 \in Group!Item /\ 0 \notin Group!Op
  /\ Group!Theirs \in Group!Item /\ Group!Theirs \notin Group!Op
       /\ -1 \notin Group!Op
  /\ IsFiniteSet(Group!Op)
<1>1. MaxOps \in Nat /\ NoOne \notin Accounts
  BY IdentityAssumption DEF IdentityAssumption, Group!GroupAssumption
<1>2. IsFiniteSet(Group!Op)
  BY <1>1, FS_Interval DEF Group!Op
<1> QED BY <1>1, <1>2 DEF Group!Op, Group!Item, Group!Theirs

LEMMA EarliestIn == ASSUME NEW S \in SUBSET Group!Op, S # {}
  PROVE Group!Earliest(S) \in S
<1> DEFINE Less == {ss \in Nat \X Nat : ss[1] < ss[2]}
<1>1. IsWellFoundedOn(Less, Nat)
  BY NatLessThanWellFounded DEF OpToRel
<1>2. S \subseteq Nat
  BY Items
<1>3. PICK x \in S : \A y \in S : ~(<<y, x>> \in Less)
  <2> HIDE DEF Less
  <2> QED BY <1>1, <1>2, WFMin
<1>4. ASSUME NEW y \in S PROVE x <= y
  <2>1. x \in Nat /\ y \in Nat
    BY <1>2
  <2>2. ~(y < x)
    BY <1>3, <2>1
  <2> QED BY <2>1, <2>2
<1> QED BY <1>4 DEF Group!Earliest

LEMMA EffectOn ==
  ASSUME NEW plan \in SUBSET Group!Item, NEW os \in SUBSET Group!Op
  PROVE  /\ Group!Effect(plan, os) \in SUBSET Group!Item
         /\ Group!Effect(plan, os) \subseteq plan \cup {o \in os : ~intents[o].removes}
  BY Items DEF Group!Effect

LEMMA Hydrates ==
  ASSUME NEW who, 0 \in 0 .. Group!Now PROVE Group!Hydration(who) \in Seq(Requests)
<1>1. [kind |-> "apply", version |-> 0] \in Requests
  BY DEF Requests
<1> QED BY <1>1 DEF Group!Hydration

LEMMA GroupInit == Group!Init => GroupShape
<1> SUFFICES ASSUME Group!Init PROVE GroupShape
  OBVIOUS
<1>1. history \in Seq(SUBSET Group!Item) /\ history # <<>> /\ Group!Now = 0
  BY Items DEF Group!Init, Group!Now
<1>2. cardLane \in Seq(Requests)
  BY <1>1, Hydrates DEF Group!Init
<1>3. NoOne \in Who /\ reader \in Who /\ {} \in SUBSET Group!Op
  BY DEF Group!Init, Who
<1>4. verdict \in [Group!Op -> Verdicts]
  BY <1>1 DEF Group!Init, Group!Unjudged, Verdicts
<1>5. intents \in [Group!Op -> Rows]
  BY <1>3 DEF Group!Init, Group!Unused, Rows
<1>6. card \in Cards
  BY <1>3 DEF Group!Init, Group!NoCard, Cards
<1>7. load \in Loads /\ exchange \in Flights
  BY <1>1, <1>3 DEF Group!Init, Group!NoLoad, Group!NoFlight, Loads, Flights
<1>8. newest \in 0 .. Group!Now /\ supplied \in SUBSET (0 .. Group!Now)
  BY <1>1 DEF Group!Init
<1>9. view = Group!NoView /\ open \in SUBSET Group!Op /\ reader \in Who
        /\ actor \in Who
      /\ writer \in Who
  BY <1>3 DEF Group!Init
<1> QED
  BY <1>1, <1>2, <1>4, <1>5, <1>6, <1>7, <1>8, <1>9 DEF GroupShape

(* The instance has a copy of what it extends. *)
LEMMA SameSize == ASSUME NEW S PROVE Group!Cardinality(S) = Cardinality(S)
BY DEF Group!Cardinality, Cardinality

(* What an exchange leaves on the server. *)
LEMMA Served ==
  ASSUME GroupShape, Group!ExchangeServed
  PROVE  /\ history' \in Seq(SUBSET Group!Item) /\ Len(history') >= Len(history)
         /\ \A v \in DOMAIN history' : \A o \in Group!Op : o \in history'[v] =>
              \/ \E u \in DOMAIN history : o \in history[u]
              \/ verdict'[o].answer = "accepted"
         /\ verdict' \in [Group!Op -> Verdicts']
         /\ \A o \in Group!Op : verdict[o].answer # "none"
              => verdict'[o] = verdict[o]
         /\ \A o \in Group!Op : verdict'[o] # verdict[o] => o \in Group!Own(reader)
         /\ exchange' \in Flights' /\ exchange'.who = reader
         /\ exchange'.left \subseteq Group!Own(reader)
<1>1. PICK passed \in SUBSET Group!Own(reader) : Group!Judges(passed)
  BY DEF Group!ExchangeServed
<1> DEFINE rest == Group!Own(reader) \ passed
<1> DEFINE stopped == {o \in rest : \A p \in rest : o <= p}
<1> DEFINE fresh == {o \in passed : verdict[o].answer = "none"}
<1> DEFINE upTo(o) == {p \in fresh : p <= o}
<1> DEFINE n == Cardinality(fresh)
<1> DEFINE judged == [i \in 1 .. n |->
               Group!Effect(Group!PlanAt(Group!Now), {o \in fresh : Cardinality(upTo(o)) <= i})]
<1>2. /\ history' = history \o judged
      /\ verdict' = [o \in Group!Op |->
           IF o \in fresh
           THEN [answer |-> "accepted", version |-> Group!Now + Cardinality(upTo(o))]
           ELSE IF o \in stopped /\ verdict[o].answer = "none"
           THEN [answer |-> "refused", version |-> Len(history \o judged) - 1]
           ELSE verdict[o]]
      /\ exchange' = [on |-> TRUE, who |-> reader, left |-> passed \union stopped,
                    version |-> Len(history \o judged) - 1]
  BY <1>1, SameSize DEF Group!Judges
<1>3. /\ fresh \in SUBSET Group!Op /\ passed \in SUBSET Group!Op
           /\ stopped \in SUBSET Group!Own(reader)
      /\ stopped \in SUBSET Group!Op
  BY DEF Group!Own
<1>4. n \in Nat /\ \A o \in fresh : Cardinality(upTo(o)) \in 0 .. n
  <2>1. IsFiniteSet(fresh)
    BY <1>3, Items, FS_Subset
  <2>2. n \in Nat
    BY <2>1, FS_CardinalityType
  <2>3. ASSUME NEW o \in fresh PROVE Cardinality(upTo(o)) \in 0 .. n
    <3>1. upTo(o) \in SUBSET fresh
      OBVIOUS
    <3>2. IsFiniteSet(upTo(o)) /\ Cardinality(upTo(o)) <= n
      BY <2>1, <3>1, FS_Subset
    <3>3. Cardinality(upTo(o)) \in Nat
      BY <3>2, FS_CardinalityType
    <3> HIDE DEF upTo, n
    <3> QED BY <2>2, <3>2, <3>3
  <2> QED BY <2>2, <2>3
<1>5. /\ Len(history) \in Nat \ {0} /\ Group!Now \in Nat
           /\ Group!Now = Len(history) - 1
      /\ Group!PlanAt(Group!Now) \in SUBSET Group!Item
      /\ Group!PlanAt(Group!Now) = history[Len(history)]
           /\ Len(history) \in DOMAIN history
  BY DEF GroupShape, Group!Now, Group!PlanAt
<1>6. ASSUME NEW i \in 1 .. n
      PROVE  /\ judged[i] \in SUBSET Group!Item
             /\ judged[i] \subseteq Group!PlanAt(Group!Now) \cup fresh
  <2> DEFINE os == {o \in fresh : Cardinality(upTo(o)) <= i}
  <2>1. os \in SUBSET Group!Op /\ os \subseteq fresh
    BY <1>3
  <2>2. judged[i] = Group!Effect(Group!PlanAt(Group!Now), os)
    OBVIOUS
  <2> HIDE DEF os, judged, fresh
  <2> QED BY <1>5, <2>1, <2>2, EffectOn
<1>7. judged \in Seq(SUBSET Group!Item) /\ Len(judged) = n
  <2>1. judged = [i \in 1 .. n |-> judged[i]]
    OBVIOUS
  <2> HIDE DEF judged, n
  <2>2. judged \in Seq(SUBSET Group!Item)
    BY <1>4, <1>6, <2>1
  <2>3. Len(judged) = n
    BY <1>4, <2>1
  <2> QED BY <2>2, <2>3
<1> HIDE DEF judged, n
<1>8. /\ history' \in Seq(SUBSET Group!Item) /\ Len(history') = Len(history) + n
      /\ \A v \in 1 .. Len(history') :
           history'[v] = IF v <= Len(history) THEN history[v]
                         ELSE judged[v - Len(history)]
  <2>1. history \in Seq(SUBSET Group!Item)
    BY DEF GroupShape
  <2>2. /\ history \o judged \in Seq(SUBSET Group!Item)
        /\ Len(history \o judged) = Len(history) + n
        /\ \A v \in 1 .. Len(history) + n :
             (history \o judged)[v] = IF v <= Len(history) THEN history[v]
                                     ELSE judged[v - Len(history)]
    BY <1>7, <2>1, ConcatProperties
  <2> QED BY <1>2, <2>2
<1>9. Group!Now' = Group!Now + n /\ Group!Now' \in Nat
        /\ Len(history \o judged) - 1 = Group!Now'
  BY <1>2, <1>4, <1>5, <1>8 DEF Group!Now
<1> HIDE DEF upTo
<1>10. \A o \in fresh : Group!Now + Cardinality(upTo(o)) \in 0 .. Group!Now'
  BY <1>4, <1>5, <1>9
<1>11. \A o \in Group!Op : verdict[o].version \in 0 .. Group!Now'
  BY <1>4, <1>5, <1>9 DEF GroupShape, Verdicts
<1>12. verdict' \in [Group!Op -> Verdicts']
  <2> USE DEF Verdicts
  <2> SUFFICES ASSUME NEW o \in Group!Op PROVE verdict'[o] \in Verdicts'
    BY <1>2
  <2>1. verdict[o] \in Verdicts
    BY DEF GroupShape
  <2>2. Group!Now' \in 0 .. Group!Now'
    BY <1>9
  <2> HIDE DEF fresh, stopped
  <2>3. CASE o \in fresh
    BY <1>2, <1>10, <2>3
  <2>4. CASE o \notin fresh /\ o \in stopped /\ verdict[o].answer = "none"
    BY <1>2, <1>9, <2>2, <2>4
  <2>5. CASE o \notin fresh /\ ~(o \in stopped /\ verdict[o].answer = "none")
    BY <1>2, <1>11, <2>1, <2>5
  <2> QED BY <2>3, <2>4, <2>5
<1>13. \A o \in Group!Op : verdict[o].answer # "none" => verdict'[o] = verdict[o]
  BY <1>2
<1>17. \A o \in Group!Op : verdict'[o] # verdict[o] => o \in Group!Own(reader)
  BY <1>2, <1>3
<1>14. \A o \in fresh : verdict'[o].answer = "accepted"
  BY <1>2, <1>3
<1>15. /\ exchange' \in Flights' /\ exchange'.who = reader
       /\ exchange'.left \subseteq Group!Own(reader)
  <2>1. Group!Now' \in 0 .. Group!Now' /\ reader \in Who
    BY <1>9 DEF GroupShape
  <2>2. passed \union stopped \in SUBSET Group!Own(reader)
    BY <1>3
  <2> HIDE DEF stopped
  <2> QED BY <1>2, <1>9, <2>1, <2>2 DEF Flights, Group!Own
<1>16. ASSUME NEW v \in DOMAIN history', NEW o \in Group!Op, o \in history'[v]
       PROVE  \/ \E u \in DOMAIN history : o \in history[u]
              \/ verdict'[o].answer = "accepted"
  <2>1. v \in 1 .. Len(history') /\ DOMAIN history = 1 .. Len(history)
    BY <1>8 DEF GroupShape
  <2>2. CASE v <= Len(history)
    BY <1>5, <1>8, <1>16, <2>1, <2>2
  <2>3. CASE v > Len(history)
    <3>1. v - Len(history) \in 1 .. n
      BY <1>4, <1>5, <1>8, <2>1, <2>3
    <3>2. o \in judged[v - Len(history)]
      BY <1>5, <1>8, <1>16, <2>1, <2>3
    <3> HIDE DEF fresh
    <3> QED BY <1>5, <1>6, <1>14, <3>1, <3>2
  <2> QED BY <1>5, <2>1, <2>2, <2>3
<1> HIDE DEF fresh, stopped
<1> QED BY <1>4, <1>5, <1>8, <1>12, <1>13, <1>15, <1>16, <1>17

LEMMA Queued ==
  ASSUME GroupShape
  PROVE  /\ \A kinds : /\ Group!Without(kinds) \in Seq(Requests)
                       /\ Len(Group!Without(kinds)) = Len(cardLane)
         /\ Group!Painting \in Seq(Requests)
         /\ 0 \in 0 .. Group!Now /\ Group!Now \in Nat
              /\ Group!Now = Len(history) - 1
<1>1. Group!Now \in Nat /\ Group!Now = Len(history) - 1 /\ 0 \in 0 .. Group!Now
  BY DEF GroupShape, Group!Now
<1>2. cardLane \in Seq(Requests)
  BY DEF GroupShape
<1>3. ASSUME NEW kinds
      PROVE  /\ Group!Without(kinds) \in Seq(Requests)
             /\ Len(Group!Without(kinds)) = Len(cardLane)
  <2>1. DOMAIN cardLane = 1 .. Len(cardLane) /\ Len(cardLane) \in Nat
    BY <1>2
  <2>2. [kind |-> "none", version |-> 0] \in Requests
    BY <1>1 DEF Requests
  <2>3. Group!Without(kinds) \in [1 .. Len(cardLane) -> Requests]
    BY <1>2, <2>1, <2>2 DEF Group!Without
  <2> QED BY <2>1, <2>3
<1>4. [kind |-> "apply", version |-> 0] \in Requests
  BY <1>1 DEF Requests
<1>5. Group!Painting \in Seq(Requests)
  BY <1>3, <1>4 DEF Group!Painting
<1> QED BY <1>1, <1>3, <1>5

LEMMA CardKept ==
  ASSUME GroupShape
  PROVE  /\ \A v \in 0 .. Group!Now : Group!PlanAt(v) \in SUBSET Group!Item
              /\ Group!Saved(v) \in Cards
         /\ \A o \in Group!Op : /\ Group!Accepted(o) \in Cards /\ Group!RefusedWith(o) \in Cards
                         /\ Group!RefusedBare(o) \in Cards
<1>1. /\ Group!Now \in Nat /\ Group!Now = Len(history) - 1
      /\ card \in Cards /\ reader \in Who /\ intents \in [Group!Op -> Rows]
      /\ \A w : Group!Own(w) \in SUBSET Group!Op
      /\ history \in Seq(SUBSET Group!Item) /\ Len(history) \in Nat
      /\ DOMAIN history = 1 .. Len(history)
  BY Queued DEF GroupShape, Group!Own
<1>2. ASSUME NEW v \in 0 .. Group!Now PROVE Group!PlanAt(v) \in SUBSET Group!Item
  <2>1. v + 1 \in 1 .. Len(history)
    BY <1>1
  <2> QED BY <1>1, <2>1 DEF Group!PlanAt
<1>3. \A plan \in SUBSET Group!Item, applied, wanted \in SUBSET Group!Op :
        Group!Project(plan, applied, wanted) \in SUBSET Group!Item
  BY EffectOn DEF Group!Project
<1>4. \A a, b \in Int : Group!Most(a, b) \in Int
  BY DEF Group!Most
<1>5. Group!NoCard \in Cards
  BY DEF Group!NoCard, Cards, Who
<1>6. ASSUME NEW v \in 0 .. Group!Now PROVE Group!Saved(v) \in Cards
  <2> DEFINE existing == IF Group!Readable(reader) THEN card ELSE Group!NoCard
  <2> DEFINE kept == existing # Group!NoCard /\ v < existing.version
  <2> DEFINE mine == IF reader = NoOne THEN {} ELSE Group!Own(reader)
  <2> DEFINE plan == IF kept THEN existing.plan ELSE Group!PlanAt(v)
  <2> DEFINE applied == IF kept THEN existing.applied ELSE {}
  <2>1. existing \in Cards
    BY <1>1, <1>5
  <2>2. Group!Saved(v) = [owner |-> reader,
                    plan |-> Group!Project(plan, applied, mine),
                    applied |-> IF mine = {} THEN applied ELSE mine,
                    version |-> IF kept
                        \/ mine # {} THEN Group!Most(v, existing.version)
                                ELSE v]
    BY DEF Group!Saved
  <2> HIDE DEF existing
  <2>3. plan \in SUBSET Group!Item /\ applied \in SUBSET Group!Op
          /\ mine \in SUBSET Group!Op
    BY <1>1, <1>2, <2>1 DEF Cards
  <2>4. v \in Int /\ Group!Most(v, existing.version) \in Int
    BY <1>1, <1>4, <2>1 DEF Cards
  <2>5. Group!Project(plan, applied, mine) \in SUBSET Group!Item
    BY <1>3, <2>3
  <2> HIDE DEF plan, applied, mine, kept
  <2> QED BY <1>1, <2>2, <2>3, <2>4, <2>5 DEF Cards
<1>7. ASSUME NEW o \in Group!Op
      PROVE  /\ Group!Accepted(o) \in Cards /\ Group!RefusedWith(o) \in Cards
             /\ Group!RefusedBare(o) \in Cards
  <2> DEFINE others == Group!Own(intents[o].owner) \ {o}
  <2> DEFINE v == verdict[o].version
  <2>1. v \in 0 .. Group!Now
    BY DEF GroupShape, Verdicts
  <2>2. others \in SUBSET Group!Op
    BY <1>1
  <2>3. Group!Project(Group!PlanAt(v), {}, others) \in SUBSET Group!Item
    BY <1>2, <1>3, <2>1, <2>2
  <2>4. v \in Int /\ Group!Most(v, card.version) \in Int
    <3>1. card.version \in Int /\ v \in Int
      BY <1>1, <2>1 DEF Cards
    <3> QED BY <1>4, <3>1
  <2>5. Group!Undo(card.plan, o) \in SUBSET Group!Item
    BY <1>1, Items DEF Group!Undo, Cards
  <2>6. Group!RefusedBare(o) \in Cards
    BY <1>1, <2>5 DEF Group!RefusedBare, Cards
  <2>7. /\ Group!Accepted(o) = [card EXCEPT !.plan = Group!Project(Group!PlanAt(v), {}, others),
                             !.applied = others,
                             !.version = IF others = {} THEN v ELSE Group!Most(v, @)]
        /\ Group!RefusedWith(o) = [card EXCEPT !.plan = Group!Project(Group!PlanAt(v), {}, others),
                                          !.applied = others, !.version = v]
    BY DEF Group!Accepted, Group!RefusedWith
  <2> HIDE DEF others, v
  <2>8. Group!Accepted(o) \in Cards
    BY <1>1, <2>2, <2>3, <2>4, <2>7 DEF Cards
  <2>9. Group!RefusedWith(o) \in Cards
    BY <1>1, <2>2, <2>3, <2>4, <2>7 DEF Cards
  <2> QED BY <2>6, <2>8, <2>9
<1> QED BY <1>2, <1>6, <1>7

LEMMA Loaded ==
  ASSUME GroupShape
  PROVE  /\ \A manual : Group!Reload(manual) => load' \in Loads
         /\ \A more : Group!Ended(more)
              => load' \in Loads /\ supplied' \subseteq supplied
         /\ Group!Failed => load' \in Loads /\ supplied' \subseteq supplied
         /\ \A v \in 0 .. Group!Now : Group!With(v) \in Loads
<1>1. /\ load \in Loads /\ newest \in Nat /\ 0 \in 0 .. Group!Now
      /\ supplied \in SUBSET (0 .. Group!Now)
  BY Queued DEF GroupShape
<1>2. Group!NoLoad \in Loads
  BY <1>1 DEF Group!NoLoad, Loads
<1>3. [Group!NoLoad EXCEPT !.phase = "asked", !.base = newest] \in Loads
  BY <1>1, <1>2 DEF Loads
<1>4. \A v \in 0 .. Group!Now : Group!With(v) \in Loads
  BY <1>1, <1>2 DEF Group!With, Loads
<1>5. ASSUME NEW manual, Group!Reload(manual) PROVE load' \in Loads
  BY <1>1, <1>3, <1>5 DEF Group!Reload, Group!Called
<1>6. ASSUME NEW more, Group!Ended(more)
      PROVE  load' \in Loads /\ supplied' \subseteq supplied
  BY <1>1, <1>2, <1>3, <1>4, <1>6 DEF Group!Ended
<1>7. Group!Failed => load' \in Loads /\ supplied' \subseteq supplied
  BY <1>1, <1>6 DEF Group!Failed
<1> QED BY <1>4, <1>5, <1>6, <1>7

(* Only an edit and an exchange write on the server, and only at its end;  *)
(* what has been judged stays so, and what is committed was accepted.      *)
Committed == \A v \in DOMAIN history : \A o \in Group!Op :
               o \in history[v] => verdict[o].answer = "accepted"

LEMMA ServerSteps ==
  ASSUME [Group!Next]_(Group!vars)
    PROVE Group!MemberEdits \/ Group!ExchangeServed \/ UNCHANGED Group!serverVars
BY DEF Group!Next, Group!vars, Group!Realtime, Group!Debounced, Group!Poll,
  Group!EnqueueReads, Group!EnqueueCommits, Group!Receipt, Group!ExchangeEnds,
  Group!ReplyLost, Group!ApplyReads, Group!Overtaken, Group!Relists,
  Group!LoadLists, Group!LoadPaints, Group!Saves, Group!LoadCloses,
  Group!DeadlinePasses, Group!SessionChanges, Group!IdentityPrepared,
  Group!Crash

LEMMA ServerGrows ==
  ASSUME GroupShape, Committed, [Group!Next]_(Group!vars)
  PROVE  /\ history' \in Seq(SUBSET Group!Item) /\ history' # <<>>
         /\ verdict' \in [Group!Op -> Verdicts']
         /\ 0 .. Group!Now \subseteq 0 .. Group!Now'
         /\ \A o \in Group!Op : verdict[o].answer # "none"
              => verdict'[o] = verdict[o]
         /\ Committed'
<1>1. /\ history \in Seq(SUBSET Group!Item) /\ Len(history) \in Nat \ {0}
      /\ DOMAIN history = 1 .. Len(history) /\ Group!Now = Len(history) - 1
      /\ Group!Now' = Len(history') - 1
  BY DEF GroupShape, Group!Now
<1>2. CASE Group!MemberEdits
  <2>1. PICK plan : /\ history' = Append(history, plan)
                    /\ plan \in {Group!PlanAt(Group!Now) \union {Group!Theirs}, Group!PlanAt(Group!Now) \ {0}}
    BY <1>2 DEF Group!MemberEdits
  <2>2. Group!PlanAt(Group!Now) = history[Len(history)]
          /\ Group!PlanAt(Group!Now) \in SUBSET Group!Item
    BY <1>1 DEF Group!PlanAt
  <2>3. plan \in SUBSET Group!Item
    BY <2>1, <2>2, Items
  <2>4. /\ history' \in Seq(SUBSET Group!Item) /\ Len(history') = Len(history) + 1
        /\ \A v \in 1 .. Len(history') :
             history'[v] = IF v <= Len(history) THEN history[v] ELSE plan
    BY <1>1, <2>1, <2>3
  <2>5. history' # <<>> /\ 0 .. Group!Now \subseteq 0 .. Group!Now'
    BY <1>1, <2>4
  <2>6. verdict' = verdict
    BY <1>2 DEF Group!MemberEdits
  <2>7. verdict' \in [Group!Op -> Verdicts']
    BY <2>5, <2>6 DEF GroupShape, Verdicts
  <2>8. Committed'
    <3> SUFFICES ASSUME NEW v \in 1 .. Len(history'), NEW o \in Group!Op,
                        o \in history'[v]
                 PROVE  verdict[o].answer = "accepted"
      BY <2>4, <2>6 DEF Committed
    <3>1. CASE v <= Len(history)
      BY <1>1, <2>4, <3>1 DEF Committed
    <3>2. CASE ~(v <= Len(history))
      <4>1. o \in plan
        BY <2>4, <3>2
      <4>2. o \in Group!PlanAt(Group!Now)
        BY <2>1, <4>1, Items
      <4> QED BY <1>1, <2>2, <4>2 DEF Committed
    <3> QED BY <3>1, <3>2
  <2> QED BY <2>4, <2>5, <2>6, <2>7, <2>8
<1>3. CASE Group!ExchangeServed
  <2>1. /\ history' \in Seq(SUBSET Group!Item) /\ Len(history') >= Len(history)
        /\ verdict' \in [Group!Op -> Verdicts']
        /\ \A o \in Group!Op : verdict[o].answer # "none"
             => verdict'[o] = verdict[o]
    BY <1>3, Served
  <2>2. history' # <<>> /\ 0 .. Group!Now \subseteq 0 .. Group!Now'
    BY <1>1, <2>1
  <2>3. Committed'
    <3> SUFFICES ASSUME NEW v \in DOMAIN history',
                          NEW o \in Group!Op, o \in history'[v]
                 PROVE  verdict'[o].answer = "accepted"
      BY DEF Committed
    <3>1. \/ \E u \in DOMAIN history : o \in history[u]
          \/ verdict'[o].answer = "accepted"
      BY <1>3, Served
    <3> QED BY <2>1, <3>1 DEF Committed
  <2> QED BY <2>1, <2>2, <2>3
<1>4. CASE UNCHANGED Group!serverVars
  BY <1>1, <1>4 DEF Group!serverVars, GroupShape, Committed, Verdicts, Group!Now
<1> QED BY <1>2, <1>3, <1>4, ServerSteps

LEMMA Wider ==
  ASSUME 0 .. Group!Now \subseteq 0 .. Group!Now'
  PROVE  /\ Loads \subseteq Loads' /\ Flights \subseteq Flights'
         /\ Requests \subseteq Requests' /\ Seq(Requests) \subseteq Seq(Requests')
<1>1. Loads \subseteq Loads'
  BY DEF Loads
<1>2. Flights \subseteq Flights'
  BY DEF Flights
<1>3. Requests \subseteq Requests'
  BY DEF Requests
<1> QED BY <1>1, <1>2, <1>3, SeqMonotonic

DeviceShape ==
  /\ intents \in [Group!Op -> Rows] /\ card \in Cards
       /\ view \in Views \cup {Group!NoView}
  /\ open \in SUBSET Group!Op /\ newest \in 0 .. Group!Now
       /\ supplied \in SUBSET (0 .. Group!Now)
  /\ cardLane \in Seq(Requests) /\ load \in Loads /\ exchange \in Flights
  /\ reader \in Who /\ actor \in Who /\ writer \in Who

(* Room for the operation that an enqueue has announced. *)
Room == writer # NoOne => \E o \in Group!Op : intents[o] = Group!Unused

(* What an insertion and a receipt write. *)
Inserted(o, removes) ==
  /\ intents[o] = Group!Unused
  /\ removes => 0 \in card.plan
  /\ intents' = [intents EXCEPT ![o] = [state |-> "open", owner |-> reader,
                                removes |-> removes]]
  /\ card' = [owner |-> reader,
               plan |-> IF removes THEN card.plan \ {0}
                        ELSE card.plan \union {o},
               applied |-> card.applied \union {o},
               version |-> card.version + 1]
  /\ mixed' = (mixed \/ card.owner \notin {NoOne, reader})
  /\ bare' = (bare \/ card.owner = NoOne)
  /\ cardLane' = Group!Painting /\ UNCHANGED <<view, open, reader, actor, exchange>>

Handled(o) ==
  /\ exchange' = [exchange EXCEPT !.left = @ \ {o}]
  /\ intents' = [intents EXCEPT ![o].state =
               IF verdict[o].answer = "accepted" THEN "settled" ELSE "refused"]
  /\ IF verdict[o].answer = "accepted" THEN card' = Group!Accepted(o)
     ELSE card' \in {Group!RefusedWith(o), Group!RefusedBare(o)}
  /\ mixed' = (mixed \/ card.owner # reader)
  /\ cardLane' = Group!Painting /\ UNCHANGED <<view, open, reader, actor, bare>>

LEMMA Enqueued ==
  ASSUME GroupShape, Room, Group!EnqueueCommits, reader # NoOne
  PROVE  \E o \in Group!Op, removes \in BOOLEAN : Inserted(o, removes)
<1> DEFINE unused == {p \in Group!Op : intents[p] = Group!Unused}
<1>1. unused # {} /\ unused \in SUBSET Group!Op
  BY DEF Group!EnqueueCommits, Room
<1>2. Group!Earliest(unused) \in unused
  <2> HIDE DEF unused
  <2> QED BY <1>1, EarliestIn
<1> QED BY <1>2 DEF Group!EnqueueCommits, Inserted, Group!paintVars

LEMMA Adds ==
  ASSUME GroupShape, NEW o, o \in Group!Op, NEW removes, Inserted(o, removes)
  PROVE  /\ intents[o].state = "unused" /\ intents[o].owner = NoOne
         /\ intents'[o].state = "open" /\ intents'[o].owner = reader
         /\ intents'[o].removes = removes
         /\ \A p \in Group!Op : p # o => intents'[p] = intents[p]
<1>1. /\ intents' = [intents EXCEPT ![o] = [state |-> "open", owner |-> reader,
                                    removes |-> removes]]
      /\ intents[o] = Group!Unused
  BY Zenon DEF Inserted
<1>2. DOMAIN intents = Group!Op
  BY DEF GroupShape
<1>3. intents[o].state = "unused" /\ intents[o].owner = NoOne
  BY <1>1 DEF Group!Unused
<1>4. /\ intents'[o] = [state |-> "open", owner |-> reader, removes |-> removes]
      /\ \A p \in Group!Op : p # o => intents'[p] = intents[p]
  BY <1>1, <1>2
<1>5. /\ intents'[o].state = "open" /\ intents'[o].owner = reader
      /\ intents'[o].removes = removes
  BY <1>4
<1> QED BY <1>3, <1>4, <1>5

LEMMA Received ==
  ASSUME GroupShape, Group!Receipt, reader = exchange.who
  PROVE  \E o \in exchange.left : o \in Group!Op /\ Handled(o)
<1>1. exchange.left \in SUBSET Group!Op /\ exchange.left # {}
  BY DEF GroupShape, Flights, Group!Receipt
<1>2. Group!Earliest(exchange.left) \in exchange.left
  BY <1>1, EarliestIn
<1> QED BY <1>1, <1>2 DEF Group!Receipt, Handled, Group!paintVars

LEMMA GroupTypes ==
  ASSUME GroupShape, Committed, Room, [Group!Next]_(Group!vars) PROVE GroupShape'
<1>0. /\ 0 .. Group!Now \subseteq 0 .. Group!Now' /\ 0 \in 0 .. Group!Now'
      /\ history' \in Seq(SUBSET Group!Item) /\ history' # <<>>
      /\ verdict' \in [Group!Op -> Verdicts']
  BY ServerGrows, Queued
<1>1. /\ Loads \subseteq Loads' /\ Flights \subseteq Flights'
      /\ Seq(Requests) \subseteq Seq(Requests') /\ Requests \subseteq Requests'
  BY <1>0, Wider
<1>2. DeviceShape /\ NoOne \in Who
  BY DEF GroupShape, DeviceShape, Who
<1>3. \A w : Group!Own(w) \in SUBSET Group!Op
  BY DEF Group!Own
<1>4. Group!Listed \in SUBSET Group!Op
  BY <1>3 DEF Group!Listed
<1>5. Group!NoFlight \in Flights /\ Group!NoLoad \in Loads
  BY Queued DEF Group!NoFlight, Group!NoLoad, Flights, Loads, Who
<1>6. UNCHANGED cardLane => cardLane' \in Seq(Requests')
  BY <1>1, <1>2 DEF DeviceShape
<1>7. UNCHANGED load => load' \in Loads'
  BY <1>1, <1>2 DEF DeviceShape
<1>8. UNCHANGED exchange => exchange' \in Flights'
  BY <1>1, <1>2 DEF DeviceShape
<1>9. /\ UNCHANGED newest => newest' \in 0 .. Group!Now'
      /\ supplied' \subseteq supplied => supplied' \in SUBSET (0 .. Group!Now')
  BY <1>0, <1>2 DEF DeviceShape
<1>10. /\ \A m : Group!Reload(m) => load' \in Loads'
       /\ \A more : Group!Ended(more) => load' \in Loads'
                                     /\ supplied' \in SUBSET (0 .. Group!Now')
       /\ Group!Failed => load' \in Loads' /\ supplied' \in SUBSET (0 .. Group!Now')
       /\ \A v \in 0 .. Group!Now : Group!With(v) \in Loads'
  BY <1>1, <1>9, Loaded
<1>11. Group!Painting \in Seq(Requests')
         /\ \A kinds : Group!Without(kinds) \in Seq(Requests')
  BY <1>1, Queued
<1>12. cardLane # <<>> => /\ Tail(cardLane) \in Seq(Requests')
                          /\ Tail(cardLane) \in Seq(Requests)
                          /\ Head(cardLane) \in Requests
                          /\ Head(cardLane).version \in 0 .. Group!Now
  <2>1. cardLane \in Seq(Requests)
    BY <1>2 DEF DeviceShape
  <2>2. cardLane # <<>> => Tail(cardLane) \in Seq(Requests)
          /\ Head(cardLane) \in Requests
    BY <2>1, HeadTailProperties
  <2> QED BY <1>1, <2>2 DEF Requests
<1> SUFFICES DeviceShape'
  BY <1>0 DEF GroupShape, DeviceShape
<1> USE DEF DeviceShape, Group!paintVars, Group!loadVars
<1>13. CASE Group!MemberEdits
  BY <1>2, <1>6, <1>7, <1>8, <1>9, <1>13 DEF Group!MemberEdits
<1>14. CASE Group!Realtime
  <2>1. newest' \in 0 .. Group!Now'
    BY <1>0, <1>14 DEF Group!Realtime
  <2> QED BY <1>2, <1>6, <1>7, <1>8, <1>9, <1>14, <2>1 DEF Group!Realtime
<1>15. CASE Group!Debounced
  BY <1>2, <1>6, <1>8, <1>9, <1>10, <1>15 DEF Group!Debounced
<1>16. CASE Group!Poll
  BY <1>2, <1>6, <1>8, <1>9, <1>10, <1>16 DEF Group!Poll
<1>17. CASE Group!EnqueueReads
  BY <1>2, <1>6, <1>7, <1>8, <1>9, <1>17 DEF Group!EnqueueReads
<1>19. CASE Group!ExchangeServed
  <2>1. exchange' \in Flights'
    BY <1>19, Served
  <2> QED BY <1>2, <1>6, <1>7, <1>9, <1>19, <2>1 DEF Group!ExchangeServed
<1>20. CASE Group!ReplyLost
  BY <1>1, <1>2, <1>5, <1>6, <1>9, <1>10, <1>20 DEF Group!ReplyLost
<1>21. CASE Group!ApplyReads
  <2>1. [load EXCEPT !.painted = load.phase # "none"] \in Loads'
    BY <1>1, <1>2 DEF Loads
  <2>2. [plan |-> card.plan, applied |-> card.applied] \in Views
    BY <1>2 DEF Cards, Views
  <2> QED BY <1>2, <1>7, <1>8, <1>9, <1>12, <1>21, <2>1, <2>2 DEF
            Group!ApplyReads
<1>22. CASE Group!Overtaken
  BY <1>2, <1>7, <1>8, <1>9, <1>12, <1>22 DEF Group!Overtaken
<1>23. CASE Group!Relists
  BY <1>2, <1>4, <1>6, <1>7, <1>8, <1>9, <1>10, <1>23 DEF Group!Relists
<1>24. CASE Group!LoadLists
  <2>1. load.version \in 0 .. Group!Now /\ load.version \in 0 .. Group!Now'
    BY <1>0, <1>2 DEF Loads
  <2>2. /\ [load EXCEPT !.phase = "closing"] \in Loads'
        /\ [load EXCEPT !.phase = "reading"] \in Loads'
    BY <1>1, <1>2 DEF Loads
  <2>3. [kind |-> "check", version |-> load.version] \in Requests'
    BY <2>1 DEF Requests
  <2>4. Append(cardLane, [kind |-> "check", version |-> load.version]) \in Seq(Requests')
    BY <1>1, <1>2, <2>3
  <2>5. load' \in Loads' /\ supplied' \in SUBSET (0 .. Group!Now')
    BY <1>9, <1>10, <1>24, <2>2 DEF Group!LoadLists
  <2>6. newest' \in 0 .. Group!Now' /\ cardLane' \in Seq(Requests')
    BY <1>6, <1>9, <1>24, <2>1, <2>4 DEF Group!LoadLists
  <2> QED BY <1>2, <1>4, <1>8, <1>24, <2>5, <2>6 DEF Group!LoadLists
<1>25. CASE Group!LoadPaints
  <2>1. load.version \in 0 .. Group!Now /\ load.version \in 0 .. Group!Now'
    BY <1>0, <1>2 DEF Loads
  <2>2. [load EXCEPT !.phase = "saving"] \in Loads'
    BY <1>1, <1>2 DEF Loads
  <2>3. [kind |-> "save", version |-> load.version] \in Requests'
    BY <2>1 DEF Requests
  <2>4. Append(Tail(cardLane), [kind |-> "save", version |-> load.version])
          \in Seq(Requests')
    BY <1>12, <1>25, <2>3 DEF Group!LoadPaints
  <2>5. [plan |-> Group!PlanAt(load.version), applied |-> {}] \in Views
    BY <2>1, CardKept DEF Views
  <2> QED BY <1>2, <1>8, <1>9, <1>25, <2>2, <2>4, <2>5 DEF Group!LoadPaints
<1>26. CASE Group!Saves
  <2>1. [load EXCEPT !.phase = "closing"] \in Loads'
    BY <1>1, <1>2 DEF Loads
  <2>2. Group!Saved(Head(cardLane).version) \in Cards
    BY <1>12, <1>26, CardKept DEF Group!Saves
  <2> QED BY <1>2, <1>7, <1>8, <1>9, <1>12, <1>26, <2>1, <2>2 DEF Group!Saves
<1>27. CASE Group!LoadCloses
  BY <1>2, <1>4, <1>6, <1>8, <1>9, <1>10, <1>27 DEF Group!LoadCloses
<1>28. CASE Group!DeadlinePasses
  BY <1>2, <1>6, <1>8, <1>9, <1>10, <1>28 DEF Group!DeadlinePasses
<1>29. CASE Group!SessionChanges
  <2>1. reader' \in Who
    BY <1>29 DEF Group!SessionChanges, Who
  <2> QED BY <1>2, <1>6, <1>7, <1>8, <1>9, <1>29, <2>1 DEF Group!SessionChanges
<1>30. ASSUME NEW who, NEW saves \in Seq(Requests'), Group!Fresh(who, saves),
                who \in Who
       PROVE  /\ cardLane' \in Seq(Requests') /\ load' \in Loads'
              /\ supplied' \in SUBSET (0 .. Group!Now')
                   /\ newest' \in 0 .. Group!Now'
              /\ view' = Group!NoView /\ open' \in SUBSET Group!Op /\ actor' \in Who
  <2>1. Group!Hydration(who) \in Seq(Requests')
    BY <1>1, Queued, Hydrates
  <2> QED BY <1>0, <1>1, <1>5, <1>30, <2>1 DEF Group!Fresh
<1>31. CASE Group!IdentityPrepared
  BY <1>2, <1>8, <1>11, <1>30, <1>31 DEF Group!IdentityPrepared
<1>32. CASE Group!Crash
  <2>1. <<>> \in Seq(Requests')
    OBVIOUS
  <2> QED BY <1>1, <1>2, <1>5, <1>30, <1>32, <2>1 DEF Group!Crash
<1>33. CASE Group!ExchangeEnds
  <2>1. exchange.version \in 0 .. Group!Now /\ exchange.version \in 0 .. Group!Now'
    BY <1>0, <1>2 DEF Flights
  <2>2. [load EXCEPT !.phase = "served", !.version = exchange.version] \in Loads'
    BY <1>1, <1>2, <2>1 DEF Loads
  <2>3. load' \in Loads'
    BY <1>7, <1>10, <1>33, <2>1, <2>2 DEF Group!ExchangeEnds
  <2>4. supplied' \in SUBSET (0 .. Group!Now')
    BY <1>0, <1>2, <1>9, <1>10, <1>33, <2>1 DEF Group!ExchangeEnds
  <2> QED BY <1>1, <1>2, <1>5, <1>6, <1>9, <1>33, <2>3, <2>4 DEF
            Group!ExchangeEnds
<1>34. CASE Group!Receipt
  <2>1. /\ [exchange EXCEPT !.left = {}] \in Flights'
        /\ \A o : [exchange EXCEPT !.left = @ \ {o}] \in Flights'
    BY <1>1, <1>2 DEF Flights
  <2>2. CASE reader # exchange.who
    BY <1>2, <1>6, <1>7, <1>9, <1>34, <2>1, <2>2 DEF Group!Receipt
  <2>3. CASE reader = exchange.who
    <3>1. PICK o \in Group!Op : Handled(o)
      BY <1>34, <2>3, Received
    <3>4. card' \in Cards
      BY <3>1, CardKept DEF Handled
    <3>5. intents' \in [Group!Op -> Rows]
      BY <1>2, <3>1 DEF Rows, Handled
    <3> QED BY <1>2, <1>7, <1>9, <1>11, <1>34, <2>1, <3>1, <3>4, <3>5
            DEF Group!Receipt, Handled
  <2> QED BY <2>2, <2>3
<1>35. CASE Group!EnqueueCommits
  <2>1. CASE reader = NoOne
    BY <1>2, <1>6, <1>7, <1>8, <1>9, <1>35, <2>1 DEF Group!EnqueueCommits
  <2>2. CASE reader # NoOne
    <3>1. PICK o \in Group!Op, removes \in BOOLEAN : Inserted(o, removes)
      BY <1>35, <2>2, Enqueued
    <3>3. intents' \in [Group!Op -> Rows]
      BY <1>2, <3>1 DEF Rows, Inserted
    <3>4. card' \in Cards
      <4>1. card.version + 1 \in Int /\ reader \in Who
        BY <1>2 DEF Cards
      <4>2. /\ card.applied \union {o} \in SUBSET Group!Op
            /\ (IF removes THEN card.plan \ {0} ELSE card.plan \union {o})
                 \in SUBSET Group!Item
        BY <1>2, Items DEF Cards
      <4> QED BY <3>1, <4>1, <4>2 DEF Cards, Inserted
    <3> QED BY <1>2, <1>7, <1>8, <1>9, <1>11, <1>35, <3>1, <3>3, <3>4
            DEF Group!EnqueueCommits, Inserted
  <2> QED BY <2>1, <2>2
<1>36. CASE UNCHANGED Group!vars
  BY <1>2, <1>6, <1>7, <1>8, <1>9, <1>36 DEF Group!vars
<1> QED
  BY <1>13, <1>14, <1>15, <1>16, <1>17, <1>19, <1>20, <1>21, <1>22, <1>23,
     <1>24, <1>25, <1>26, <1>27, <1>28, <1>29, <1>31, <1>32, <1>33, <1>34,
     <1>35, <1>36 DEF Group!Next

(* Which steps move what. *)
LEMMA Movers ==
  ASSUME [Group!Next]_(Group!vars)
  PROVE  /\ \/ Group!Receipt \/ Group!EnqueueCommits \/ Group!Saves
            \/ UNCHANGED <<intents, card, mixed, bare>>
         /\ Group!ApplyReads \/ Group!LoadPaints \/ Group!IdentityPrepared
              \/ Group!Crash \/ UNCHANGED view
         /\ Group!IdentityPrepared \/ Group!Crash \/ UNCHANGED actor
         /\ Group!SessionChanges \/ UNCHANGED reader
         /\ \/ Group!Relists \/ Group!LoadLists \/ Group!LoadCloses
                 \/ Group!IdentityPrepared \/ Group!Crash
            \/ UNCHANGED open
         /\ Group!EnqueueReads \/ Group!EnqueueCommits \/ Group!Crash
              \/ UNCHANGED writer
         /\ \/ Group!ExchangeServed \/ Group!Receipt \/ Group!ExchangeEnds
                 \/ Group!ReplyLost \/ Group!Crash
            \/ UNCHANGED exchange
         /\ \/ Group!Receipt \/ Group!EnqueueCommits \/ Group!ApplyReads
                 \/ Group!Overtaken \/ Group!LoadLists
            \/ Group!LoadPaints \/ Group!Saves \/ Group!IdentityPrepared
                 \/ Group!Crash \/ UNCHANGED cardLane
BY DEF Group!Next, Group!vars, Group!paintVars, Group!loadVars,
  Group!MemberEdits, Group!Realtime, Group!Debounced, Group!Poll,
  Group!EnqueueReads, Group!EnqueueCommits, Group!ExchangeServed,
  Group!Receipt, Group!ExchangeEnds, Group!ReplyLost, Group!ApplyReads,
  Group!Overtaken, Group!Relists, Group!LoadLists, Group!LoadPaints,
  Group!Saves, Group!LoadCloses, Group!DeadlinePasses, Group!SessionChanges,
  Group!IdentityPrepared, Group!Crash

(* Rows have an owner from their insertion on, and an exchange holds open  *)
(* rows of its account.                                                    *)
Known == \A o \in Group!Op : intents[o].owner = NoOne => intents[o] = Group!Unused
InFlight == \A o \in exchange.left :
              intents[o].state = "open" /\ intents[o].owner = exchange.who
Judged == \A o \in Group!Op : verdict[o].answer # "none" => intents[o].owner # NoOne
RowInv == Known /\ InFlight /\ Room /\ Judged

(* Rows keep their account and their kind. *)
LEMMA RowsStay ==
  ASSUME GroupShape, RowInv, [Group!Next]_(Group!vars)
  PROVE  \A o \in Group!Op :
           /\ intents[o].owner # NoOne => intents'[o].owner = intents[o].owner
                                      /\ intents'[o].removes = intents[o].removes
           /\ intents[o].owner # NoOne /\ intents'[o].state = "open"
                => intents[o].state = "open"
           /\ intents[o].owner = NoOne /\ intents'[o] # intents[o] =>
                Group!EnqueueCommits /\ reader # NoOne /\ intents'[o].owner = reader
<1>1. intents \in [Group!Op -> Rows]
  BY DEF GroupShape
<1>2. CASE UNCHANGED intents
  BY <1>2
<1>3. CASE Group!Receipt /\ reader = exchange.who
  <2>1. PICK p \in exchange.left : p \in Group!Op /\ Handled(p)
    BY <1>3, Received
  <2>2. intents[p].owner # NoOne
    BY <2>1 DEF RowInv, InFlight, Known, Group!Unused
  <2> QED BY <1>1, <2>1, <2>2 DEF Rows, Handled
<1>4. CASE Group!EnqueueCommits /\ reader # NoOne
  <2>1. PICK p \in Group!Op, removes \in BOOLEAN : Inserted(p, removes)
    BY <1>4, Enqueued DEF RowInv
  <2>2. /\ intents[p].owner = NoOne /\ intents'[p].owner = reader
        /\ \A o \in Group!Op : o # p => intents'[o] = intents[o]
    BY <2>1, Adds
  <2> QED BY <1>4, <2>2
<1> QED BY <1>2, <1>3, <1>4, Movers DEF Group!Receipt, Group!EnqueueCommits,
          Group!Saves

LEMMA RowsNext ==
  ASSUME GroupShape, Committed, RowInv, [Group!Next]_(Group!vars) PROVE RowInv'
<1>1. intents \in [Group!Op -> Rows] /\ reader \in Who
  BY DEF GroupShape
<1>2. Known'
  <2> SUFFICES ASSUME NEW o \in Group!Op, intents'[o].owner = NoOne
      PROVE intents'[o] = Group!Unused
    BY DEF Known
  <2>1. intents[o].owner = NoOne
    BY RowsStay
  <2>2. intents'[o] = intents[o]
    BY <2>1, RowsStay
  <2> QED BY <2>1, <2>2 DEF RowInv, Known
<1>3. InFlight'
  <2>1. CASE Group!ExchangeServed
    <3>1. exchange'.left \subseteq Group!Own(reader)
            /\ exchange'.who = reader /\ intents' = intents
      BY <2>1, Served DEF Group!ExchangeServed
    <3> QED BY <3>1 DEF InFlight, Group!Own
  <2>2. CASE Group!ExchangeEnds \/ Group!ReplyLost \/ Group!Crash
    BY <2>2 DEF Group!ExchangeEnds, Group!ReplyLost, Group!Crash,
      Group!NoFlight, InFlight
  <2>3. CASE Group!Receipt /\ reader # exchange.who
    <3>1. exchange'.left = {}
      BY <2>3 DEF Group!Receipt, GroupShape, Flights
    <3> QED BY <3>1 DEF InFlight
  <2>4. CASE Group!Receipt /\ reader = exchange.who
    <3>1. PICK p \in exchange.left : p \in Group!Op /\ Handled(p)
      BY <2>4, Received
    <3>2. /\ exchange'.left = exchange.left \ {p} /\ exchange'.who = exchange.who
          /\ exchange.left \in SUBSET Group!Op
      BY <3>1 DEF GroupShape, Flights, Handled
    <3> QED BY <1>1, <3>1, <3>2 DEF InFlight, RowInv, Handled
  <2>5. CASE UNCHANGED exchange /\ UNCHANGED intents
    BY <2>5 DEF InFlight, RowInv
  <2>6. CASE Group!EnqueueCommits /\ reader # NoOne
    <3>1. PICK p \in Group!Op, removes \in BOOLEAN : Inserted(p, removes)
      BY <2>6, Enqueued DEF RowInv
    <3>2. exchange' = exchange /\ exchange.left \in SUBSET Group!Op
      BY <2>6 DEF Group!EnqueueCommits, GroupShape, Flights
    <3>3. intents[p].state = "unused" /\ \A o \in Group!Op : o # p
            => intents'[o] = intents[o]
      BY <3>1, Adds
    <3>4. \A o \in exchange.left : o # p
      BY <3>3 DEF RowInv, InFlight
    <3> QED BY <3>2, <3>3, <3>4 DEF RowInv, InFlight
  <2> QED BY <2>1, <2>2, <2>3, <2>4, <2>5, <2>6, Movers
          DEF Group!EnqueueCommits, Group!Saves
<1>4. Room'
  <2>1. CASE Group!EnqueueReads
    BY <2>1 DEF Group!EnqueueReads, Room
  <2>2. CASE Group!EnqueueCommits \/ Group!Crash
    BY <2>2 DEF Group!EnqueueCommits, Group!Crash, Room
  <2>3. CASE UNCHANGED writer /\ ~Group!EnqueueCommits
    <3> SUFFICES ASSUME NEW o \in Group!Op, intents[o] = Group!Unused
        PROVE intents'[o] = Group!Unused
      BY <2>3 DEF RowInv, Room
    <3> QED BY <2>3, RowsStay DEF Group!Unused
  <2> QED BY <2>1, <2>2, <2>3, Movers
<1>5. Judged'
  <2> SUFFICES ASSUME NEW o \in Group!Op, verdict'[o].answer # "none"
               PROVE  intents'[o].owner # NoOne
    BY DEF Judged
  <2>1. CASE verdict'[o] = verdict[o]
    BY <2>1, RowsStay DEF RowInv, Judged
  <2>2. CASE verdict'[o] # verdict[o]
    <3>1. Group!ExchangeServed
      BY <2>2, ServerSteps DEF Group!serverVars, Group!MemberEdits
    <3>2. o \in Group!Own(reader) /\ reader # NoOne /\ intents' = intents
      BY <2>2, <3>1, Served DEF Group!ExchangeServed
    <3> QED BY <3>2 DEF Group!Own
  <2> QED BY <2>1, <2>2
<1> QED BY <1>2, <1>3, <1>4, <1>5 DEF RowInv

(* What a plan shows of an operation is its account's own, or accepted. *)
Held(o, who) ==
  /\ intents[o].owner # NoOne
  /\ intents[o].removes \/ intents[o].owner = who \/ verdict[o].answer = "accepted"

Private(plan, who) == \A o \in Group!Op : o \in plan => Held(o, who)

OpenOwned == \A o \in open : intents[o].owner = actor /\ intents[o].owner # NoOne

(* While no card was written under another account's name, the card and    *)
(* what is painted of it hold nobody else's drafts.                        *)
PrivateInv ==
  /\ ~mixed => Private(card.plan, card.owner)
  /\ ~mixed /\ reader = actor /\ view # Group!NoView => Private(view.plan, actor)
  /\ OpenOwned

GroupInv == GroupShape /\ Committed /\ RowInv

LEMMA HeldStays ==
  ASSUME GroupInv, [Group!Next]_(Group!vars)
  PROVE  \A o \in Group!Op : \A who : Held(o, who) => Held(o, who)'
BY RowsStay, ServerGrows DEF GroupInv, Held

LEMMA HistoryIsPrivate ==
  ASSUME GroupInv, NEW v \in 0 .. Group!Now, NEW who
    PROVE Private(Group!PlanAt(v), who)
<1>1. v + 1 \in DOMAIN history
  BY DEF GroupInv, GroupShape, Group!Now
<1> QED BY <1>1 DEF GroupInv, RowInv, Judged, Committed, Group!PlanAt,
          Private, Held

LEMMA ProjectionIsPrivate ==
  ASSUME GroupInv, NEW plan \in SUBSET Group!Item,
           NEW who \in Accounts, Private(plan, who),
         NEW applied \in SUBSET Group!Op, NEW wanted \in SUBSET Group!Own(who)
  PROVE  Private(Group!Project(plan, applied, wanted), who)
<1>1. wanted \ applied \in SUBSET Group!Op
        /\ \A o \in wanted : intents[o].owner = who
  BY DEF Group!Own
<1>2. Group!Project(plan, applied, wanted) \subseteq
        plan \cup {o \in wanted \ applied : ~intents[o].removes}
  BY <1>1, EffectOn DEF Group!Project
<1> QED BY <1>1, <1>2, Items DEF Private, Held

LEMMA PrivateStep ==
  ASSUME GroupInv, GroupInv', PrivateInv, [Group!Next]_(Group!vars)
    PROVE PrivateInv'
<1>1. /\ card \in Cards /\ reader \in Who /\ actor \in Who
      /\ \A w : Group!Own(w) \in SUBSET Group!Op
           /\ \A o \in Group!Own(w) : intents[o].owner = w
      /\ Group!Own(NoOne) = {}
  BY DEF GroupInv, GroupShape, Group!Own, RowInv, Known, Group!Unused
<1>2. /\ \A plan, who : Private(plan, who) => Private(plan, who)'
      /\ \A plan, who : Private(plan, NoOne) => Private(plan, who)
  BY HeldStays DEF Private, Held
<1>3. mixed => mixed'
  BY Movers DEF Group!Receipt, Group!EnqueueCommits, Group!Saves
<1>4. ASSUME Group!Readable(reader), ~mixed PROVE Private(card.plan, reader)
  BY <1>2, <1>4 DEF Group!Readable, PrivateInv
<1>5. ~mixed' => Private(card.plan, card.owner)'
  <2> SUFFICES ASSUME ~mixed', ~mixed PROVE Private(card.plan, card.owner)'
    BY <1>3
  <2>1. CASE UNCHANGED card
    BY <1>2, <2>1 DEF PrivateInv
  <2>2. CASE Group!Saves
    <3> DEFINE v == Head(cardLane).version
    <3> DEFINE existing == IF Group!Readable(reader) THEN card ELSE Group!NoCard
    <3> DEFINE kept == existing # Group!NoCard /\ v < existing.version
    <3> DEFINE mine == IF reader = NoOne THEN {} ELSE Group!Own(reader)
    <3> DEFINE plan == IF kept THEN existing.plan ELSE Group!PlanAt(v)
    <3> DEFINE applied == IF kept THEN existing.applied ELSE {}
    <3>1. /\ card'.plan = Group!Project(plan, applied, mine)
          /\ card'.owner = reader
      BY <2>2 DEF Group!Saves, Group!Saved
    <3>2. v \in 0 .. Group!Now
      <4>1. cardLane \in Seq(Requests) /\ cardLane # <<>>
        BY <2>2 DEF Group!Saves, GroupInv, GroupShape
      <4>2. Head(cardLane) \in Requests
        BY <4>1, HeadTailProperties
      <4> QED BY <4>2 DEF Requests
    <3>3. existing # Group!NoCard => Group!Readable(reader) /\ existing = card
      OBVIOUS
    <3>4. Group!PlanAt(v) \in SUBSET Group!Item
            /\ \A who : Private(Group!PlanAt(v), who)
      BY <3>2, CardKept, HistoryIsPrivate DEF GroupInv
    <3> HIDE DEF existing, v
    <3>5. plan \in SUBSET Group!Item /\ Private(plan, reader)
            /\ applied \in SUBSET Group!Op
      BY <1>1, <1>4, <3>3, <3>4 DEF Cards
    <3> HIDE DEF plan, applied
    <3>6. Private(Group!Project(plan, applied, mine), reader)
      <4>1. CASE reader = NoOne
        <5>1. Group!Project(plan, applied, mine) \subseteq plan
          BY <3>5, <4>1, EffectOn DEF Group!Project
        <5> QED BY <3>5, <5>1 DEF Private
      <4>2. CASE reader # NoOne
        BY <1>1, <3>5, <4>2, ProjectionIsPrivate DEF Who
      <4> QED BY <4>1, <4>2
    <3> HIDE DEF mine
    <3>7. \A p, who : Private(p, who) => Private(p, who)'
      BY <1>2
    <3> QED BY <3>1, <3>6, <3>7
  <2>3. CASE Group!EnqueueCommits /\ reader # NoOne
    <3>1. PICK o \in Group!Op, removes \in BOOLEAN : Inserted(o, removes)
      BY <2>3, Enqueued DEF GroupInv, RowInv
    <3>2. card.owner \in {NoOne, reader} /\ card'.owner = reader
      BY <3>1 DEF Inserted
    <3>4. \A p \in card'.plan : p \in card.plan \/ p = o
      BY <3>1 DEF Inserted
    <3>5. intents'[o].owner = reader
      BY <3>1, Adds DEF GroupInv
    <3>6. Held(o, reader)'
      BY <2>3, <3>5 DEF Held, Group!EnqueueCommits
    <3>7. Private(card.plan, reader)
      BY <1>2, <3>2 DEF PrivateInv
    <3>8. reader' = reader
      BY <2>3 DEF Group!EnqueueCommits
    <3>9. \A p \in Group!Op : Held(p, reader) => Held(p, reader)'
      BY <3>8, HeldStays
    <3> QED BY <3>2, <3>4, <3>6, <3>7, <3>8, <3>9 DEF Private
  <2>4. CASE Group!Receipt /\ reader = exchange.who
    <3>1. PICK o \in exchange.left : o \in Group!Op /\ Handled(o)
      BY <2>4, Received DEF GroupInv
    <3>2. intents[o].owner = reader /\ card.owner = reader /\ reader \in Accounts
      <4>1. intents[o].owner = reader /\ card.owner = reader
        BY <2>4, <3>1 DEF GroupInv, RowInv, InFlight, Handled
      <4>2. reader # NoOne
        BY <4>1, <3>1 DEF GroupInv, RowInv, InFlight, Known, Group!Unused
      <4> QED BY <1>1, <4>1, <4>2 DEF Who
    <3> DEFINE others == Group!Own(reader) \ {o}
    <3> DEFINE v == verdict[o].version
    <3>3. v \in 0 .. Group!Now
      BY <3>1 DEF GroupInv, GroupShape, Verdicts
    <3>4. Private(Group!Project(Group!PlanAt(v), {}, others), reader)
      <4>1. Group!PlanAt(v) \in SUBSET Group!Item
              /\ Private(Group!PlanAt(v), reader)
        BY <3>3, CardKept, HistoryIsPrivate DEF GroupInv
      <4>2. {} \in SUBSET Group!Op /\ others \in SUBSET Group!Own(reader)
        OBVIOUS
      <4> HIDE DEF v, others
      <4> QED BY <3>2, <4>1, <4>2, ProjectionIsPrivate
    <3>5. Private(Group!Undo(card.plan, o), reader)
      BY <3>2, Items DEF PrivateInv, Private, Group!Undo
    <3>6. /\ card'.owner = reader
          /\ card'.plan \in {Group!Project(Group!PlanAt(v), {}, others), Group!Undo(card.plan, o)}
      <4>1. card' \in {Group!Accepted(o), Group!RefusedWith(o), Group!RefusedBare(o)}
        BY <3>1 DEF Handled
      <4> QED BY <1>1, <3>2, <4>1 DEF Group!Accepted, Group!RefusedWith,
                Group!RefusedBare, Cards
    <3>7. \A p, who : Private(p, who) => Private(p, who)'
      BY <1>2
    <3> HIDE DEF v, others
    <3> QED BY <3>4, <3>5, <3>6, <3>7
  <2> QED BY <2>1, <2>2, <2>3, <2>4, Movers DEF Group!Receipt,
            Group!EnqueueCommits
<1>6. ~mixed' /\ reader' = actor' /\ view' # Group!NoView
        => Private(view.plan, actor)'
  <2> SUFFICES ASSUME ~mixed', ~mixed, reader' = actor', view' # Group!NoView
               PROVE  Private(view.plan, actor)'
    BY <1>3
  <2>1. CASE Group!IdentityPrepared \/ Group!Crash
    BY <2>1 DEF Group!IdentityPrepared, Group!Crash, Group!Fresh
  <2>2. CASE Group!ApplyReads
    <3>1. reader = actor /\ actor' = actor
      BY <2>2 DEF Group!ApplyReads
    <3>2. CASE Group!Readable(reader)
      <4>1. view'.plan = card.plan
        BY <2>2, <3>2 DEF Group!ApplyReads
      <4> QED BY <1>2, <1>4, <3>1, <3>2, <4>1
    <3>3. CASE ~Group!Readable(reader)
      <4>1. view' = view
        BY <2>2, <3>3 DEF Group!ApplyReads
      <4> QED BY <1>2, <3>1, <4>1 DEF PrivateInv
    <3> QED BY <3>2, <3>3
  <2>3. CASE Group!LoadPaints
    <3>1. load.version \in 0 .. Group!Now
      BY DEF GroupInv, GroupShape, Loads
    <3>2. view'.plan = Group!PlanAt(load.version) /\ actor' = actor
      BY <2>3 DEF Group!LoadPaints
    <3>3. Private(Group!PlanAt(load.version), actor)
      BY <3>1, HistoryIsPrivate
    <3> QED BY <1>2, <3>2, <3>3
  <2>4. CASE UNCHANGED <<view, actor>> /\ reader = actor
    BY <1>2, <2>4 DEF PrivateInv
  <2> QED BY <2>1, <2>2, <2>3, <2>4, Movers DEF Group!SessionChanges
<1>7. OpenOwned'
  <2>1. \A o \in Group!Op : intents[o].owner # NoOne
          => intents'[o].owner = intents[o].owner
    BY RowsStay DEF GroupInv
  <2>2. CASE Group!Relists \/ Group!LoadLists \/ Group!LoadCloses
    <3>1. /\ open' = Group!Listed /\ actor' = actor /\ UNCHANGED intents
      BY <2>2 DEF Group!Relists, Group!LoadLists, Group!LoadCloses
    <3> QED BY <1>1, <3>1 DEF Group!Listed, OpenOwned
  <2>3. CASE Group!IdentityPrepared \/ Group!Crash
    BY <2>3 DEF Group!IdentityPrepared, Group!Crash, Group!Fresh, OpenOwned
  <2>4. CASE UNCHANGED open /\ UNCHANGED actor
    <3>1. open \in SUBSET Group!Op
      BY DEF GroupInv, GroupShape
    <3> QED BY <2>1, <2>4, <3>1 DEF OpenOwned, PrivateInv
  <2> QED BY <2>2, <2>3, <2>4, Movers
<1> QED BY <1>5, <1>6, <1>7 DEF PrivateInv

LEMMA DraftsHeld == ASSUME GroupInv, PrivateInv PROVE Group!DraftsPrivate
<1> SUFFICES ASSUME NEW o \in Group!Op, Group!OthersDraft(o), ~mixed PROVE FALSE
  BY DEF Group!DraftsPrivate
<1>1. view # Group!NoView /\ o \in Group!Project(view.plan, view.applied, open)
  BY DEF Group!OthersDraft, Group!Displayed
<1>2. view.plan \in SUBSET Group!Item /\ open \ view.applied \in SUBSET Group!Op
  BY <1>1 DEF GroupInv, GroupShape, Views
<1>3. o \in view.plan \/ o \in open
  BY <1>1, <1>2, EffectOn DEF Group!Project
<1> QED BY <1>1, <1>3 DEF Group!OthersDraft, PrivateInv, Private, Held,
          OpenOwned

Inside(o, plan) == IF intents[o].removes THEN 0 \notin plan ELSE o \in plan
Clean == ~mixed /\ ~bare

(* What the card and the view have applied are rows of somebody. *)
AppliedKnown ==
  /\ \A o \in card.applied : intents[o].owner # NoOne
  /\ \A o \in Group!Op : o \in view.applied => intents[o].owner # NoOne

(* A card in its owner's name shows all the open intents of the owner, of  *)
(* which one at most removes the stop; a card of nobody shows none.        *)
StoreShows == \A o \in Group!Own(card.owner) :
                o \in card.applied /\ Inside(o, card.plan)

OneRemoval == \A o, p \in Group!Op :
  /\ intents[o].state = "open" /\ intents[o].removes
  /\ intents[p].state = "open" /\ intents[p].removes
       /\ intents[p].owner = intents[o].owner
  => o = p

Unowned == card.owner = NoOne => card.applied = {}

(* The same of the view; a recovery that is about to be painted takes away *)
(* no intent that is not listed.                                           *)
ViewShows == \A o \in Group!Own(actor) : o \in view.applied => Inside(o, view.plan)

ViewUnowned ==
  card.owner = NoOne => \A o \in Group!Own(actor) : o \notin view.applied

ChecksListed ==
  \A i \in DOMAIN cardLane : cardLane[i].kind = "check" =>
    /\ \A o \in Group!Own(actor) : o \in view.applied => o \in open
    /\ \A j \in 1 .. i - 1 : cardLane[j].kind = "apply"
         => Group!Own(actor) \subseteq open

ShowInv ==
  /\ AppliedKnown
  /\ Clean => StoreShows /\ OneRemoval /\ Unowned
  /\ Clean /\ reader = actor => ViewShows /\ ViewUnowned /\ ChecksListed

LEMMA ProjectionShows ==
  ASSUME NEW plan \in SUBSET Group!Item, NEW applied \in SUBSET Group!Op,
           NEW wanted \in SUBSET Group!Op,
         NEW o \in Group!Op, o \in wanted \ applied \/ Inside(o, plan)
  PROVE  Inside(o, Group!Project(plan, applied, wanted))
<1>1. 0 \notin Group!Op
  BY Items
<1> QED BY <1>1 DEF Group!Project, Group!Effect, Inside

LEMMA OwnSteps ==
  ASSUME GroupInv, [Group!Next]_(Group!vars), NEW o \in Group!Op,
           NEW who, intents'[o].state = "open",
         intents'[o].owner = who
  PROVE  \/ o \in Group!Own(who) /\ intents'[o].removes = intents[o].removes
         \/ Group!EnqueueCommits /\ reader # NoOne /\ intents[o].owner = NoOne
<1>1. CASE intents[o].owner # NoOne
  BY <1>1, RowsStay DEF GroupInv, Group!Own
<1>2. CASE intents[o].owner = NoOne
  <2>1. intents[o] = Group!Unused
    BY <1>2 DEF GroupInv, RowInv, Known
  <2>2. intents'[o] # intents[o]
    BY <2>1 DEF Group!Unused
  <2> QED BY <1>2, <2>2, RowsStay DEF GroupInv
<1> QED BY <1>1, <1>2

LEMMA FlagsStay ==
  ASSUME GroupInv, [Group!Next]_(Group!vars) PROVE mixed \/ bare => mixed' \/ bare'
<1>1. CASE UNCHANGED <<mixed, bare>>
  BY <1>1
<1>2. CASE Group!EnqueueCommits /\ reader # NoOne
  <2>1. PICK o \in Group!Op, removes \in BOOLEAN : Inserted(o, removes)
    BY <1>2, Enqueued DEF GroupInv, RowInv
  <2>2. /\ mixed' = (mixed \/ card.owner \notin {NoOne, reader})
        /\ bare' = (bare \/ card.owner = NoOne)
    BY <2>1 DEF Inserted
  <2> QED BY <2>2
<1>3. CASE Group!Receipt /\ reader = exchange.who
  <2>1. PICK o \in exchange.left : o \in Group!Op /\ Handled(o)
    BY <1>3, Received DEF GroupInv
  <2>2. mixed' = (mixed \/ card.owner # reader) /\ bare' = bare
    BY <2>1 DEF Handled
  <2> QED BY <2>2
<1> QED BY <1>1, <1>2, <1>3, Movers DEF Group!Receipt, Group!EnqueueCommits,
          Group!Saves

LEMMA KnownStep ==
  ASSUME GroupInv, GroupInv', AppliedKnown, [Group!Next]_(Group!vars)
    PROVE AppliedKnown'
<1>1. \A o \in Group!Op : intents[o].owner # NoOne => intents'[o].owner # NoOne
  BY RowsStay DEF GroupInv
<1>2. \A w : \A o \in Group!Own(w) : o \in Group!Op /\ intents[o].owner # NoOne
  BY DEF Group!Own, GroupInv, RowInv, Known, Group!Unused
<1>3. card \in Cards /\ view \in Views \cup {Group!NoView} /\ card' \in Cards
  BY DEF GroupInv, GroupShape
<1>4. \A o \in card'.applied : intents'[o].owner # NoOne
  <2>1. CASE UNCHANGED card
    BY <1>1, <1>3, <2>1 DEF AppliedKnown, Cards
  <2>2. CASE Group!Saves
    <3>1. \A o \in card'.applied : (\E w : o \in Group!Own(w)) \/ o \in card.applied
      BY <2>2 DEF Group!Saves, Group!Saved, Group!NoCard
    <3> QED BY <1>1, <1>2, <1>3, <3>1 DEF AppliedKnown, Cards
  <2>3. CASE Group!EnqueueCommits /\ reader # NoOne
    <3>1. PICK o \in Group!Op, removes \in BOOLEAN : Inserted(o, removes)
      BY <2>3, Enqueued DEF GroupInv, RowInv
    <3>2. card'.applied = card.applied \cup {o}
      BY <3>1 DEF Inserted
    <3>3. intents'[o].owner = reader
      BY <3>1, Adds DEF GroupInv
    <3> QED BY <1>1, <1>3, <2>3, <3>2, <3>3 DEF AppliedKnown, Cards
  <2>4. CASE Group!Receipt /\ reader = exchange.who
    <3>1. PICK o \in exchange.left : o \in Group!Op /\ Handled(o)
      BY <2>4, Received DEF GroupInv
    <3>2. card' \in {Group!Accepted(o), Group!RefusedWith(o), Group!RefusedBare(o)}
      BY <3>1 DEF Handled
    <3>3. card'.applied \subseteq Group!Own(intents[o].owner)
      BY <1>3, <3>2 DEF Group!Accepted, Group!RefusedWith, Group!RefusedBare,
        Cards
    <3> QED BY <1>1, <1>2, <3>3
  <2> QED BY <2>1, <2>2, <2>3, <2>4, Movers DEF Group!Receipt,
            Group!EnqueueCommits
<1>5. \A o \in Group!Op : o \in view'.applied => intents'[o].owner # NoOne
  <2>1. CASE UNCHANGED view
    BY <1>1, <2>1 DEF AppliedKnown
  <2>2. CASE Group!ApplyReads
    <3>1. view' = view \/ view'.applied = card.applied
      BY <2>2 DEF Group!ApplyReads
    <3> QED BY <1>1, <3>1 DEF AppliedKnown
  <2>3. CASE Group!LoadPaints
    BY <2>3 DEF Group!LoadPaints
  <2>4. CASE Group!IdentityPrepared \/ Group!Crash
    BY <2>4, Items DEF Group!IdentityPrepared, Group!Crash, Group!Fresh,
      Group!NoView
  <2> QED BY <2>1, <2>2, <2>3, <2>4, Movers
<1> QED BY <1>4, <1>5 DEF AppliedKnown

LEMMA CardStep ==
  ASSUME GroupInv, GroupInv', ShowInv, [Group!Next]_(Group!vars), Clean'
  PROVE  Clean /\ (StoreShows /\ OneRemoval /\ Unowned)'
<1>1. Clean /\ StoreShows /\ OneRemoval /\ Unowned
  BY FlagsStay DEF Clean, ShowInv
<1>2. /\ card \in Cards /\ reader \in Who /\ intents \in [Group!Op -> Rows]
      /\ \A w : Group!Own(w) \in SUBSET Group!Op
           /\ \A o \in Group!Own(w) : intents[o].owner = w
      /\ Group!Own(NoOne) = {} /\ 0 \notin Group!Op
  <2>1. card \in Cards /\ reader \in Who /\ intents \in [Group!Op -> Rows]
    BY DEF GroupInv, GroupShape
  <2>2. \A w : Group!Own(w) \in SUBSET Group!Op
          /\ \A o \in Group!Own(w) : intents[o].owner = w
    BY DEF Group!Own
  <2>3. Group!Own(NoOne) = {}
    BY DEF Group!Own, GroupInv, RowInv, Known, Group!Unused
  <2> QED BY <2>1, <2>2, <2>3, Items
<1>3. ASSUME UNCHANGED <<intents, card>>
      PROVE (StoreShows /\ OneRemoval /\ Unowned)'
  BY <1>1, <1>3 DEF StoreShows, OneRemoval, Unowned, Group!Own, Inside
<1>4. CASE Group!EnqueueCommits /\ reader # NoOne
  <2>1. PICK o \in Group!Op, removes \in BOOLEAN : Inserted(o, removes)
    BY <1>4, Enqueued DEF GroupInv, RowInv
  <2>2. card.owner = reader /\ card'.owner = reader
    BY <1>2, <2>1 DEF Inserted, Clean
  <2>3. /\ card'.applied = card.applied \cup {o}
        /\ card'.plan = IF removes THEN card.plan \ {0} ELSE card.plan \cup {o}
        /\ removes => 0 \in card.plan
    BY <2>1 DEF Inserted
  <2>4. /\ intents[o].state = "unused" /\ intents[o].owner = NoOne
        /\ intents'[o].owner = reader /\ intents'[o].removes = removes
        /\ \A p \in Group!Op : p # o => intents'[p] = intents[p]
    BY <2>1, Adds DEF GroupInv
  <2>5. \A p \in Group!Op : p # o /\ intents'[p].state = "open"
          /\ intents'[p].owner = reader
          => p \in card.applied /\ Inside(p, card.plan) /\ p \in Group!Own(reader)
    BY <1>1, <2>2, <2>4 DEF StoreShows, Group!Own
  <2>6. StoreShows'
    <3> SUFFICES ASSUME NEW p \in Group!Op, intents'[p].state = "open",
                          intents'[p].owner = reader
                 PROVE  /\ p \in card'.applied
                        /\ IF intents'[p].removes THEN 0 \notin card'.plan
                           ELSE p \in card'.plan
      BY <2>2 DEF StoreShows, Group!Own, Inside
    <3>1. CASE p = o
      BY <1>2, <2>3, <2>4, <3>1
    <3>2. CASE p # o
      <4>1. intents'[p] = intents[p] /\ p \in card.applied /\ Inside(p, card.plan)
        BY <2>4, <2>5, <3>2
      <4> QED BY <1>2, <2>3, <4>1 DEF Inside
    <3> QED BY <3>1, <3>2
  <2>7. OneRemoval'
    <3> SUFFICES ASSUME NEW p \in Group!Op, NEW q \in Group!Op,
                        intents'[p].state = "open", intents'[p].removes,
                        intents'[q].state = "open", intents'[q].removes,
                        intents'[p].owner = intents'[q].owner
                 PROVE  p = q
      BY DEF OneRemoval
    <3>1. ASSUME NEW r \in Group!Op, r # o, intents'[r].state = "open",
                   intents'[r].removes,
                 intents'[r].owner = reader
          PROVE  ~removes
      <4>1. Inside(r, card.plan) /\ intents[r].removes
        BY <2>4, <2>5, <3>1
      <4> QED BY <2>3, <4>1 DEF Inside
    <3>2. CASE p # o /\ q # o
      <4>1. intents'[p] = intents[p] /\ intents'[q] = intents[q]
        BY <2>4, <3>2
      <4> QED BY <1>1, <4>1 DEF OneRemoval
    <3>3. CASE p = o /\ q # o
      BY <2>4, <3>1, <3>3
    <3>4. CASE q = o /\ p # o
      BY <2>4, <3>1, <3>4
    <3> QED BY <3>2, <3>3, <3>4
  <2> QED BY <1>1, <1>4, <2>2, <2>6, <2>7 DEF Unowned
<1>5. CASE Group!Receipt /\ reader = exchange.who
  <2>1. PICK o \in exchange.left : o \in Group!Op /\ Handled(o)
    BY <1>5, Received DEF GroupInv
  <2>2. /\ intents[o].owner = reader /\ card.owner = reader /\ reader # NoOne
        /\ intents[o].state = "open"
    <3>1. intents[o].owner = reader /\ intents[o].state = "open"
      BY <1>5, <2>1 DEF GroupInv, RowInv, InFlight
    <3>2. mixed' = (mixed \/ card.owner # reader)
      BY <2>1 DEF Handled
    <3>3. card.owner = reader
      BY <3>2 DEF Clean
    <3>4. intents[o].owner # NoOne
      BY <2>1, <3>1 DEF GroupInv, RowInv, Known, Group!Unused
    <3> QED BY <3>1, <3>3, <3>4
  <2> DEFINE others == Group!Own(reader) \ {o}
  <2> DEFINE v == verdict[o].version
  <2>3. intents' = [intents EXCEPT ![o].state =
                  IF verdict[o].answer = "accepted" THEN "settled" ELSE "refused"]
    BY <2>1 DEF Handled
  <2>4. \A p \in Group!Op : /\ p # o => intents'[p] = intents[p]
                            /\ intents'[o].state # "open"
    BY <1>2, <2>1, <2>3
  <2>5. Group!PlanAt(v) \in SUBSET Group!Item /\ others \in SUBSET Group!Op
          /\ {} \in SUBSET Group!Op
    <3>1. v \in 0 .. Group!Now
      BY <2>1 DEF GroupInv, GroupShape, Verdicts
    <3> HIDE DEF v
    <3> QED BY <1>2, <3>1, CardKept DEF GroupInv
  <2>6. /\ card'.owner = reader
        /\ \/ /\ card'.plan = Group!Project(Group!PlanAt(v), {}, others)
              /\ card'.applied = others
           \/ /\ card'.plan = Group!Undo(card.plan, o)
              /\ card'.applied = card.applied \cap others
    <3>1. card' \in {Group!Accepted(o), Group!RefusedWith(o), Group!RefusedBare(o)}
      BY <2>1 DEF Handled
    <3> QED BY <1>2, <2>2, <3>1 DEF Group!Accepted, Group!RefusedWith,
              Group!RefusedBare, Cards
  <2>7. StoreShows'
    <3> SUFFICES ASSUME NEW p \in Group!Op, intents'[p].state = "open",
                          intents'[p].owner = reader
                 PROVE  p \in card'.applied /\ Inside(p, card.plan)'
      BY <2>6 DEF StoreShows, Group!Own
    <3>1. p # o /\ intents'[p] = intents[p]
      BY <2>4
    <3>2. p \in others /\ p \in card.applied /\ Inside(p, card.plan)
      BY <1>1, <2>2, <3>1 DEF StoreShows, Group!Own
    <3>3. CASE card'.plan = Group!Project(Group!PlanAt(v), {}, others) /\ card'.applied = others
      <4>1. p \in others \ {}
        BY <3>2
      <4>2. Inside(p, Group!Project(Group!PlanAt(v), {}, others))
        <5> HIDE DEF v, others
        <5> QED BY <2>5, <4>1, ProjectionShows
      <4> HIDE DEF v, others
      <4> QED BY <3>1, <3>2, <3>3, <4>2 DEF Inside
    <3>4. CASE /\ card'.plan = Group!Undo(card.plan, o)
               /\ card'.applied = card.applied \cap others
      <4>1. ~(intents[p].removes /\ intents[o].removes)
        BY <1>1, <2>1, <2>2, <3>1, <3>2 DEF OneRemoval, Group!Own
      <4> HIDE DEF v, others
      <4> QED BY <1>2, <3>1, <3>2, <3>4, <4>1 DEF Inside, Group!Undo
    <3> QED BY <2>6, <3>3, <3>4
  <2>8. OneRemoval'
    <3> SUFFICES ASSUME NEW p \in Group!Op, NEW q \in Group!Op,
                        intents'[p].state = "open", intents'[p].removes,
                        intents'[q].state = "open", intents'[q].removes,
                        intents'[p].owner = intents'[q].owner
                 PROVE  p = q
      BY DEF OneRemoval
    <3>1. intents'[p] = intents[p] /\ intents'[q] = intents[q]
      BY <2>4
    <3> QED BY <1>1, <3>1 DEF OneRemoval
  <2> QED BY <1>1, <2>2, <2>6, <2>7, <2>8 DEF Unowned
<1>6. CASE Group!Saves
  <2> DEFINE v == Head(cardLane).version
  <2> DEFINE existing == IF Group!Readable(reader) THEN card ELSE Group!NoCard
  <2> DEFINE kept == existing # Group!NoCard /\ v < existing.version
  <2> DEFINE mine == IF reader = NoOne THEN {} ELSE Group!Own(reader)
  <2> DEFINE plan == IF kept THEN existing.plan ELSE Group!PlanAt(v)
  <2> DEFINE applied == IF kept THEN existing.applied ELSE {}
  <2>1. /\ card'.plan = Group!Project(plan, applied, mine) /\ card'.owner = reader
        /\ card'.applied = IF mine = {} THEN applied ELSE mine
        /\ intents' = intents
    BY <1>6 DEF Group!Saves, Group!Saved
  <2>2. kept => card.owner \in {NoOne, reader} /\ existing = card
    BY DEF Group!Readable
  <2>3. Group!PlanAt(v) \in SUBSET Group!Item
    <3>1. cardLane \in Seq(Requests) /\ cardLane # <<>>
      BY <1>6 DEF Group!Saves, GroupInv, GroupShape
    <3>2. Head(cardLane) \in Requests
      BY <3>1, HeadTailProperties
    <3>3. v \in 0 .. Group!Now
      BY <3>2 DEF Requests
    <3> HIDE DEF v
    <3> QED BY <3>3, CardKept DEF GroupInv
  <2> HIDE DEF v, existing, kept
  <2>4. plan \in SUBSET Group!Item /\ applied \in SUBSET Group!Op
          /\ mine \in SUBSET Group!Op
    BY <1>2, <2>2, <2>3 DEF Cards
  <2>5. mine = Group!Own(reader)
    BY <1>2
  <2>6. \A p \in mine : p \in mine \ applied \/ Inside(p, plan)
    <3> SUFFICES ASSUME NEW p \in Group!Own(reader), p \in applied
        PROVE Inside(p, plan)
      BY <2>5
    <3>1. kept /\ p \in card.applied /\ plan = card.plan
      BY <2>2
    <3>2. card.owner = reader
      BY <1>1, <2>2, <3>1 DEF Unowned
    <3> QED BY <1>1, <3>1, <3>2 DEF StoreShows
  <2>8. reader = NoOne => applied = {}
    BY <1>1, <2>2 DEF Unowned
  <2> HIDE DEF plan, applied, mine
  <2>7. \A p \in mine : Inside(p, Group!Project(plan, applied, mine))
    BY <2>4, <2>6, ProjectionShows
  <2>9. StoreShows'
    BY <2>1, <2>5, <2>7 DEF StoreShows, Group!Own, Inside
  <2>10. OneRemoval'
    BY <1>1, <2>1 DEF OneRemoval
  <2>11. Unowned'
    BY <1>2, <2>1, <2>5, <2>8 DEF Unowned
  <2> QED BY <1>1, <2>9, <2>10, <2>11
<1> QED BY <1>1, <1>3, <1>4, <1>5, <1>6, Movers DEF Group!Receipt,
          Group!EnqueueCommits

LEMMA ViewStep ==
  ASSUME GroupInv, GroupInv', ShowInv, [Group!Next]_(Group!vars), Clean',
           reader' = actor'
  PROVE  (ViewShows /\ ViewUnowned)'
<1>1. Clean /\ StoreShows /\ Unowned /\ AppliedKnown
  BY CardStep DEF ShowInv
<1>2. CASE Group!IdentityPrepared \/ Group!Crash
  <2>1. view'.applied = {-1}
    BY <1>2 DEF Group!IdentityPrepared, Group!Crash, Group!Fresh, Group!NoView
  <2>2. \A o \in Group!Own(actor)' : o \in Group!Op
    BY DEF Group!Own
  <2> QED BY <2>1, <2>2, Items DEF ViewShows, ViewUnowned
<1>3. CASE ~(Group!IdentityPrepared \/ Group!Crash)
  <2>1. reader = actor /\ reader' = reader /\ actor' = actor
    BY <1>3, Movers DEF Group!SessionChanges
  <2>2. ViewShows /\ ViewUnowned
    BY <1>1, <2>1 DEF ShowInv
  <2>3. CASE Group!ApplyReads
    <3>1. intents' = intents /\ card' = card
      BY <2>3 DEF Group!ApplyReads
    <3>2. CASE Group!Readable(reader)
      <4>1. /\ view'.plan = card.plan /\ view'.applied = card.applied
            /\ card.owner = reader \/ card.applied = {}
        BY <1>1, <2>3, <3>2 DEF Group!ApplyReads, Group!Readable, Unowned
      <4>2. ViewShows'
        BY <1>1, <2>1, <3>1, <4>1 DEF ViewShows, StoreShows, Group!Own, Inside
      <4>3. ViewUnowned'
        BY <1>1, <3>1, <4>1 DEF ViewUnowned, Unowned
      <4> QED BY <4>2, <4>3
    <3>3. CASE ~Group!Readable(reader)
      <4>1. view' = view
        BY <2>3, <3>3 DEF Group!ApplyReads
      <4> QED BY <2>1, <2>2, <3>1, <4>1 DEF ViewShows, ViewUnowned, Group!Own,
                Inside
    <3> QED BY <3>2, <3>3
  <2>4. CASE Group!LoadPaints
    <3>1. view'.applied = {}
      BY <2>4 DEF Group!LoadPaints
    <3> QED BY <3>1 DEF ViewShows, ViewUnowned
  <2>5. CASE UNCHANGED view
    <3>1. \A o \in Group!Op : intents'[o].state = "open"
            /\ intents'[o].owner = actor
                        /\ o \in view.applied
            => o \in Group!Own(actor) /\ intents'[o].removes = intents[o].removes
      BY <1>1, OwnSteps DEF AppliedKnown
    <3>2. ViewShows'
      BY <2>1, <2>2, <2>5, <3>1 DEF ViewShows, Group!Own, Inside
    <3>3. card'.owner = NoOne => card.owner = NoOne \/ Group!Own(actor) = {}
      <4>1. Group!Own(NoOne) = {}
        BY DEF Group!Own, GroupInv, RowInv, Known, Group!Unused
      <4>2. CASE Group!Saves
        BY <2>1, <4>1, <4>2 DEF Group!Saves, Group!Saved
      <4>3. CASE Group!EnqueueCommits /\ reader # NoOne
        <5>1. PICK o \in Group!Op, removes \in BOOLEAN : Inserted(o, removes)
          BY <4>3, Enqueued DEF GroupInv, RowInv
        <5>2. card'.owner = reader
          BY <5>1 DEF Inserted
        <5> QED BY <4>3, <5>2
      <4>4. CASE Group!Receipt /\ reader = exchange.who
        <5>1. PICK o \in exchange.left : o \in Group!Op /\ Handled(o)
          BY <4>4, Received DEF GroupInv
        <5>2. card' \in {Group!Accepted(o), Group!RefusedWith(o), Group!RefusedBare(o)}
          BY <5>1 DEF Handled
        <5>3. card'.owner = card.owner
          BY <5>2 DEF Group!Accepted, Group!RefusedWith, Group!RefusedBare,
            GroupInv, GroupShape, Cards
        <5> QED BY <5>3
      <4> QED BY <4>2, <4>3, <4>4, Movers DEF Group!Receipt,
                Group!EnqueueCommits
    <3>4. ViewUnowned'
      BY <2>1, <2>2, <2>5, <3>1, <3>3 DEF ViewUnowned, Group!Own
    <3> QED BY <3>2, <3>4
  <2> QED BY <1>3, <2>3, <2>4, <2>5, Movers
<1> QED BY <1>2, <1>3

(* The requests of the lane after a step. *)
LEMMA Shifted ==
  ASSUME GroupShape, cardLane # <<>>
  PROVE  /\ Tail(cardLane) \in Seq(Requests) /\ Head(cardLane) = cardLane[1]
         /\ \A i \in DOMAIN Tail(cardLane) :
              i \in Nat \ {0} /\ i + 1 \in DOMAIN cardLane
                  /\ Tail(cardLane)[i] = cardLane[i + 1]
<1>1. cardLane \in Seq(Requests)
  BY DEF GroupShape
<1> QED BY <1>1, HeadTailProperties

LEMMA PaintsLast ==
  ASSUME GroupShape, NEW i \in DOMAIN Group!Painting,
           Group!Painting[i].kind = "check"
  PROVE  /\ i \in DOMAIN cardLane /\ cardLane[i].kind = "check"
         /\ \A j \in 1 .. i - 1 : Group!Painting[j].kind # "apply"
<1> DEFINE w == Group!Without({"apply"})
<1>1. /\ w \in Seq(Requests) /\ Len(w) = Len(cardLane) /\ Len(cardLane) \in Nat
      /\ DOMAIN cardLane = 1 .. Len(cardLane)
  BY Queued DEF GroupShape
<1>2. \A j \in DOMAIN cardLane : w[j] = IF cardLane[j].kind \in {"apply"}
                                    THEN [kind |-> "none", version |-> 0] ELSE cardLane[j]
  BY DEF Group!Without
<1>3. [kind |-> "apply", version |-> 0] \in Requests
  BY Queued DEF Requests
<1> HIDE DEF w
<1>4. /\ DOMAIN Group!Painting = 1 .. Len(cardLane) + 1
      /\ Group!Painting[Len(cardLane) + 1] = [kind |-> "apply", version |-> 0]
      /\ \A j \in 1 .. Len(cardLane) : Group!Painting[j] = w[j]
  BY <1>1, <1>3 DEF Group!Painting, w
<1>5. i \in 1 .. Len(cardLane)
  BY <1>1, <1>4
<1>6. \A j \in 1 .. i - 1 : j \in 1 .. Len(cardLane)
  BY <1>1, <1>5
<1> QED BY <1>1, <1>2, <1>4, <1>5, <1>6

LEMMA ChecksStep ==
  ASSUME GroupInv, GroupInv', ShowInv, [Group!Next]_(Group!vars), Clean',
           reader' = actor'
  PROVE  ChecksListed'
<1>0. Clean /\ AppliedKnown
  BY CardStep DEF ShowInv
<1>1. /\ cardLane \in Seq(Requests) /\ DOMAIN cardLane = 1 .. Len(cardLane)
      /\ Len(cardLane) \in Nat
  BY DEF GroupInv, GroupShape
<1>2. CASE Group!IdentityPrepared
  <2> SUFFICES ASSUME NEW i \in DOMAIN cardLane',
                        cardLane'[i].kind = "check" PROVE FALSE
    BY DEF ChecksListed
  <2> DEFINE w == Group!Without({"apply", "check"})
  <2>1. /\ w \in Seq(Requests) /\ Len(w) = Len(cardLane)
        /\ \A j \in 1 .. Len(cardLane) : w[j].kind # "check"
    BY <1>1, Queued DEF Group!Without, GroupInv
  <2>2. /\ Group!Hydration(reader) \in Seq(Requests)
        /\ \A j \in DOMAIN Group!Hydration(reader) : Group!Hydration(reader)[j].kind # "check"
    <3>1. \A j \in DOMAIN Group!Hydration(reader) : Group!Hydration(reader)[j].kind # "check"
      BY DEF Group!Hydration
    <3> QED BY <3>1, Queued, Hydrates DEF GroupInv
  <2>3. cardLane' = w \o Group!Hydration(reader)
    BY <1>2 DEF Group!IdentityPrepared, Group!Fresh
  <2> HIDE DEF w
  <2> QED BY <1>1, <2>1, <2>2, <2>3, ConcatProperties
<1>3. CASE Group!Crash
  <2>1. cardLane' = <<>> \o Group!Hydration(reader)
    BY <1>3 DEF Group!Crash, Group!Fresh
  <2>2. <<>> \o Group!Hydration(reader) = Group!Hydration(reader)
    BY Queued, Hydrates, ConcatEmptySeq DEF GroupInv
  <2> QED BY <2>1, <2>2 DEF Group!Hydration, ChecksListed
<1>4. CASE ~(Group!IdentityPrepared \/ Group!Crash)
  <2>1. reader = actor /\ reader' = reader /\ actor' = actor
    BY <1>4, Movers DEF Group!SessionChanges
  <2>2. ViewShows /\ ViewUnowned /\ ChecksListed
    BY <1>0, <2>1 DEF ShowInv
  <2>3. \A o \in Group!Op : intents'[o].state = "open" /\ intents'[o].owner = actor
                      /\ o \in view.applied
          => o \in Group!Own(actor)
    BY <1>0, OwnSteps DEF AppliedKnown
  <2>4. ASSUME UNCHANGED intents PROVE Group!Own(actor)' = Group!Own(actor)
    BY <2>1, <2>4 DEF Group!Own
  <2>5. ASSUME UNCHANGED intents, Group!Own(actor) \subseteq open'
        PROVE ChecksListed'
    BY <2>4, <2>5 DEF ChecksListed
  <2>6. CASE Group!Relists \/ Group!LoadLists \/ Group!LoadCloses
    <3>1. open' = Group!Own(reader) /\ UNCHANGED intents
      BY <2>1, <2>6 DEF Group!Relists, Group!LoadLists, Group!LoadCloses,
        Group!Listed
    <3> QED BY <2>1, <2>5, <3>1
  <2>7. CASE \/ (Group!Receipt /\ reader = exchange.who)
             \/ (Group!EnqueueCommits /\ reader # NoOne)
    <3>1. cardLane' = Group!Painting /\ open' = open /\ view' = view
      <4>1. CASE Group!Receipt /\ reader = exchange.who
        BY <4>1 DEF Group!Receipt, Group!paintVars
      <4>2. CASE Group!EnqueueCommits /\ reader # NoOne
        BY <4>2 DEF Group!EnqueueCommits, Group!paintVars
      <4> QED BY <2>7, <4>1, <4>2
    <3> SUFFICES ASSUME NEW i \in DOMAIN Group!Painting,
                          Group!Painting[i].kind = "check"
                 PROVE  /\ \A o \in Group!Own(actor)' : o \in view.applied
                             => o \in open
                        /\ \A j \in 1 .. i - 1 : Group!Painting[j].kind # "apply"
      BY <3>1 DEF ChecksListed
    <3>2. /\ i \in DOMAIN cardLane /\ cardLane[i].kind = "check"
          /\ \A j \in 1 .. i - 1 : Group!Painting[j].kind # "apply"
      BY PaintsLast DEF GroupInv
    <3> QED BY <2>1, <2>2, <2>3, <3>2 DEF ChecksListed, Group!Own
  <2>8. CASE Group!ApplyReads
    <3>1. /\ cardLane # <<>> /\ Head(cardLane).kind = "apply"
               /\ cardLane' = Tail(cardLane)
          /\ UNCHANGED <<intents, open>>
      BY <2>8 DEF Group!ApplyReads
    <3> SUFFICES ASSUME NEW i \in DOMAIN Tail(cardLane),
                          Tail(cardLane)[i].kind = "check"
                 PROVE  ChecksListed'
      BY <3>1 DEF ChecksListed
    <3>2. /\ i + 1 \in DOMAIN cardLane /\ cardLane[i + 1].kind = "check"
          /\ cardLane[1].kind = "apply" /\ 1 \in 1 .. (i + 1) - 1
      BY <3>1, Shifted DEF GroupInv
    <3>3. Group!Own(actor) \subseteq open
      BY <2>2, <3>2 DEF ChecksListed
    <3> QED BY <2>5, <3>1, <3>3
  <2>9. CASE (Group!Overtaken \/ Group!Saves \/ Group!LoadPaints)
    <3>1. /\ cardLane # <<>> /\ UNCHANGED <<intents, open>>
          /\ view' = view \/ view'.applied = {}
      BY <2>9 DEF Group!Overtaken, Group!Saves, Group!LoadPaints,
        Group!paintVars
    <3> DEFINE last == [kind |-> "save", version |-> load.version]
    <3>2. cardLane' = Tail(cardLane) \/ cardLane' = Append(Tail(cardLane), last)
      BY <2>9 DEF Group!Overtaken, Group!Saves, Group!LoadPaints
    <3>3. Tail(cardLane) \in Seq(Requests) /\ last \in Requests
      BY <3>1, Shifted DEF GroupInv, GroupShape, Loads, Requests
    <3>4. \A i \in DOMAIN cardLane' : cardLane'[i].kind \in {"check", "apply"} =>
            i \in DOMAIN Tail(cardLane) /\ cardLane'[i] = Tail(cardLane)[i]
      <4>1. last.kind = "save"
        OBVIOUS
      <4> HIDE DEF last
      <4>2. CASE cardLane' = Tail(cardLane)
        BY <4>2
      <4>3. CASE cardLane' = Append(Tail(cardLane), last)
        <5>1. /\ DOMAIN cardLane' = 1 .. Len(Tail(cardLane)) + 1
              /\ cardLane'[Len(Tail(cardLane)) + 1] = last
              /\ \A i \in 1 .. Len(Tail(cardLane)) : cardLane'[i] = Tail(cardLane)[i]
              /\ DOMAIN Tail(cardLane) = 1 .. Len(Tail(cardLane))
              /\ Len(Tail(cardLane)) \in Nat
          BY <3>3, <4>3
        <5> QED BY <4>1, <5>1
      <4> QED BY <3>2, <4>2, <4>3
    <3>5. \A i \in DOMAIN cardLane' : cardLane'[i].kind \in {"check", "apply"} =>
            /\ i \in Nat \ {0} /\ i + 1 \in DOMAIN cardLane
            /\ cardLane'[i] = cardLane[i + 1]
      BY <3>1, <3>4, Shifted DEF GroupInv
    <3> SUFFICES ASSUME NEW i \in DOMAIN cardLane', cardLane'[i].kind = "check"
                 PROVE  /\ \A o \in Group!Own(actor) : o \in view'.applied
                             => o \in open
                        /\ \A j \in 1 .. i - 1 : cardLane'[j].kind = "apply"
                             => Group!Own(actor) \subseteq open
      BY <2>4, <3>1 DEF ChecksListed
    <3>6. i \in Nat \ {0} /\ i + 1 \in DOMAIN cardLane
            /\ cardLane[i + 1].kind = "check"
      BY <3>5
    <3>7. \A o \in Group!Own(actor) : o \in view.applied => o \in open
      BY <2>2, <3>6 DEF ChecksListed
    <3>8. ASSUME NEW j \in 1 .. i - 1, cardLane'[j].kind = "apply"
          PROVE  Group!Own(actor) \subseteq open
      <4>1. j \in DOMAIN cardLane'
        <5>1. \E n \in Nat : DOMAIN cardLane' = 1 .. n
          BY DEF GroupInv, GroupShape
        <5> QED BY <3>6, <5>1
      <4>2. cardLane[j + 1].kind = "apply" /\ j + 1 \in 1 .. (i + 1) - 1
        BY <3>5, <3>6, <3>8, <4>1
      <4> QED BY <2>2, <3>6, <4>2 DEF ChecksListed
    <3> QED BY <3>1, <3>7, <3>8
  <2>10. CASE UNCHANGED <<cardLane, open, view>>
    <3> SUFFICES ASSUME NEW i \in DOMAIN cardLane, cardLane[i].kind = "check"
                 PROVE  /\ \A o \in Group!Own(actor)' : o \in view.applied
                             => o \in open
                        /\ \A j \in 1 .. i - 1 : cardLane[j].kind = "apply"
                             => Group!Own(actor)' \subseteq open
      BY <2>10 DEF ChecksListed
    <3>1. Group!Own(actor)' \subseteq Group!Own(actor)
            \/ (Group!EnqueueCommits /\ reader # NoOne)
      BY <2>1, OwnSteps DEF Group!Own
    <3> QED BY <2>1, <2>2, <2>3, <2>7, <2>10, <3>1 DEF ChecksListed, Group!Own
  <2>11. ~(Group!Relists \/ Group!LoadLists \/ Group!LoadCloses \/ Group!ApplyReads \/ Group!Overtaken
           \/ Group!Saves \/ Group!LoadPaints
           \/ (Group!Receipt /\ reader = exchange.who)
           \/ (Group!EnqueueCommits /\ reader # NoOne))
         => open' = open /\ view' = view /\ cardLane' = cardLane
    <3>1. Group!Receipt /\ reader # exchange.who => cardLane' = cardLane
      BY DEF Group!Receipt
    <3>2. Group!EnqueueCommits /\ reader = NoOne => cardLane' = cardLane
      BY DEF Group!EnqueueCommits
    <3> QED BY <1>4, <3>1, <3>2, Movers
  <2> QED BY <2>6, <2>7, <2>8, <2>9, <2>10, <2>11
<1> QED BY <1>2, <1>3, <1>4

LEMMA ShowStep ==
  ASSUME GroupInv, GroupInv', ShowInv, [Group!Next]_(Group!vars) PROVE ShowInv'
<1>1. AppliedKnown'
  BY KnownStep DEF ShowInv
<1>2. Clean' => (StoreShows /\ OneRemoval /\ Unowned)'
  BY CardStep
<1>3. Clean' /\ reader' = actor' => (ViewShows /\ ViewUnowned /\ ChecksListed)'
  BY ViewStep, ChecksStep
<1> QED BY <1>1, <1>2, <1>3 DEF ShowInv

Keeps(o) ==
  /\ Group!Shown(o) /\ reader = actor /\ ~mixed /\ ~bare
  /\ intents'[o].state = "open" /\ actor' = actor /\ view' # Group!NoView
  => Group!Shown(o)'

LEMMA KeepStep ==
  ASSUME GroupInv, GroupInv', ShowInv, ShowInv', PrivateInv,
           [Group!Next]_(Group!vars)
  PROVE  \A o \in Group!Op : Keeps(o)
<1> SUFFICES ASSUME NEW o \in Group!Op, Group!Shown(o), reader = actor, Clean,
                    intents'[o].state = "open", actor' = actor, view' # Group!NoView
             PROVE  Group!Shown(o)'
  BY DEF Keeps, Clean
<1>1. /\ intents[o].owner = actor /\ intents[o].state = "open"
           /\ view # Group!NoView
      /\ o \in open \cup view.applied /\ o \in Group!Own(actor)
  BY DEF Group!Shown, Group!Own
<1>2. intents[o].owner # NoOne
  BY <1>1 DEF GroupInv, RowInv, Known, Group!Unused
<1>3. intents'[o].owner = actor' /\ intents'[o].removes = intents[o].removes
  BY <1>1, <1>2, RowsStay DEF GroupInv
<1>4. /\ view \in Views /\ open \in SUBSET Group!Op
      /\ view' \in Views /\ open' \in SUBSET Group!Op
  BY <1>1 DEF GroupInv, GroupShape
<1>5. CASE UNCHANGED <<view, open>>
  <2>1. \A p \in open : intents'[p].removes = intents[p].removes
    BY <1>4, RowsStay DEF GroupInv, PrivateInv, OpenOwned
  <2>2. Group!Displayed' = Group!Displayed
    BY <1>1, <1>5, <2>1 DEF Group!Displayed, Group!Project, Group!Effect
  <2> QED BY <1>1, <1>3, <1>5, <2>2 DEF Group!Shown
<1>6. CASE ~UNCHANGED <<view, open>>
  <2>1. \/ Group!Relists \/ Group!LoadLists \/ Group!LoadCloses
        \/ Group!ApplyReads \/ Group!LoadPaints
    <3>1. ~Group!Crash /\ ~Group!IdentityPrepared
      BY DEF Group!Crash, Group!IdentityPrepared, Group!Fresh
    <3> QED BY <1>6, <3>1, Movers
  <2>2. reader' = reader /\ intents' = intents /\ card' = card /\ Clean'
    <3>1. UNCHANGED <<reader, intents, card, mixed, bare>>
      <4>1. CASE Group!Relists \/ Group!LoadCloses
        BY <4>1 DEF Group!Relists, Group!LoadCloses
      <4>2. CASE Group!LoadLists
        BY <4>2 DEF Group!LoadLists
      <4>3. CASE Group!ApplyReads \/ Group!LoadPaints
        BY <4>3 DEF Group!ApplyReads, Group!LoadPaints
      <4> QED BY <2>1, <4>1, <4>2, <4>3
    <3> QED BY <3>1 DEF Clean
  <2>3. o \in open' \cup view'.applied
    <3>1. CASE Group!Relists \/ Group!LoadLists \/ Group!LoadCloses
      <4>1. open' = Group!Own(reader)
        BY <3>1 DEF Group!Relists, Group!LoadLists, Group!LoadCloses,
          Group!Listed
      <4> QED BY <1>1, <4>1
    <3>2. CASE Group!ApplyReads
      <4>1. open' = open
        BY <3>2 DEF Group!ApplyReads
      <4>2. CASE Group!Readable(reader)
        <5>1. view'.applied = card.applied /\ card.owner \in {NoOne, reader}
          BY <3>2, <4>2 DEF Group!ApplyReads, Group!Readable
        <5>2. CASE card.owner = NoOne
          BY <1>1, <4>1, <5>2 DEF ShowInv, ViewUnowned
        <5>3. CASE card.owner = reader
          BY <1>1, <5>1, <5>3 DEF ShowInv, StoreShows
        <5> QED BY <5>1, <5>2, <5>3
      <4>3. CASE ~Group!Readable(reader)
        BY <1>1, <3>2, <4>1, <4>3 DEF Group!ApplyReads
      <4> QED BY <4>2, <4>3
    <3>3. CASE Group!LoadPaints
      <4>1. /\ cardLane # <<>> /\ Head(cardLane).kind = "check" /\ open' = open
        BY <3>3 DEF Group!LoadPaints
      <4>2. 1 \in DOMAIN cardLane /\ cardLane[1].kind = "check"
        <5>1. cardLane \in Seq(Requests)
          BY DEF GroupInv, GroupShape
        <5> QED BY <4>1, <5>1
      <4>3. o \in view.applied => o \in open
        BY <1>1, <4>2 DEF ShowInv, ChecksListed
      <4> QED BY <1>1, <4>1, <4>3
    <3> QED BY <2>1, <3>1, <3>2, <3>3
  <2>4. o \in view'.applied => Inside(o, view.plan)'
    <3>1. ViewShows'
      BY <2>2 DEF ShowInv
    <3>2. o \in Group!Own(actor)'
      BY <1>3 DEF Group!Own
    <3> QED BY <3>1, <3>2 DEF ViewShows
  <2>5. o \in open' \ view'.applied \/ Inside(o, view'.plan)
    BY <2>2, <2>3, <2>4 DEF Inside
  <2>6. Inside(o, Group!Project(view'.plan, view'.applied, open'))
    <3>1. view'.plan \in SUBSET Group!Item /\ view'.applied \in SUBSET Group!Op
      BY <1>4 DEF Views
    <3> QED BY <1>4, <2>5, <3>1, ProjectionShows
  <2>7. Group!Displayed' = Group!Project(view'.plan, view'.applied, open')
    BY <2>2 DEF Group!Displayed, Group!Project, Group!Effect
  <2> QED BY <1>3, <2>2, <2>3, <2>6, <2>7 DEF Group!Shown, Inside
<1> QED BY <1>5, <1>6

LEMMA GroupStarts == Group!Init => GroupInv /\ PrivateInv /\ ShowInv
<1> SUFFICES ASSUME Group!Init PROVE GroupInv /\ PrivateInv /\ ShowInv
  OBVIOUS
<1>1. \A o \in Group!Op : intents[o] = Group!Unused /\ verdict[o].answer = "none"
  BY DEF Group!Init, Group!Unjudged
<1>2. history = << {0} >> /\ 0 \notin Group!Op /\ -1 \notin Group!Op
  BY Items DEF Group!Init
<1>3. /\ card = Group!NoCard /\ view = Group!NoView /\ open = {}
           /\ exchange = Group!NoFlight
      /\ writer = NoOne /\ cardLane = Group!Hydration(actor)
  BY DEF Group!Init
<1>4. Committed
  BY <1>2 DEF Committed
<1>5. RowInv
  BY <1>1, <1>3 DEF RowInv, Known, InFlight, Room, Judged, Group!NoFlight,
    Group!Unused
<1>6. PrivateInv
  BY <1>3 DEF PrivateInv, Private, OpenOwned, Group!NoCard
<1>7. \A who : Group!Own(who) = {}
  BY <1>1 DEF Group!Own, Group!Unused
<1>8. ShowInv
  <2>1. AppliedKnown
    BY <1>2, <1>3 DEF AppliedKnown, Group!NoCard, Group!NoView
  <2>2. StoreShows /\ OneRemoval /\ Unowned
    BY <1>1, <1>3, <1>7 DEF StoreShows, OneRemoval, Unowned, Group!NoCard,
      Group!Unused
  <2>3. ViewShows /\ ViewUnowned
    BY <1>7 DEF ViewShows, ViewUnowned
  <2>4. ChecksListed
    BY <1>3 DEF ChecksListed, Group!Hydration
  <2> QED BY <2>1, <2>2, <2>3, <2>4 DEF ShowInv
<1> QED BY <1>4, <1>5, <1>6, <1>8, GroupInit DEF GroupInv

LEMMA GroupSafe == Group!Spec => [](GroupInv /\ PrivateInv /\ ShowInv)
<1>1. GroupInv /\ [Group!Next]_(Group!vars) => GroupInv'
  BY GroupTypes, ServerGrows, RowsNext DEF GroupInv, RowInv
<1>2. GroupInv /\ PrivateInv /\ ShowInv /\ [Group!Next]_(Group!vars)
        => (GroupInv /\ PrivateInv /\ ShowInv)'
  BY <1>1, PrivateStep, ShowStep
<1> QED BY <1>2, GroupStarts, PTL DEF Group!Spec

LEMMA GroupTyped == ASSUME GroupInv PROVE Group!TypeOK
<1>1. GroupShape /\ RowInv
  BY DEF GroupInv
<1> USE DEF GroupShape
<1>2. history # <<>> /\ \A v \in DOMAIN history : history[v] \subseteq Group!Item
  BY <1>1
<1>3. verdict \in [Group!Op -> [answer : {"none", "accepted", "refused"},
                          version : 0 .. Group!Now]]
  BY <1>1 DEF Verdicts
<1>4. intents \in [Group!Op -> [state : {"unused", "open", "settled", "refused"},
                      owner : Accounts \union {NoOne}, removes : BOOLEAN]]
  BY <1>1 DEF Rows, Who
<1>5. /\ card.owner \in Accounts \union {NoOne}
      /\ card.plan \subseteq Group!Item /\ card.applied \subseteq Group!Op
  BY <1>1 DEF Cards, Who
<1>6. view # Group!NoView
        => view.plan \subseteq Group!Item /\ view.applied \subseteq Group!Op
  BY <1>1 DEF Views
<1>7. open \subseteq Group!Op /\ newest \in 0 .. Group!Now
        /\ supplied \subseteq 0 .. Group!Now
  BY <1>1
<1>8. \A i \in DOMAIN cardLane : cardLane[i].version \in 0 .. Group!Now
  <2>1. \A i \in DOMAIN cardLane : cardLane[i] \in Requests
    BY <1>1
  <2> QED BY <2>1 DEF Requests
<1>9. /\ load.phase \in {"none", "asked", "served", "reading", "saving", "closing"}
      /\ load.version \in 0 .. Group!Now /\ exchange.version \in 0 .. Group!Now
      /\ exchange.left \subseteq Group!Op
           /\ exchange.who \in Accounts \union {NoOne}
  BY <1>1 DEF Loads, Flights, Who
<1>10. reader \in Accounts \union {NoOne} /\ actor \in Accounts \union {NoOne}
  BY <1>1 DEF Who
<1> QED BY <1>2, <1>3, <1>4, <1>5, <1>6, <1>7, <1>8, <1>9, <1>10 DEF
          Group!TypeOK

-----------------------------------------------------------------------------
(* The properties of the composition *)

LEMMA GroupOf == Spec => Group!Spec
<1>1. Init => Group!Init
  BY DEF Init
<1>2. [Next]_vars => [Group!Next]_(Group!vars)
  BY DEF Next, vars, groupVars, Group!vars, Group!serverVars, Group!paintVars,
         Group!loadVars
<1> QED BY <1>1, <1>2, PTL DEF Spec, Group!Spec

(* What the screens show of another account's operation the server has     *)
(* accepted, unless a card was written under another account's name: for   *)
(* any number of accounts, operations, edits, crashes and lost replies.    *)
THEOREM DraftsArePrivate == Spec => []DraftsPrivate
<1>1. GroupInv /\ PrivateInv => Group!DraftsPrivate
  BY DraftsHeld
<1>2. Group!DraftsPrivate => DraftsPrivate
  BY DEF DraftsPrivate
<1> QED BY <1>1, <1>2, GroupSafe, GroupOf, PTL

(* An intent on the screen stays there until the server has judged it,     *)
(* unless an operation was written on a card that is not the account's.    *)
THEOREM IntentsStay == Spec => IntentKept
<1> DEFINE I == GroupInv /\ PrivateInv /\ ShowInv
<1>1. I /\ I' /\ [Group!Next]_(Group!vars)
        => [\A o \in Group!Op : Keeps(o)]_(Group!vars)
  BY KeepStep
<1>2. Group!Spec => []I
  BY GroupSafe
<1>3. Group!Spec => [][\A o \in Group!Op : Keeps(o)]_(Group!vars)
  <2> HIDE DEF I
  <2> QED BY <1>1, <1>2, PTL DEF Group!Spec
<1> QED BY <1>3, GroupOf DEF IntentKept, Group!IntentKept, Keeps

(* Every part of the composition is typed. *)
THEOREM IdentityTypes == Spec => []TypeOK
<1>1. Location!Spec => []Location!TypeOK
  BY Location!LocationTypes, IdentityAssumption DEF IdentityAssumption
<1>2. Token!Spec => []Token!TypeOK
  BY Token!CapabilitiesTypes, IdentityAssumption DEF IdentityAssumption
<1>3. Auth!Spec => []Auth!TypeOK
  BY Auth!SessionTypes, IdentityAssumption DEF IdentityAssumption
<1>4. Trip!Spec => []Trip!TypeOK
  BY Trip!TripTypes, IdentityAssumption DEF IdentityAssumption
<1>5. GroupInv => Group!TypeOK
  BY GroupTyped
<1>6. /\ Location!TypeOK /\ Token!TypeOK /\ Auth!TypeOK
      /\ Group!TypeOK /\ Trip!TypeOK
      => TypeOK
  BY DEF TypeOK
<1> QED BY <1>1, <1>2, <1>3, <1>4, <1>5, <1>6, GroupSafe, LocationOf, TokenOf,
           AuthOf, GroupOf, TripOf, PTL

=============================================================================
