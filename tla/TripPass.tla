------------------------------ MODULE TripPass ------------------------------
(***************************************************************************)
(* The Small Trip Pass, a consumable that is bought from the store for a   *)
(* group: the purchase flow and its recovery on the device                 *)
(* (premiumPurchaseFlow.ts, native/purchases.ts), and on the server the    *)
(* grant, the refunds the store notifies, and the one slot of a group,     *)
(* which promo passes share (20261022100000_trip_storekit_revocation.sql). *)
(*                                                                         *)
(* A pass is a store transaction, numbered in the order of purchase, which *)
(* is also the order of expiry: passes up to "lapsed" are over.  Every     *)
(* server procedure is one step: it holds the lock of the transaction and  *)
(* of the group to its commit.                                             *)
(*                                                                         *)
(* How a transaction reaches the device (the waiters of native/purchases,  *)
(* the events no waiter took, the queue of the store) is abstracted: a     *)
(* settlement may start for any transaction that is not finished.          *)
(***************************************************************************)
EXTENDS Naturals, Sequences, FiniteSets, FiniteSetsExt

CONSTANTS
  Accounts, Groups, NoOne, NoGroup,
  Passes,             \* how many passes are sold
  MaxNotes,           \* notifications of the store
  MaxTroubles         \* lost requests and answers, kills, revocations, promo
                      \* passes, changes of account, of group and of members

TripAssumption ==
  /\ NoOne \notin Accounts /\ NoGroup \notin Groups
  /\ {Passes, MaxNotes, MaxTroubles} \subseteq Nat

Pass == 1..Passes
Note == Pass \X (1..MaxNotes)
NoJob == [phase |-> "none", group |-> NoGroup, who |-> NoOne, good |-> FALSE]
NoRow == [group |-> NoGroup, owner |-> NoOne, status |-> "none"]

VARIABLES
  user, place,   \* the account signed in, the group its screens are in
  sold,          \* the account token of each transaction of the store
  finished,      \* transactions finished at the store
  notes,         \* what the store signed about a transaction, in that order
  lapsed,        \* passes up to this one have expired
  jobs,          \* settlements in flight, by transaction
  late,          \* requests the device no longer waits for
  rows,          \* trip_entitlements
  promo,         \* the promo pass of a group
  leader,        \* of each group
  fits,          \* groups of two to five members without a subscription
  accepted,      \* premium_store_notifications that took effect
  troubles

requestVars == <<jobs, late>>
storeVars == <<sold, finished, notes, lapsed>>
serverVars == <<rows, promo, accepted>>
worldVars == <<user, place, leader, fits>>
vars == <<requestVars, storeVars, serverVars, worldVars, troubles>>

Sold == {p \in Pass : sold[p] # NoOne}
Status == {"none", "active", "expired", "refunded", "revoked", "invalid"}

TypeOK ==
  /\ user \in Accounts \cup {NoOne} /\ place \in Groups \cup {NoGroup}
  /\ sold \in [Pass -> Accounts \cup {NoOne}]
  /\ leader \in [Groups -> Accounts \cup {NoOne}] /\ fits \subseteq Groups
  /\ finished \subseteq Sold
  /\ DOMAIN notes = Pass /\ lapsed \in 0..Passes
  /\ \A p \in Pass : jobs[p] # NoJob =>
       /\ p \in Sold /\ jobs[p].group \in Groups \cup {NoGroup}
       /\ jobs[p].phase \in {"ask", "sent", "answer"}
  /\ \A p \in Pass : rows[p].status \in Status
  /\ promo \in [Groups -> {"none", "active", "lapsed", "expired"}]
  /\ accepted \subseteq Note

Init ==
  /\ user \in Accounts \cup {NoOne}
  /\ place \in (IF user = NoOne THEN {NoGroup} ELSE Groups)
  /\ sold = [p \in Pass |-> NoOne]
  /\ finished = {} /\ notes = [p \in Pass |-> <<>>] /\ lapsed = 0
  /\ jobs = [p \in Pass |-> NoJob] /\ late = {}
  /\ rows = [p \in Pass |-> NoRow] /\ promo = [g \in Groups |-> "none"]
  /\ leader \in [Groups -> Accounts \cup {NoOne}] /\ fits = Groups /\ accepted = {}
  /\ troubles = 0

-----------------------------------------------------------------------------
(* The server *)

(* trip_store_revocation_status over the notifications in "seen": a refund *)
(* is in force unless a reversal was signed after it; nothing reverses a   *)
(* revocation.                                                             *)
Seen(p, kind, seen) == {i \in DOMAIN notes[p] :
                          notes[p][i] = kind /\ <<p, i>> \in seen}
Refunds(p, seen) == Seen(p, "REFUND", seen)
InForce(p, seen) ==
  {i \in Refunds(p, seen) :
     \A j \in Seen(p, "REFUND_REVERSED", seen) : j <= i}
Revocation(p, seen) ==
  IF Seen(p, "REVOKE", seen) # {} THEN "revoked"
  ELSE IF InForce(p, seen) # {} THEN "refunded" ELSE "none"

GivenBack(p, seen) ==
  Refunds(p, seen) # {} /\ Revocation(p, seen) = "none"

(* expire_stale_entitlements of one group: passes and promo pass that are  *)
(* over expire, also a refunded one that the store gave back; then, if the *)
(* slot is free, the given back pass that lasts longest takes it.          *)
ActiveIn(table, g) ==
  {p \in Pass : table[p].group = g /\ table[p].status = "active"}
Expired(table, g, seen) ==
  [p \in Pass |->
     IF table[p].group = g /\ p <= lapsed
        /\ \/ table[p].status = "active"
           \/ table[p].status = "refunded" /\ GivenBack(p, seen)
     THEN [table[p] EXCEPT !.status = "expired"] ELSE table[p]]
Reinstated(table, g, seen) ==
  LET candidates == {p \in Pass : /\ table[p].group = g /\ p > lapsed
                                  /\ table[p].status = "refunded"
                                  /\ GivenBack(p, seen)}
  IN IF ActiveIn(table, g) = {} /\ promo[g] # "active" /\ candidates # {}
     THEN [table EXCEPT ![Max(candidates)].status = "active"]
     ELSE table

(* Mutant: the slot is given away before what holds it has expired. *)
ReinstatedFirst(table, g, seen) == Expired(Reinstated(table, g, seen), g, seen)

Fresh(table, g, seen) == Reinstated(Expired(table, g, seen), g, seen)
FreshPromo(g) ==
  IF promo[g] = "lapsed" THEN [promo EXCEPT ![g] = "expired"] ELSE promo

(* group_has_active_premium, the subscriptions aside, which are in "fits". *)
Taken(table, g) ==
  promo[g] = "active" \/ \E p \in ActiveIn(table, g) : p > lapsed

(* Mutant: a refund that came before the grant is not asked for. *)
VerdictUnrefunded(p, g, a) ==
  LET table == Fresh(rows, g, accepted)
  IN IF table[p] # NoRow THEN table[p].group = g /\ table[p].owner = a
     ELSE leader[g] = a /\ g \in fits /\ ~Taken(table, g)

(* Mutant: whether a pass may be sold is asked of one already granted. *)
VerdictForNew(p, g, a) ==
  LET table == Fresh(rows, g, accepted)
  IN /\ table[p] # NoRow => table[p].group = g /\ table[p].owner = a
     /\ Revocation(p, accepted) = "none"
     /\ leader[g] = a /\ g \in fits /\ ~Taken(table, g)

(* verify-and-apply-purchase with apply_verified_trip_storekit_purchase:   *)
(* pass p is asked for group g by account a.                               *)
Verdict(p, g, a) ==
  LET table == Fresh(rows, g, accepted)
  IN IF table[p] # NoRow THEN table[p].group = g /\ table[p].owner = a
     ELSE /\ Revocation(p, accepted) = "none"
          /\ leader[g] = a /\ g \in fits /\ ~Taken(table, g)

Granted(p, g, a) ==
  LET table == Fresh(rows, g, accepted)
  IN IF Verdict(p, g, a) /\ table[p] = NoRow
     THEN [table EXCEPT ![p] = [group |-> g, owner |-> a,
                                status |-> "active"]]
     ELSE table

TokenIsOf(p, a) == sold[p] = a

(* A request with the token of another account, or for a transaction whose *)
(* receipt says revoked, is refused before it touches a row.               *)
Serve(p, request) ==
  IF TokenIsOf(p, request.who) /\ request.good
  THEN /\ rows' = Granted(p, request.group, request.who)
       /\ promo' = FreshPromo(request.group)
  ELSE UNCHANGED <<rows, promo>>

Answer(p, request) ==
  /\ TokenIsOf(p, request.who) /\ request.good
  /\ Verdict(p, request.group, request.who)

(* The notification handler: record_storekit_notification, then            *)
(* apply_trip_storekit_notification.  A handler that fails before the      *)
(* second leaves a record that is not accepted, which changes nothing, and *)
(* the store repeats the notification until it is.  The account is bound,  *)
(* since it bought the pass.                                               *)
Withdrawn(table, p, seen) ==
  IF Revocation(p, seen) # "none" /\ table[p].status \notin {"refunded", "revoked"}
  THEN [table EXCEPT ![p].status = Revocation(p, seen)] ELSE table

Accept(p, i) ==
  /\ <<p, i>> \notin accepted
  /\ accepted' = accepted \cup {<<p, i>>}
  /\ IF rows[p] = NoRow THEN UNCHANGED <<rows, promo>>
     ELSE LET g == rows[p].group
          IN /\ rows' = Fresh(Withdrawn(rows, p, accepted'), g, accepted')
             /\ promo' = FreshPromo(g)
  /\ UNCHANGED <<requestVars, storeVars, worldVars, troubles>>

Notify == \E p \in Pass : \E i \in DOMAIN notes[p] : Accept(p, i)

(* revoke_trip_entitlement, by its owner or by support, for a reason. *)
Reason == {"refunded", "invalid", "revoked"}
Revoke(p, reason) ==
  /\ troubles < MaxTroubles /\ troubles' = troubles + 1
  /\ rows[p].status = "active"
  /\ LET g == rows[p].group
     IN /\ rows' = Fresh([rows EXCEPT ![p].status = reason], g, accepted)
        /\ promo' = FreshPromo(g)
  /\ UNCHANGED <<requestVars, storeVars, accepted, worldVars>>

(* redeem_promo_code for a timed pass, by the leader.  (A leader alone may   *)
(* redeem too, which is left out.)                                         *)
Redeem(g) ==
  /\ troubles < MaxTroubles /\ troubles' = troubles + 1
  /\ user = leader[g] /\ g \in fits
  /\ LET table == Fresh(rows, g, accepted)
     IN /\ ~Taken(table, g)
        /\ rows' = table
        /\ promo' = [promo EXCEPT ![g] = "active"]
  /\ UNCHANGED <<requestVars, storeVars, accepted, worldVars>>

(* get_trip_entitlement expires what it reads. *)
Read(g) ==
  /\ <<Fresh(rows, g, accepted), FreshPromo(g)>> # <<rows, promo>>
  /\ rows' = Fresh(rows, g, accepted) /\ promo' = FreshPromo(g)
  /\ UNCHANGED <<requestVars, storeVars, accepted, worldVars, troubles>>

Server ==
  \/ Notify
  \/ \E p \in Pass, reason \in Reason : Revoke(p, reason)
  \/ \E g \in Groups : Redeem(g) \/ Read(g)

-----------------------------------------------------------------------------
(* The store *)

InStoreRefunded(p) ==
  LET all == {<<p, i>> : i \in DOMAIN notes[p]} IN Revocation(p, all) # "none"

LastNote(p) == IF notes[p] = <<>> THEN "none" ELSE notes[p][Len(notes[p])]

(* A refund may be reversed, and asked for again. *)
Sign(p, kind) ==
  /\ p \in Sold
  /\ Cardinality({q \in Note : q[2] \in DOMAIN notes[q[1]]}) < MaxNotes
  /\ kind = "REFUND_REVERSED" => LastNote(p) = "REFUND"
  /\ kind = "REFUND" => LastNote(p) # "REFUND"
  /\ notes' = [notes EXCEPT ![p] = Append(@, kind)]
  /\ UNCHANGED <<sold, finished, lapsed, requestVars, serverVars, worldVars,
                 troubles>>

Lapse ==
  /\ \/ lapsed < Cardinality(Sold) /\ lapsed' = lapsed + 1 /\ UNCHANGED promo
     \/ /\ \E g \in Groups :
             promo[g] = "active" /\ promo' = [promo EXCEPT ![g] = "lapsed"]
        /\ UNCHANGED lapsed
  /\ UNCHANGED <<sold, finished, notes, requestVars, rows, accepted,
                 worldVars, troubles>>

Store ==
  \/ Lapse
  \/ \E p \in Pass, kind \in {"REFUND", "REFUND_REVERSED", "REVOKE"} :
       Sign(p, kind)

-----------------------------------------------------------------------------
(* The device *)

(* settlePurchase: one settlement of a transaction at a time, a second     *)
(* caller joins it.                                                        *)
Settle(p, g, good) ==
  /\ jobs[p] = NoJob
  /\ jobs' = [jobs EXCEPT ![p] = [phase |-> "ask", group |-> g,
                                  who |-> NoOne, good |-> good]]

(* purchasePremiumSubscription: the store sells the next pass, with the    *)
(* token of the account, and it is settled for the group of the screen.    *)
Buy ==
  LET p == Cardinality(Sold) + 1
  IN /\ user # NoOne /\ place # NoGroup /\ p <= Passes
     /\ sold' = [sold EXCEPT ![p] = user]
     /\ Settle(p, place, TRUE)
     /\ UNCHANGED <<finished, notes, lapsed, late, serverVars, worldVars,
                    troubles>>

(* reconcileUnfinishedPremiumPurchases settles what the store still holds, *)
(* with a receipt of now, for the group the screens are in: without one    *)
(* there is nothing to settle it for.                                      *)
Recover(p) ==
  /\ user # NoOne /\ place # NoGroup
  /\ p \in Sold \ finished
  /\ Settle(p, place, ~InStoreRefunded(p))
  /\ UNCHANGED <<late, storeVars, serverVars, worldVars, troubles>>

(* applyVerifiedTripPass: the request carries the account signed in now. *)
Send(p) ==
  /\ jobs[p].phase = "ask"
  /\ jobs' = [jobs EXCEPT ![p] =
                IF user = NoOne THEN NoJob
                ELSE [@ EXCEPT !.phase = "sent", !.who = user]]
  /\ UNCHANGED <<late, storeVars, serverVars, worldVars, troubles>>

Execute(p) ==
  /\ jobs[p].phase = "sent"
  /\ Serve(p, jobs[p])
  /\ jobs' = [jobs EXCEPT ![p] = [NoJob EXCEPT !.phase = "answer",
                                              !.good = Answer(p, jobs[p])]]
  /\ UNCHANGED <<late, storeVars, accepted, worldVars, troubles>>

(* Mutant: whatever the answer is, the transaction is over. *)
FinishAnyway(p) ==
  /\ jobs[p].phase = "answer"
  /\ finished' = finished \cup {p}
  /\ jobs' = [jobs EXCEPT ![p] = NoJob]
  /\ UNCHANGED <<late, sold, notes, lapsed, serverVars, worldVars, troubles>>

(* Only what the server holds durably is finished at the store. *)
Finish(p) ==
  /\ jobs[p].phase = "answer"
  /\ finished' = IF jobs[p].good THEN finished \cup {p} ELSE finished
  /\ jobs' = [jobs EXCEPT ![p] = NoJob]
  /\ UNCHANGED <<late, sold, notes, lapsed, serverVars, worldVars, troubles>>

-----------------------------------------------------------------------------
(* Faults and the world *)

Abandoned(p) == IF jobs[p].phase = "sent" THEN {<<p, jobs[p]>>} ELSE {}

(* The request is lost, or executed later; the answer is lost; the store   *)
(* does not finish the transaction.                                        *)
Lose(p) ==
  /\ troubles < MaxTroubles /\ troubles' = troubles + 1
  /\ jobs[p].phase \in {"sent", "answer"}
  /\ jobs' = [jobs EXCEPT ![p] = NoJob]
  /\ late' \in {late, late \cup Abandoned(p)}
  /\ UNCHANGED <<storeVars, serverVars, worldVars>>

ExecuteLate ==
  \E request \in late :
    /\ late' = late \ {request}
    /\ Serve(request[1], request[2])
    /\ UNCHANGED <<jobs, storeVars, accepted, worldVars, troubles>>

Kill ==
  /\ troubles < MaxTroubles /\ troubles' = troubles + 1
  /\ jobs' = [p \in Pass |-> NoJob]
  /\ late' = late \cup UNION {Abandoned(p) : p \in Pass}
  /\ UNCHANGED <<storeVars, serverVars, worldVars>>

(* Accounts sign in and out, and move between groups; members come, leave, *)
(* subscribe, and hand over the lead.                                      *)
Move ==
  /\ troubles < MaxTroubles /\ troubles' = troubles + 1
  /\ \/ /\ user' \in Accounts /\ place' \in Groups \cup {NoGroup}
        /\ UNCHANGED <<leader, fits>>
     \/ user' = NoOne /\ place' = NoGroup /\ UNCHANGED <<leader, fits>>
     \/ /\ \E g \in Groups :
             fits' = IF g \in fits THEN fits \ {g} ELSE fits \cup {g}
        /\ UNCHANGED <<user, place, leader>>
     \/ /\ \E g \in Groups, a \in Accounts : leader' = [leader EXCEPT ![g] = a]
        /\ UNCHANGED <<user, place, fits>>
  /\ UNCHANGED <<requestVars, storeVars, serverVars>>

-----------------------------------------------------------------------------
Work(p) == Recover(p) \/ Send(p) \/ Execute(p) \/ Finish(p)

Next ==
  \/ Server \/ Store
  \/ Buy
  \/ \E p \in Pass : Work(p) \/ Lose(p)
  \/ ExecuteLate \/ Kill \/ Move

(* The app comes to the foreground again, where it recovers, and a         *)
(* settlement in flight comes to its end.                                  *)
Fairness == \A p \in Pass : WF_vars(Work(p))

Spec == Init /\ [][Next]_vars
FairSpec == Spec /\ Fairness

-----------------------------------------------------------------------------
(* A pass that the notifications accepted so far take back never serves a  *)
(* group, in whatever order they arrived, and whether they came before or  *)
(* after the grant.                                                        *)
RefundHolds ==
  \A p \in Pass : rows[p].status = "active" => Revocation(p, accepted) = "none"

(* A pass finished at the store, which never replays it again, has its row *)
(* at the server, for the account that paid, while its group exists: the   *)
(* deletion of a group, which deletes its passes, is not modelled.         *)
FinishedIsGranted ==
  \A p \in finished : rows[p] # NoRow /\ rows[p].owner = sold[p]

(* A pass the store gave back waits only for a slot that is taken: nothing *)
(* that frees a slot forgets it.                                           *)
ReversalKept ==
  \A p \in Pass :
    (rows[p].status = "refunded" /\ GivenBack(p, accepted) /\ p > lapsed) =>
      \/ ActiveIn(rows, rows[p].group) # {}
      \/ promo[rows[p].group] \in {"active", "lapsed"}

(* While its buyer stays in a group it can serve, a pass that was paid is  *)
(* granted and finished in the end, whatever was lost on the way.          *)
Servable(p) ==
  /\ user = sold[p] /\ place # NoGroup /\ ~InStoreRefunded(p)
  /\ IF rows[p] # NoRow THEN rows[p].group = place
     ELSE leader[place] = user /\ place \in fits /\ ~Taken(rows, place)

PaidIsSettled ==
  \A p \in Pass : []<>(p \in Sold \ finished => ~Servable(p))
=============================================================================
