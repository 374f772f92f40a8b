----------------------------- MODULE MCIdentity -----------------------------
(***************************************************************************)
(* What must hold when accounts take turns on a device, in one run: its    *)
(* location samples, push tokens, credentials, passes and the card of a    *)
(* group.                                                                  *)
(* These components share no state: "part" says which of them a behaviour  *)
(* is about and the others stay in an initial state, so that the run       *)
(* explores the sum of their state spaces and not the product.             *)
(***************************************************************************)
EXTENDS Naturals, Sequences, FiniteSets, TLC

CONSTANTS
  Parts,                                          \* the components to explore
  Accounts, NoOne,
  Samples, MaxBatch, MaxAccesses, MaxSlips,       \* of LocationOutbox
  Tokens, Foreign, NoToken, MaxToggles, MaxSwitches, MaxTokenFaults,
                                                  \* InstallationCapabilities
  MaxIssued, MaxAuthFaults, MaxWorks,             \* AuthSession
  MaxOps, MaxEvents,                              \* GroupSnapshot
  Groups, NoGroup, Passes, MaxNotes, MaxTroubles  \* TripPass

VARIABLES
  part,
  stage, grant, owner, ready, unchecked, context, consent, generation, wish,
  saved, session, lane, pc, flight, reply, request, late, stored, position,
  capturer, revoked, slipped, changes, faults,
  account, sid, pref, token, gate, hydrated, disk, writes, blocked, lease,
  auth, rows, ended, tardy, orphaned, excused, toggles, switches, tokenFaults,
  issued, valid, slot, latest, pending, stamp, persisted, queue, sdk, refresh,
  work, used, user, refused, removed, lost, works, authFaults,
  history, verdict, intents, card, reader, actor, view, open, relist,
  cardLane, load, again, due, newest, supplied, exchange, writer, mixed, bare,
  events,
  buyer, place, sold, finished, notes, lapsed, jobs, unheard, passes, promo,
  leader, fits, accepted, troubles

locationVars == <<stage, grant, owner, ready, unchecked, context, consent,
                  generation, wish, saved, session, lane, pc, flight, reply,
                  request, late, stored, position, capturer, revoked, slipped,
                  changes, faults>>
tokenVars == <<account, sid, pref, token, gate, hydrated, disk, writes,
               blocked, lease, auth, rows, ended, tardy, orphaned, excused,
               toggles, switches, tokenFaults>>
authVars == <<issued, valid, slot, latest, pending, stamp, persisted, queue,
              sdk, refresh, work, used, user, refused, removed, lost, works,
              authFaults>>
groupVars == <<history, verdict, intents, card, reader, actor, view, open,
               relist, cardLane, load, again, due, newest, supplied, exchange,
               writer, mixed, bare, events>>
tripVars == <<buyer, place, sold, finished, notes, lapsed, jobs, unheard,
              passes, promo, leader, fits, accepted, troubles>>

Location == INSTANCE LocationOutboxProofs
  WITH Actor <- Accounts, NoActor <- NoOne,
       MaxChanges <- MaxAccesses, MaxFaults <- MaxSlips

Token == INSTANCE InstallationCapabilitiesProofs
  WITH MaxChanges <- MaxToggles, MaxFaults <- MaxTokenFaults,
       session <- account, ready <- hydrated, generation <- lease,
       revoked <- ended, late <- tardy, changes <- toggles,
       faults <- tokenFaults

Auth == INSTANCE AuthSessionProofs
  WITH MaxFaults <- MaxAuthFaults,
       generation <- stamp, flight <- refresh, faults <- authFaults

Group == INSTANCE GroupSnapshot
  WITH ops <- intents, store <- card, session <- reader, queue <- cardLane,
       pending <- again, latest <- newest, flight <- exchange

Trip == INSTANCE TripPassProofs
  WITH user <- buyer, late <- unheard, rows <- passes

ASSUME IdentityAssumption ==
  /\ Location!LocationAssumption /\ Token!InstallationAssumption
  /\ Auth!AuthAssumption /\ Group!GroupAssumption /\ Trip!TripAssumption

vars == <<part, locationVars, tokenVars, authVars, groupVars, tripVars>>

Init ==
  /\ part \in Parts
  /\ Location!Init /\ Token!Init /\ Auth!Init /\ Group!Init
  /\ Trip!Init
  /\ part # "location" => session = NoOne
  /\ part # "group" => reader = NoOne
  /\ part # "trip" => buyer = NoOne /\ leader = [g \in Groups |-> NoOne]

Next ==
  /\ UNCHANGED part
  /\ \/ /\ part = "location" /\ Location!Next
        /\ UNCHANGED <<tokenVars, authVars, groupVars, tripVars>>
     \/ /\ part = "token" /\ Token!Next
        /\ UNCHANGED <<locationVars, authVars, groupVars, tripVars>>
     \/ /\ part = "auth" /\ Auth!Next
        /\ UNCHANGED <<locationVars, tokenVars, groupVars, tripVars>>
     \/ /\ part = "group" /\ Group!Next
        /\ UNCHANGED <<locationVars, tokenVars, authVars, tripVars>>
     \/ /\ part = "trip" /\ Trip!Next
        /\ UNCHANGED <<locationVars, tokenVars, authVars, groupVars>>

Spec == Init /\ [][Next]_vars

(* Accounts are interchangeable in every part. *)
AccountSymmetry == Permutations(Accounts)

(* A part at rest has nothing to say. *)
TypeOK ==
  /\ part = "location" => Location!TypeOK
  /\ part = "token" => Token!TypeOK
  /\ part = "auth" => Auth!TypeOK
  /\ part = "group" => Group!TypeOK
  /\ part = "trip" => Trip!TypeOK

WithdrawnLeave == part = "location" => Location!WithdrawnLeave
NewestShown == part = "location" => Location!NewestShown
SentIsStored == part = "location" => Location!SentIsStored
SentUnderConsent == Location!SentUnderConsent

NoneAfterSignOut == part = "token" => Token!NoneAfterSignOut
Registered == part = "token" => Token!Registered

PreviousAccountGone == part = "auth" => Auth!PreviousAccountGone
NeverOlder == Auth!NeverOlder
RemovedWereRefused == part = "auth" => Auth!RemovedWereRefused
OneAccount == part = "auth" => Auth!OneAccount
SignInKept == part = "auth" => Auth!SignInKept

DraftsPrivate == part = "group" => Group!DraftsPrivate
IntentKept == Group!IntentKept

RefundHolds == part = "trip" => Trip!RefundHolds
FinishedIsGranted == part = "trip" => Trip!FinishedIsGranted
ReversalKept == part = "trip" => Trip!ReversalKept
=============================================================================
