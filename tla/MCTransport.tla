---------------------------- MODULE MCTransport ----------------------------
(***************************************************************************)
(* What has to arrive in the end, in one run: samples at the server, the   *)
(* settlement of a pass, and the itinerary of a group on the screen.  They *)
(* share no state: "part" says which of them a behaviour is about; the     *)
(* others stay in an initial state that owes no step, with nobody signed   *)
(* in.                                                                     *)
(***************************************************************************)
EXTENDS Naturals, Sequences, FiniteSets

CONSTANTS
  Parts,                                          \* the parts to explore
  Samples, Actor, NoActor, MaxBatch, MaxChanges, MaxFaults, \* LocationOutbox
  Groups, NoGroup, Passes, MaxNotes, MaxTroubles, \* TripPass
  Readers, MaxOps, MaxEvents                      \* GroupSnapshot

VARIABLES
  part,
  stage, grant, owner, ready, unchecked, context, consent, generation, wish,
  saved, session, lane, pc, carried, reply, request, late, stored, position,
  capturer, revoked, slipped, changes, faults,
  buyer, place, sold, finished, notes, lapsed, jobs, tardy, passes, promo,
  leader, fits, accepted, troubles,
  history, verdict, ops, store, reader, actor, view, open, relist, queue,
  load, pending, due, latest, supplied, flight, writer, mixed, bare, events

locationVars == <<stage, grant, owner, ready, unchecked, context, consent,
                  generation, wish, saved, session, lane, pc, carried, reply,
                  request, late, stored, position, capturer, revoked, slipped,
                  changes, faults>>
tripVars == <<buyer, place, sold, finished, notes, lapsed, jobs, tardy, passes,
              promo, leader, fits, accepted, troubles>>
groupVars == <<history, verdict, ops, store, reader, actor, view, open,
               relist, queue, load, pending, due, latest, supplied, flight,
               writer, mixed, bare, events>>

Location == INSTANCE LocationOutbox WITH flight <- carried
Trip == INSTANCE TripPass
  WITH Accounts <- Actor, NoOne <- NoActor,
       user <- buyer, late <- tardy, rows <- passes
Group == INSTANCE GroupSnapshot
  WITH Accounts <- Readers, NoOne <- NoActor, session <- reader

ASSUME TransportAssumption ==
  /\ Location!LocationAssumption /\ Trip!TripAssumption
  /\ Group!GroupAssumption

vars == <<part, locationVars, tripVars, groupVars>>

Init ==
  /\ part \in Parts /\ Location!Init /\ Trip!Init /\ Group!Init
  /\ part # "location" => session = NoActor
  /\ part # "trip" => buyer = NoActor /\ leader = [g \in Groups |-> NoActor]
  /\ part # "group" => reader = NoActor

Next ==
  /\ UNCHANGED part
  /\ \/ /\ part = "location" /\ Location!Next
        /\ UNCHANGED <<tripVars, groupVars>>
     \/ /\ part = "trip" /\ Trip!Next
        /\ UNCHANGED <<locationVars, groupVars>>
     \/ /\ part = "group" /\ Group!Next
        /\ UNCHANGED <<locationVars, tripVars>>

Spec ==
  /\ Init /\ [][Next]_vars
  /\ Location!Fairness /\ Trip!Fairness /\ Group!Fairness

RowsSettle == Location!RowsSettle
PaidIsSettled == Trip!PaidIsSettled
Converges == Group!Converges
=============================================================================
