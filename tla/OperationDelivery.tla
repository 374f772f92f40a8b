------------------------- MODULE OperationDelivery -------------------------
(***************************************************************************)
(* What the durable outbox promises its user, with no queue, transport,    *)
(* account, retry or crash in sight: an issued operation waits until it is *)
(* delivered or abandoned, its effects are applied at most once, and it is *)
(* reported as delivered only after they were applied.                     *)
(*                                                                         *)
(* One concession is part of the promise: abandoning an operation is a     *)
(* local act.  A request for it may still be on its way, so its effects    *)
(* may be applied after the user gave it up.                               *)
(***************************************************************************)
EXTENDS Naturals

CONSTANT Op

VARIABLES
  phase,    \* "fresh" -> "waiting" -> "delivered" or "abandoned"
  applied   \* how often the effects of each operation were applied

Init ==
  /\ phase = [o \in Op |-> "fresh"]
  /\ applied = [o \in Op |-> 0]

Move(S, from, to) ==
  /\ \A o \in S : phase[o] = from
  /\ phase' = [o \in Op |-> IF o \in S THEN to ELSE phase[o]]

(* A user action issues its operations together. *)
Issue(S) == S # {} /\ Move(S, "fresh", "waiting") /\ UNCHANGED applied

(* One exchange applies several operations in one transaction. *)
Apply(S) ==
  /\ S # {}
  /\ \A o \in S : phase[o] # "fresh" /\ applied[o] = 0
  /\ applied' = [o \in Op |-> IF o \in S THEN 1 ELSE applied[o]]
  /\ UNCHANGED phase

Deliver(o) ==
  /\ applied[o] = 1
  /\ Move({o}, "waiting", "delivered")
  /\ UNCHANGED applied

Abandon(S) == S # {} /\ Move(S, "waiting", "abandoned") /\ UNCHANGED applied

(* The intent of an abandoned operation goes on under a fresh identity. *)
Replace(S, n) ==
  /\ phase[n] = "fresh" /\ \A o \in S : phase[o] = "waiting"
  /\ phase' = [o \in Op |-> IF o = n THEN "waiting"
                            ELSE IF o \in S THEN "abandoned" ELSE phase[o]]
  /\ UNCHANGED applied

Next ==
  \/ \E S \in SUBSET Op : Issue(S) \/ Apply(S) \/ Abandon(S)
  \/ \E S \in SUBSET Op, n \in Op : Replace(S, n)
  \/ \E o \in Op : Deliver(o)

Spec == Init /\ [][Next]_<<phase, applied>>

=============================================================================
