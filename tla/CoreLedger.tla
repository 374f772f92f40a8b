----------------------------- MODULE CoreLedger -----------------------------
(***************************************************************************)
(* The server side of core synchronization: the operation ledger that      *)
(* apply_core_operation_actor keeps in core_operations, and the loop of    *)
(* sync_group that feeds it one strictly ordered batch per transaction.    *)
(*                                                                         *)
(* What an operation does to the journey is abstracted to one committed    *)
(* effect, and the checks that decide on it (roles, targets, sessions) to  *)
(* a choice among the verdicts they can return.  What is kept is all of    *)
(* the ledger's control: idempotent replay, receipts that are final and    *)
(* receipts that may be replayed, the prerequisite gate, the sub-block     *)
(* that rolls one operation back, and the loop that stops at the first     *)
(* operation it did not accept.                                            *)
(***************************************************************************)
EXTENDS Naturals

CONSTANTS
  Op,       \* operation identifiers (client generated UUIDs)
  Guards    \* <<p, o>>: p counts as a prerequisite of o for the server

ASSUME GuardsAssumption == Guards \subseteq Op \X Op

VARIABLES
  receipt,  \* the ledger row of each operation
  effects   \* how many times the side effects of each operation committed

ledgerVars == <<receipt, effects>>

(* "final" is a conflict returned as it stands on every replay, "open" one *)
(* whose code (dependency_missing, unknown) may be replayed under the same *)
(* id.  The third such code, stale_version, is only answered to operation  *)
(* types that are not merged, and every type the client issues is.         *)
Receipt == {"none", "accepted", "final", "open"}

Verdict == {"accepted", "duplicate", "final", "open", "retry", "not_submitted"}

Passing == {"accepted", "duplicate"}

LedgerTypeOK ==
  /\ receipt \in [Op -> Receipt]
  /\ effects \in [Op -> Nat]

LedgerInit ==
  /\ receipt = [o \in Op |-> "none"]
  /\ effects = [o \in Op |-> 0]

(* A prerequisite named on the wire, about the same resource, that has a   *)
(* receipt other than accepted.  Identifiers without a receipt are ignored.*)
GateClosed(seen, wireDeps, o) ==
  \E p \in wireDeps[o] : <<p, o>> \in Guards /\ seen[p] \in {"final", "open"}

(* Mutant: the lookup of an accepted receipt is skipped. *)
AnswersUnlocked(seen, wireDeps, o) ==
  IF seen[o] = "final" \/ GateClosed(seen, wireDeps, o) THEN {"final"}
  ELSE {"retry", "accepted", "final", "open"}

(* The verdicts possible for o when the ledger reads `seen`.  A deadlock   *)
(* or serialization failure rolls the sub-block back whatever the ledger   *)
(* holds: "retry".                                                         *)
Answers(seen, wireDeps, o) ==
  {"retry"} \cup
    (IF seen[o] = "accepted" THEN {"duplicate"}
     ELSE IF seen[o] = "final" \/ GateClosed(seen, wireDeps, o) THEN {"final"}
     ELSE {"accepted", "final", "open"})

Earlier(ops, seq, o) == {p \in ops : seq[p] < seq[o]}

(* The ledger as the loop of sync_group sees it when it reaches o: it only *)
(* gets there when every earlier operation of the batch was accepted.      *)
SeenAt(ops, seq, o) ==
  [p \in Op |-> IF p \in Earlier(ops, seq, o) THEN "accepted" ELSE receipt[p]]

(* Mutant: the loop goes on after an operation it did not accept. *)
CoreResultsUnstopped(ops, seq, wireDeps, verdict) ==
  \A o \in ops : verdict[o] \in Answers(SeenAt(ops, seq, o), wireDeps, o)

(* verdict is what one transaction of sync_group may answer for the batch. *)
CoreResults(ops, seq, wireDeps, verdict) ==
  \A o \in ops :
    IF \E p \in Earlier(ops, seq, o) : verdict[p] \notin Passing
    THEN verdict[o] = "not_submitted"
    ELSE verdict[o] \in Answers(SeenAt(ops, seq, o), wireDeps, o)

(* One committed transaction of sync_group.  A verdict other than these    *)
(* three leaves no trace in the ledger.                                    *)
SyncGroup(ops, seq, wireDeps, verdict) ==
  /\ CoreResults(ops, seq, wireDeps, verdict)
  /\ receipt' = [o \in Op |->
       IF o \in ops /\ verdict[o] \in {"accepted", "final", "open"}
       THEN verdict[o] ELSE receipt[o]]
  /\ effects' = [o \in Op |->
       IF o \in ops /\ verdict[o] = "accepted"
       THEN effects[o] + 1 ELSE effects[o]]

=============================================================================
