-------------------------- MODULE CoreOutboxProofs --------------------------
(***************************************************************************)
(* What CoreOutbox keeps for every set of operations and accounts, every   *)
(* batch size and every number of faults.                                  *)
(***************************************************************************)
EXTENDS CoreOutbox, FiniteSetTheorems, TLAPS

-----------------------------------------------------------------------------
(* Types *)

(* The rows, the exchange and the ledger start well-typed. *)
LEMMA InitType == Init => TypeOK
<1> SUFFICES ASSUME Init PROVE TypeOK
  OBVIOUS
<1> USE OwnerAssumption, BoundAssumption
<1>1. LedgerTypeOK
  BY DEF Init, LedgerInit, LedgerTypeOK, Receipt
<1>2. NoReply \in [kind : ReplyKind, results : [Op -> Verdict]]
  BY DEF NoReply, NoResults, ReplyKind, Verdict
<1>3. NoRequest \in Request
  BY DEF NoRequest, Request
<1> QED
  BY <1>1, <1>2, <1>3
  DEF Init, TypeOK, Status, Code, Phase, NoChoice, NoHeld

(* One transaction of sync_group leaves the ledger well-typed. *)
LEMMA SyncGroupType ==
  ASSUME LedgerTypeOK, NEW ops, NEW place, NEW wire, NEW verdict,
         SyncGroup(ops, place, wire, verdict)
  PROVE  LedgerTypeOK'
BY DEF SyncGroup, LedgerTypeOK, Receipt

(* A transaction answers with well-typed verdicts and keeps the signers. *)
LEMMA CommitsType ==
  ASSUME TypeOK, NEW m \in Request, NEW verdict, Commits(m, verdict)
  PROVE  /\ LedgerTypeOK'
         /\ signer' \in [Op -> Actor \cup {NoActor}]
         /\ faults' \in 0 .. MaxFaults
<1>1. LedgerTypeOK'
  BY SyncGroupType DEF Commits, TypeOK
<1>2. signer' \in [Op -> Actor \cup {NoActor}]
  BY DEF Commits, TypeOK, Request
<1>3. faults' \in 0 .. MaxFaults
  BY BoundAssumption DEF Commits, TypeOK, Cost
<1> QED
  BY <1>1, <1>2, <1>3

(* The transport lane at rest is well-typed. *)
LEMMA IdleType ==
  ASSUME Idle
  PROVE  /\ pc' \in Phase /\ flight' \in Actor \cup {NoActor}
         /\ doomed' \subseteq Op /\ revive' \subseteq Op /\ batch' \subseteq Op
         /\ held' \in [status : Status, tried : BOOLEAN]
         /\ request' \in Request
         /\ reply' \in [kind : ReplyKind, results : [Op -> Verdict]]
<1>1. request' \in Request
  BY DEF Idle, NoRequest, Request
<1>2. reply' \in [kind : ReplyKind, results : [Op -> Verdict]]
  BY DEF Idle, NoReply, NoResults, ReplyKind, Verdict
<1>3. held' \in [status : Status, tried : BOOLEAN]
  BY DEF Idle, NoHeld, Status
<1> QED
  BY <1>1, <1>2, <1>3 DEF Idle, Phase

(* A failure of the exchange as a whole is a reply. *)
LEMMA FailureType ==
  ASSUME NEW kind \in ReplyKind
  PROVE  Failure(kind) \in [kind : ReplyKind, results : [Op -> Verdict]]
BY DEF Failure, NoResults, Verdict

(* What a flush writes to a row, or to a row and its dependants. *)
RowTypeOK ==
  /\ status \in [Op -> Status] /\ code \in [Op -> Code]
  /\ tried \in [Op -> BOOLEAN] /\ due \in [Op -> BOOLEAN]

(* An UPDATE of one row keeps the types of the rows. *)
LEMMA WriteType ==
  ASSUME RowTypeOK, NEW o \in Op, NEW st \in Status, NEW cd \in Code,
         NEW attempted \in BOOLEAN, NEW ready \in BOOLEAN,
         Write(o, st, cd, attempted, ready)
  PROVE  RowTypeOK'
BY DEF RowTypeOK, Write

(* So does a backoff. *)
LEMMA BackOffType ==
  ASSUME RowTypeOK, NEW o \in Op, BackOff(o)
  PROVE  RowTypeOK'
BY WriteType DEF BackOff, Status, Code

(* So does a conflict with all it settles. *)
LEMMA ConflictType ==
  ASSUME RowTypeOK, NEW o \in Op,
         NEW cd \in {"open", "stale", "final"}, Conflict(o, cd)
  PROVE  RowTypeOK'
<1>1. CASE BackOff(o)
  BY <1>1, BackOffType
<1>2. CASE cd # "open" /\ Terminate(o, cd)
  BY <1>2 DEF Terminate, RowTypeOK, Status, Code
<1> QED
  BY <1>1, <1>2 DEF Conflict

(* Every step of the system keeps the types. *)
LEMMA NextType == TypeOK /\ [Next]_vars => TypeOK'
<1> SUFFICES ASSUME TypeOK, [Next]_vars PROVE TypeOK'
  OBVIOUS
<1> USE OwnerAssumption, BoundAssumption DEF TypeOK
<1> USE DEF rowVars, lineVars, commandVars, flushVars, wireVars, serverVars,
            envVars
<1>1. ASSUME NEW o \in Op, Enqueue(o) PROVE TypeOK'
  BY <1>1 DEF Enqueue, Issuable, Predecessors, Lane, Status, LedgerTypeOK
<1>2. ASSUME NEW g \in Op, NEW r \in Op, EnqueuePromoted(g, r) PROVE TypeOK'
  <2>1. deps' \in [Op -> SUBSET Op]
    BY <1>2 DEF EnqueuePromoted, Predecessors, Lane
  <2>2. seq' \in [Op -> Nat] /\ counter' \in [Actor -> Nat]
    BY <1>2 DEF EnqueuePromoted
  <2> QED
    BY <1>2, <2>1, <2>2 DEF EnqueuePromoted, Status, LedgerTypeOK
<1>3. ASSUME NEW o \in Op, CompactReceipt(o) PROVE TypeOK'
  BY <1>3 DEF CompactReceipt, Status, LedgerTypeOK
<1>4. ASSUME NEW o \in Op, RetryFailed(o) PROVE TypeOK'
  BY <1>4 DEF RetryFailed, LedgerTypeOK
<1>5. ASSUME NEW o \in Op, ChooseStart(o) PROVE TypeOK'
  BY <1>5 DEF ChooseStart, LedgerTypeOK
<1>6. ASSUME NEW o \in Op, ChooseConflict(o) PROVE TypeOK'
  BY <1>6 DEF ChooseConflict, DependencyChain, Rows, Lane, LedgerTypeOK
<1>7. ASSUME NEW n \in Op, RecreateConflict(n) PROVE TypeOK'
  BY <1>7 DEF RecreateConflict, Without, NoChoice, Status, Code, LedgerTypeOK
<1>8. ASSUME AbortStart PROVE TypeOK'
  BY <1>8 DEF AbortStart, NoChoice, Rows, Status, Code, LedgerTypeOK
<1>9. ASSUME DiscardConflict PROVE TypeOK'
  BY <1>9 DEF DiscardConflict, Without, NoChoice, Status, Code, LedgerTypeOK
<1>10. ASSUME StartFlight PROVE TypeOK'
  BY <1>10 DEF StartFlight, Phase, LedgerTypeOK
<1>11. ASSUME ReadRows PROVE TypeOK'
  BY <1>11 DEF ReadRows, DependencyChain, Rows, Phase, LedgerTypeOK
<1>12. ASSUME Settle PROVE TypeOK'
  BY <1>12 DEF Settle, Rows, Phase, Status, Code, LedgerTypeOK
<1>13. ASSUME Select PROVE TypeOK'
  BY <1>13, IdleType DEF Select, Prefix, Lane, Phase, LedgerTypeOK
<1>14. ASSUME CheckAccount PROVE TypeOK'
  BY <1>14, FailureType DEF CheckAccount, ReplyKind, Phase, LedgerTypeOK
<1>15. ASSUME Transmit PROVE TypeOK'
  BY <1>15, FailureType DEF Transmit, Request, ReplyKind, Phase, LedgerTypeOK
<1>16. ASSUME Receive PROVE TypeOK'
  BY <1>16, FailureType DEF Receive, ReplyKind, Phase, LedgerTypeOK
<1>17. ASSUME Finish PROVE TypeOK'
  BY <1>17, IdleType DEF Finish, LedgerTypeOK
<1>18. ASSUME NEW o \in Op, Take(o) PROVE TypeOK'
  BY <1>18, IdleType DEF Take, Status, Code, Phase, LedgerTypeOK
<1>19. ASSUME NEW o \in Op, Guard(o) PROVE TypeOK'
  <2>1. RowTypeOK
    BY DEF RowTypeOK
  <2>2. RowTypeOK'
    <3>1. CASE UNCHANGED rowVars
      BY <2>1, <3>1 DEF RowTypeOK
    <3>2. CASE \E st \in {"failed", "pending"} :
                 Write(o, st, "none", held.tried, TRUE)
      <4>1. held.tried \in BOOLEAN
        OBVIOUS
      <4>2. PICK st \in {"failed", "pending"} :
                   Write(o, st, "none", held.tried, TRUE)
        BY <3>2
      <4>3. st \in Status /\ "none" \in Code
        BY DEF Status, Code
      <4> QED
        BY <2>1, <4>1, <4>2, <4>3 DEF Write, RowTypeOK
    <3>3. CASE BackOff(o)
      BY <2>1, <3>3, BackOffType
    <3>4. CASE \E cd \in {"stale", "final"} : Conflict(o, cd)
      BY <2>1, <3>4, ConflictType
    <3> QED
      BY <1>19, <3>1, <3>2, <3>3, <3>4 DEF Guard
  <2>3. CASE Idle
    BY <1>19, <2>2, <2>3, IdleType DEF Guard, RowTypeOK, LedgerTypeOK
  <2>4. CASE pc' = "commit" /\ UNCHANGED <<flight, doomed, revive, batch, held,
                                            request, reply>>
    BY <1>19, <2>2, <2>4 DEF Guard, RowTypeOK, Phase, LedgerTypeOK
  <2> QED
    BY <1>19, <2>3, <2>4 DEF Guard
<1>20. ASSUME NEW o \in Op, Commit(o) PROVE TypeOK'
  <2>1. RowTypeOK
    BY DEF RowTypeOK
  <2>2. RowTypeOK'
    <3>1. CASE reply.results[o] \in Passing
      <4>1. held.tried \in BOOLEAN /\ {"acked", "none"} \subseteq Status
            /\ "none" \in Code
        BY DEF Status, Code
      <4>2. CASE Write(o, "acked", "none", held.tried, TRUE)
        BY <2>1, <4>1, <4>2 DEF Write, RowTypeOK
      <4>3. CASE Write(o, "none", "none", FALSE, TRUE)
        BY <2>1, <4>1, <4>3 DEF Write, RowTypeOK
      <4> QED
        BY <1>20, <3>1, <4>2, <4>3 DEF Commit, Passing
    <3>2. CASE reply.results[o] \in {"final", "open"}
      <4>1. Conflict(o, reply.results[o])
        BY <1>20, <3>2 DEF Commit, Passing
      <4> QED
        BY <2>1, <3>2, <4>1, ConflictType
    <3> QED
      BY <1>20, <3>1, <3>2 DEF Commit
  <2>3. CASE Idle
    BY <1>20, <2>2, <2>3, IdleType DEF Commit, RowTypeOK, LedgerTypeOK
  <2>4. CASE batch' = batch \ {o} /\ held' = NoHeld /\ pc' = "take"
             /\ UNCHANGED <<flight, doomed, revive, request, reply>>
    BY <1>20, <2>2, <2>4
    DEF Commit, RowTypeOK, NoHeld, Status, Phase, LedgerTypeOK
  <2> QED
    BY <1>20, <2>3, <2>4 DEF Commit
<1>21. ASSUME Execute PROVE TypeOK'
  <2>1. request \in Request /\ request' \in Request
    BY <1>21 DEF Execute, NoRequest, Request
  <2>2. CASE \E verdict \in [request.ops -> Verdict] :
               Commits(request, verdict)
               /\ reply' = Answer(request.ops, verdict)
    <3> PICK verdict \in [request.ops -> Verdict] :
               Commits(request, verdict)
               /\ reply' = Answer(request.ops, verdict)
      BY <2>2
    <3>1. reply' \in [kind : ReplyKind, results : [Op -> Verdict]]
      BY DEF Answer, ReplyKind, Verdict
    <3>2. LedgerTypeOK' /\ signer' \in [Op -> Actor \cup {NoActor}]
          /\ faults' \in 0 .. MaxFaults
      BY <2>1, CommitsType
    <3> QED
      BY <1>21, <2>1, <3>1, <3>2 DEF Execute
  <2>3. CASE reply' = Failure("auth") /\ UNCHANGED <<serverVars, faults>>
    BY <1>21, <2>1, <2>3, FailureType DEF Execute, ReplyKind, LedgerTypeOK
  <2> QED
    BY <1>21, <2>2, <2>3 DEF Execute
<1>22. ASSUME Refuse PROVE TypeOK'
  <2>1. reply' \in [kind : ReplyKind, results : [Op -> Verdict]]
    BY <1>22, FailureType, KindAssumption DEF Refuse, ReplyKind
  <2>2. request' \in Request
    BY <1>22 DEF Refuse, NoRequest, Request
  <2>3. faults' \in 0 .. MaxFaults
    BY <1>22 DEF Refuse
  <2> QED
    BY <1>22, <2>1, <2>2, <2>3 DEF Refuse, LedgerTypeOK
<1>23. ASSUME TimeOut PROVE TypeOK'
  BY <1>23, FailureType DEF TimeOut, NoRequest, Request, ReplyKind, Phase,
         LedgerTypeOK
<1>24. ASSUME Crash PROVE TypeOK'
  BY <1>24, IdleType DEF Crash, NoChoice, LedgerTypeOK
<1>25. ASSUME NEW m \in late, ExecuteLate(m) PROVE TypeOK'
  BY <1>25, CommitsType DEF ExecuteLate, LedgerTypeOK
<1>26. ASSUME NEW o \in Op, BackoffElapsed(o) PROVE TypeOK'
  BY <1>26 DEF BackoffElapsed, LedgerTypeOK
<1>27. ASSUME SignOut PROVE TypeOK'
  BY <1>27 DEF SignOut, LedgerTypeOK
<1>28. ASSUME NEW a \in Actor, SignIn(a) PROVE TypeOK'
  BY <1>28 DEF SignIn, LedgerTypeOK
<1>29. ASSUME UNCHANGED vars PROVE TypeOK'
  BY <1>29 DEF vars, LedgerTypeOK
<1> QED
  BY <1>1, <1>2, <1>3, <1>4, <1>5, <1>6, <1>7, <1>8, <1>9, <1>10, <1>11,
     <1>12, <1>13, <1>14, <1>15, <1>16, <1>17, <1>18, <1>19, <1>20, <1>21,
     <1>22, <1>23, <1>24, <1>25, <1>26, <1>27, <1>28, <1>29
  DEF Next, Command, Transport, Environment

(* Type correctness: for every set of operations, accounts and faults, the *)
(* rows, the exchange and the ledger stay within their types.              *)
THEOREM TypeCorrect == Spec => []TypeOK
BY InitType, NextType, PTL DEF Spec

-----------------------------------------------------------------------------
(* The ledger *)

(* The effects of an operation committed as often as its receipt says.     *)
LedgerInv == \A o \in Op : effects[o] = IF receipt[o] = "accepted" THEN 1 ELSE 0

(* sync_group commits an operation only when the ledger did not hold it as *)
(* accepted, an accepted receipt stays, and whatever counts as passed is   *)
(* accepted afterwards.                                                    *)
LEMMA SyncGroupOnce ==
  ASSUME NEW ops \in SUBSET Op, NEW place \in [Op -> Nat], NEW wire,
         NEW verdict \in [ops -> Verdict],
         receipt \in [Op -> Receipt],
         SyncGroup(ops, place, wire, verdict), NEW o \in Op
  PROVE  /\ o \in ops /\ verdict[o] = "accepted" => receipt[o] # "accepted"
         /\ receipt[o] = "accepted" => receipt'[o] = "accepted"
         /\ receipt'[o] = "accepted" /\ receipt[o] # "accepted"
              => o \in ops /\ verdict[o] = "accepted"
         /\ o \in ops /\ verdict[o] \in Passing => receipt'[o] = "accepted"
<1>1. SeenAt(ops, place, o)[o] = receipt[o]
  BY DEF SeenAt, Earlier
<1>2. ASSUME o \in ops
      PROVE  \/ verdict[o] = "not_submitted"
             \/ verdict[o] \in Answers(SeenAt(ops, place, o), wire, o)
  BY <1>2 DEF SyncGroup, CoreResults
<1>3. ASSUME o \in ops, receipt[o] = "accepted"
      PROVE  verdict[o] \in {"not_submitted", "retry", "duplicate"}
  BY <1>1, <1>2, <1>3 DEF Answers
<1>4. ASSUME o \in ops, verdict[o] = "duplicate"
      PROVE  receipt[o] = "accepted"
  BY <1>1, <1>2, <1>4 DEF Answers
<1>5. receipt'[o] = IF o \in ops /\ verdict[o] \in {"accepted", "final", "open"}
                    THEN verdict[o] ELSE receipt[o]
  BY DEF SyncGroup
<1> QED
  BY <1>3, <1>4, <1>5 DEF Passing

(* A transaction keeps the books of the ledger straight. *)
LEMMA SyncGroupLedger ==
  ASSUME NEW ops \in SUBSET Op, NEW place \in [Op -> Nat], NEW wire,
         NEW verdict \in [ops -> Verdict],
         LedgerTypeOK, LedgerInv, SyncGroup(ops, place, wire, verdict)
  PROVE  LedgerInv'
<1> SUFFICES ASSUME NEW o \in Op
             PROVE  effects'[o] = IF receipt'[o] = "accepted" THEN 1 ELSE 0
  BY DEF LedgerInv
<1>1. effects[o] = IF receipt[o] = "accepted" THEN 1 ELSE 0
  BY DEF LedgerInv
<1>2. effects'[o] = IF o \in ops /\ verdict[o] = "accepted"
                    THEN effects[o] + 1 ELSE effects[o]
  BY DEF SyncGroup
<1>3. /\ o \in ops /\ verdict[o] = "accepted"
           => receipt[o] # "accepted" /\ receipt'[o] = "accepted"
      /\ receipt[o] = "accepted" => receipt'[o] = "accepted"
      /\ receipt'[o] = "accepted" /\ receipt[o] # "accepted"
           => o \in ops /\ verdict[o] = "accepted"
  <2>1. receipt \in [Op -> Receipt]
    BY DEF LedgerTypeOK
  <2>2. "accepted" \in Passing
    BY DEF Passing
  <2> QED
    BY <2>1, <2>2, SyncGroupOnce
<1> QED
  BY <1>1, <1>2, <1>3

(* Only the two ways a request reaches the server touch the ledger. *)
LEMMA ServerStep ==
  ASSUME TypeOK, Next
  PROVE  \/ UNCHANGED serverVars
         \/ /\ Execute
            /\ \E verdict \in [request.ops -> Verdict] :
                 /\ Commits(request, verdict)
                 /\ reply' = Answer(request.ops, verdict)
         \/ \E m \in late : \E verdict \in [m.ops -> Verdict] :
              ExecuteLate(m) /\ Commits(m, verdict)
<1>1. CASE Command
  BY <1>1 DEF Command, Enqueue, EnqueuePromoted, CompactReceipt, RetryFailed,
              ChooseStart, ChooseConflict, RecreateConflict, AbortStart,
              DiscardConflict
<1>2. CASE Transport
  BY <1>2 DEF Transport, StartFlight, ReadRows, Settle, Select, CheckAccount,
              Transmit, Receive, Finish, Take, Guard, Commit
<1>3. CASE Environment
  BY <1>3 DEF Environment, Execute, Refuse, TimeOut, Crash, SignOut, SignIn,
              BackoffElapsed, ExecuteLate
<1> QED
  BY <1>1, <1>2, <1>3 DEF Next

(* The books are straight at first, and every step keeps them so. *)
LEMMA InitLedger == Init => LedgerInv
BY DEF Init, LedgerInit, LedgerInv

(* Retries, late requests and faults included. *)
LEMMA NextLedger == TypeOK /\ LedgerInv /\ [Next]_vars => LedgerInv'
<1> SUFFICES ASSUME TypeOK, LedgerInv, [Next]_vars PROVE LedgerInv'
  OBVIOUS
<1>1. CASE UNCHANGED serverVars
  BY <1>1 DEF LedgerInv, serverVars
<1>2. ASSUME NEW m \in Request, NEW verdict \in [m.ops -> Verdict],
             Commits(m, verdict)
      PROVE  LedgerInv'
  <2>1. m.ops \in SUBSET Op
    BY DEF Request
  <2> QED
    BY <1>2, <2>1, SyncGroupLedger DEF Commits, TypeOK
<1>3. request \in Request /\ late \subseteq Request
  BY DEF TypeOK
<1>4. CASE Next
  BY <1>1, <1>2, <1>3, <1>4, ServerStep
<1>5. CASE UNCHANGED vars
  BY <1>1, <1>5 DEF vars
<1> QED
  BY <1>4, <1>5

(* Idempotent replay: however often operations are retried, replayed after *)
(* a crash or executed behind the client's back, the ledger lookup of      *)
(* apply_core_operation_actor commits the effects of each at most once.    *)
THEOREM AppliedAtMostOnce == Spec => []AppliedOnce
<1>1. LedgerInv => AppliedOnce
  <2> SUFFICES ASSUME LedgerInv, NEW o \in Op PROVE effects[o] <= 1
    BY DEF AppliedOnce
  <2>1. effects[o] = 0 \/ effects[o] = 1
    BY DEF LedgerInv
  <2> QED
    BY <2>1
<1>2. Spec => []LedgerInv
  BY InitLedger, NextLedger, TypeCorrect, PTL DEF Spec
<1> QED
  BY <1>1, <1>2, PTL

-----------------------------------------------------------------------------
(* Nothing is lost *)

(* What the transport lane works on as passed is accepted at the server.   *)
ReplyInv ==
  \A o \in Op : reply.results[o] \in Passing => receipt[o] = "accepted"

(* NothingLost as far as receipts go. *)
Settled(o) == seq[o] > 0 /\ status[o] \in {"none", "acked"} /\ o \notin dropped

SettledInv == \A o \in Op : Settled(o) => receipt[o] = "accepted"

(* An accepted receipt is for ever. *)
LEMMA ReceiptStays ==
  ASSUME TypeOK, Next, NEW o \in Op, receipt[o] = "accepted"
  PROVE  receipt'[o] = "accepted"
<1>1. ASSUME NEW m \in Request, NEW verdict \in [m.ops -> Verdict],
             Commits(m, verdict)
      PROVE  receipt'[o] = "accepted"
  <2>1. m.ops \in SUBSET Op
    BY DEF Request
  <2> QED
    BY <1>1, <2>1, SyncGroupOnce DEF Commits, TypeOK, LedgerTypeOK
<1>2. request \in Request /\ late \subseteq Request
  BY DEF TypeOK
<1> QED
  BY <1>1, <1>2, ServerStep DEF serverVars

(* The answer to a request executed in time says no more than the ledger. *)
LEMMA AnswerHolds ==
  ASSUME TypeOK, NEW verdict \in [request.ops -> Verdict],
         Commits(request, verdict), reply' = Answer(request.ops, verdict)
  PROVE  ReplyInv'
<1> SUFFICES ASSUME NEW o \in Op, reply'.results[o] \in Passing
             PROVE  receipt'[o] = "accepted"
  BY DEF ReplyInv
<1>1. request.ops \in SUBSET Op
  BY DEF TypeOK, Request
<1>2. o \in request.ops /\ verdict[o] \in Passing
  BY DEF Answer, Passing
<1> QED
  BY <1>1, <1>2, SyncGroupOnce DEF Commits, TypeOK, LedgerTypeOK

(* An exchange that fails as a whole passes nothing. *)
LEMMA FailurePassesNothing ==
  /\ reply' = NoReply => ReplyInv'
  /\ \A kind \in ReplyKind : reply' = Failure(kind) => ReplyInv'
BY DEF ReplyInv, NoReply, Failure, NoResults, Passing

(* Every step keeps what the transport lane holds true of the ledger. *)
LEMMA NextReply == TypeOK /\ ReplyInv /\ [Next]_vars => ReplyInv'
<1> SUFFICES ASSUME TypeOK, ReplyInv, [Next]_vars PROVE ReplyInv'
  OBVIOUS
<1>1. CASE UNCHANGED vars
  BY <1>1 DEF ReplyInv, vars, wireVars, serverVars
<1>2. ASSUME Next, UNCHANGED reply PROVE ReplyInv'
  BY <1>2, ReceiptStays DEF ReplyInv
<1>3. CASE reply' = NoReply \/ \E kind \in ReplyKind : reply' = Failure(kind)
  BY <1>3, FailurePassesNothing
<1>4. CASE Command
  <2>1. UNCHANGED reply
    BY <1>4 DEF Command, Enqueue, EnqueuePromoted, CompactReceipt, RetryFailed,
         ChooseStart, ChooseConflict, RecreateConflict, AbortStart,
         DiscardConflict, wireVars
  <2> QED
    BY <1>2, <1>4, <2>1 DEF Next
<1>5. CASE Transport
  <2>1. \/ UNCHANGED reply
        \/ reply' = NoReply
        \/ \E kind \in ReplyKind : reply' = Failure(kind)
    BY <1>5 DEF Transport, StartFlight, ReadRows, Settle, Select, CheckAccount,
         Transmit, Receive, Finish, Take, Guard, Commit, Idle, wireVars,
         ReplyKind
  <2> QED
    BY <1>2, <1>3, <1>5, <2>1 DEF Next
<1>6. CASE Execute
  <2>1. CASE \E verdict \in [request.ops -> Verdict] :
               Commits(request, verdict)
               /\ reply' = Answer(request.ops, verdict)
    BY <2>1, AnswerHolds
  <2>2. CASE reply' = Failure("auth")
    BY <1>3, <2>2 DEF ReplyKind
  <2> QED
    BY <1>6, <2>1, <2>2 DEF Execute
<1>7. CASE Environment /\ ~Execute
  <2>1. \/ UNCHANGED reply
        \/ reply' = NoReply
        \/ \E kind \in ReplyKind : reply' = Failure(kind)
    BY <1>7, KindAssumption
    DEF Environment, Refuse, TimeOut, Crash, SignOut, SignIn, BackoffElapsed,
        ExecuteLate, Idle, wireVars, ReplyKind
  <2> QED
    BY <1>2, <1>3, <1>7, <2>1 DEF Next
<1> QED
  BY <1>1, <1>4, <1>5, <1>6, <1>7 DEF Next

(* A conflict, with all it settles, deletes and acknowledges no row. *)
LEMMA ConflictKeeps ==
  ASSUME TypeOK, NEW p \in Op, NEW cd, Conflict(p, cd),
         NEW o \in Op, status'[o] \in {"none", "acked"}
  PROVE  status[o] \in {"none", "acked"}
<1>1. CASE BackOff(p)
  BY <1>1 DEF BackOff, Write, TypeOK
<1>2. CASE Terminate(p, cd)
  BY <1>2 DEF Terminate, TypeOK
<1> QED
  BY <1>1, <1>2 DEF Conflict

(* A flush deletes or acknowledges a row only for a passing answer:        *)
(* backoffs, conflicts and account changes leave it in the queue.          *)
LEMMA TransportKeeps ==
  ASSUME TypeOK, ReplyInv, Transport, NEW o \in Op,
         status'[o] \in {"none", "acked"}
  PROVE  status[o] \in {"none", "acked"} \/ receipt[o] = "accepted"
<1>1. CASE UNCHANGED status
  BY <1>1
<1>2. CASE Settle
  BY <1>2 DEF Settle, TypeOK
<1>3. ASSUME NEW p \in Op, Take(p)
      PROVE  status[o] \in {"none", "acked"}
  BY <1>3 DEF Take, TypeOK, rowVars
<1>4. ASSUME NEW p \in Op, Guard(p)
      PROVE  status[o] \in {"none", "acked"}
  <2>1. CASE UNCHANGED rowVars
    BY <2>1 DEF rowVars
  <2>2. CASE \E st \in {"failed", "pending"} :
               Write(p, st, "none", held.tried, TRUE)
    BY <2>2 DEF Write, TypeOK
  <2>3. CASE BackOff(p)
    BY <2>3 DEF BackOff, Write, TypeOK
  <2>4. CASE \E cd \in {"stale", "final"} : Conflict(p, cd)
    BY <2>4, ConflictKeeps
  <2> QED
    BY <1>4, <2>1, <2>2, <2>3, <2>4 DEF Guard
<1>5. ASSUME NEW p \in Op, Commit(p)
      PROVE  status[o] \in {"none", "acked"} \/ receipt[o] = "accepted"
  <2>1. CASE reply.results[p] \in Passing
    <3>1. receipt[p] = "accepted"
      BY <2>1 DEF ReplyInv
    <3>2. o # p => status'[o] = status[o]
      <4>1. CASE Write(p, "acked", "none", held.tried, TRUE)
        BY <4>1 DEF Write
      <4>2. CASE Write(p, "none", "none", FALSE, TRUE)
        BY <4>2 DEF Write
      <4> QED
        BY <1>5, <2>1, <4>1, <4>2 DEF Commit, Passing
    <3> QED
      BY <3>1, <3>2
  <2>2. CASE reply.results[p] \in {"final", "open"}
    <3>1. Conflict(p, reply.results[p])
      BY <1>5, <2>2 DEF Commit, Passing
    <3> QED
      BY <3>1, ConflictKeeps
  <2> QED
    BY <1>5, <2>1, <2>2 DEF Commit
<1>6. CASE \/ StartFlight \/ ReadRows \/ Select \/ CheckAccount \/ Transmit
           \/ Receive \/ Finish
  BY <1>1, <1>6 DEF StartFlight, ReadRows, Select, CheckAccount, Transmit,
                    Receive, Finish, rowVars
<1> QED
  BY <1>2, <1>3, <1>4, <1>5, <1>6 DEF Transport

(* Every step leaves an operation unsettled unless it is accepted.         *)
LEMMA SettledStep ==
  ASSUME TypeOK, ReplyInv, Next, NEW o \in Op, Settled(o)'
  PROVE  Settled(o) \/ receipt[o] = "accepted"
<1> USE DEF Settled
<1>1. ASSUME NEW p \in Op, Enqueue(p) PROVE Settled(o)
  BY <1>1 DEF Enqueue, TypeOK, commandVars
<1>2. ASSUME NEW g \in Op, NEW r \in Op, EnqueuePromoted(g, r)
      PROVE  Settled(o)
  BY <1>2 DEF EnqueuePromoted, TypeOK, commandVars
<1>3. ASSUME NEW p \in Op, CompactReceipt(p) PROVE Settled(o)
  BY <1>3 DEF CompactReceipt, TypeOK, lineVars, commandVars
<1>4. ASSUME NEW p \in Op,
             RetryFailed(p) \/ ChooseStart(p) \/ ChooseConflict(p)
      PROVE  Settled(o)
  BY <1>4 DEF RetryFailed, ChooseStart, ChooseConflict, rowVars, lineVars,
              commandVars
<1>5. ASSUME NEW fresh \in SUBSET Op, Without(choice.chain, fresh),
             \A p \in Op \ fresh : seq'[p] = seq[p]
      PROVE  Settled(o)
  <2>1. o \notin fresh
    BY <1>5 DEF Without
  <2>2. CASE o \in choice.chain
    BY <1>5, <2>1, <2>2 DEF Without
  <2>3. CASE o \notin choice.chain
    BY <1>5, <2>1, <2>3 DEF Without
  <2> QED
    BY <2>2, <2>3
<1>6. CASE DiscardConflict
  BY <1>5, <1>6 DEF DiscardConflict, lineVars
<1>7. ASSUME NEW n \in Op, RecreateConflict(n) PROVE Settled(o)
  BY <1>5, <1>7 DEF RecreateConflict, TypeOK
<1>8. CASE AbortStart
  BY <1>8 DEF AbortStart, TypeOK, lineVars
<1>9. CASE Transport
  <2>1. UNCHANGED <<lineVars, choice, dropped>>
    BY <1>9 DEF Transport, StartFlight, ReadRows, Settle, Select, CheckAccount,
         Transmit, Receive, Finish, Take, Guard, Commit, commandVars
  <2> QED
    BY <1>9, <2>1, TransportKeeps DEF lineVars, commandVars
<1>10. CASE Environment
  <2>1. UNCHANGED <<status, lineVars, dropped>>
    BY <1>10 DEF Environment, Execute, Refuse, TimeOut, Crash, SignOut, SignIn,
         BackoffElapsed, ExecuteLate, rowVars, commandVars
  <2> QED
    BY <2>1 DEF lineVars
<1> QED
  BY <1>1, <1>2, <1>3, <1>4, <1>6, <1>7, <1>8, <1>9, <1>10 DEF Next, Command

(* Nothing is lost: an operation the user issued and did not discard is    *)
(* still in the outbox, or the server committed its effects exactly once.  *)
(* No order of crashes, lost or late answers, account switches and         *)
(* commands lets the flush delete a row the ledger does not hold.          *)
THEOREM NothingIsLost == Spec => []NothingLost
<1>1. Init => ReplyInv /\ SettledInv
  BY DEF Init, ReplyInv, SettledInv, Settled, NoReply, NoResults, Passing
<1>2. TypeOK /\ ReplyInv /\ SettledInv /\ [Next]_vars => SettledInv'
  <2> SUFFICES ASSUME TypeOK, ReplyInv, SettledInv, [Next]_vars, NEW o \in Op,
                      Settled(o)'
               PROVE  receipt'[o] = "accepted"
    BY DEF SettledInv
  <2>1. CASE Next
    BY <2>1, SettledStep, ReceiptStays DEF SettledInv
  <2>2. CASE UNCHANGED vars
    BY <2>2 DEF SettledInv, Settled, vars, rowVars, lineVars, commandVars,
                serverVars
  <2> QED
    BY <2>1, <2>2
<1>3. LedgerInv /\ SettledInv => NothingLost
  BY DEF LedgerInv, SettledInv, Settled, NothingLost
<1> QED
  BY <1>1, <1>2, <1>3, NextReply, InitLedger, NextLedger, TypeCorrect, PTL
  DEF Spec

-----------------------------------------------------------------------------
(* Accounts *)

(* A batch about to leave, and every request, holds operations of the      *)
(* account it names; effects are signed by the owner.                      *)
RequestInv ==
  /\ pc = "transmit" => batch \subseteq Lane(flight)
  /\ \A m \in late \cup {request} : m.ops \subseteq Lane(m.actor)

SignerInv ==
  \A o \in Op : receipt[o] = "accepted" => signer[o] = Owner[o]

(* No step puts an operation under the name of another account: the check  *)
(* of exchangeGroup is the last time account and batch may disagree.       *)
LEMMA NextRequest == TypeOK /\ RequestInv /\ [Next]_vars => RequestInv'
<1> SUFFICES ASSUME TypeOK, RequestInv, [Next]_vars PROVE RequestInv'
  OBVIOUS
<1>1. ASSUME UNCHANGED <<pc, batch, flight>>
               \/ pc' # "transmit"
               \/ batch' \subseteq Lane(flight'),
             \A m \in (late \cup {request})' :
               m \in late \cup {request} \/ m = NoRequest
               \/ m.ops \subseteq Lane(m.actor)
      PROVE  RequestInv'
  BY <1>1 DEF RequestInv, NoRequest, Lane
<1>2. CASE Command \/ UNCHANGED vars
  <2>1. UNCHANGED <<pc, batch, flight, request, late>>
    BY <1>2 DEF Command, Enqueue, EnqueuePromoted, CompactReceipt, RetryFailed,
         ChooseStart, ChooseConflict, RecreateConflict, AbortStart,
         DiscardConflict, wireVars, flushVars, vars
  <2> QED
    BY <1>1, <2>1
<1>3. CASE CheckAccount
  BY <1>1, <1>3 DEF CheckAccount
<1>4. CASE Transmit
  <2>1. ASSUME NEW ops \in SUBSET batch,
               request' = [ops |-> ops, actor |-> flight, cred |-> session],
               pc = "transmit", pc' # "transmit", UNCHANGED late
        PROVE  RequestInv'
    BY <1>1, <2>1 DEF RequestInv
  <2>2. CASE pc' # "transmit" /\ UNCHANGED <<request, late>>
    BY <1>1, <2>2
  <2> QED
    BY <1>4, <2>1, <2>2 DEF Transmit
<1>5. CASE Transport /\ ~CheckAccount /\ ~Transmit
  <2>1. pc' # "transmit"
    BY <1>5 DEF Transport, StartFlight, ReadRows, Settle, Select, Receive,
         Finish, Take, Guard, Commit, Idle
  <2>2. UNCHANGED late /\ (UNCHANGED request \/ request' = NoRequest)
    BY <1>5 DEF Transport, StartFlight, ReadRows, Settle, Select, Receive,
         Finish, Take, Guard, Commit, Idle, wireVars
  <2> QED
    BY <1>1, <2>1, <2>2
<1>6. CASE Environment
  <2>1. UNCHANGED <<pc, batch, flight>> \/ pc' # "transmit"
    BY <1>6 DEF Environment, Execute, Refuse, TimeOut, Crash, SignOut, SignIn,
         BackoffElapsed, ExecuteLate, Idle, flushVars
  <2>2. /\ request' = request \/ request' = NoRequest
        /\ late' \subseteq late \cup {request}
    BY <1>6 DEF Environment, Execute, Refuse, TimeOut, Crash, SignOut, SignIn,
         BackoffElapsed, ExecuteLate, Idle, wireVars
  <2> QED
    BY <1>1, <2>1, <2>2
<1> QED
  BY <1>2, <1>3, <1>4, <1>5, <1>6 DEF Next

(* sync_group signs with the credential only when it is the account the    *)
(* request names, hence the owner of every operation in it.                *)
LEMMA NextSigner ==
  TypeOK /\ RequestInv /\ SignerInv /\ [Next]_vars => SignerInv'
<1> SUFFICES ASSUME TypeOK, RequestInv, SignerInv, [Next]_vars,
                    NEW o \in Op, receipt'[o] = "accepted"
             PROVE  signer'[o] = Owner[o]
  BY DEF SignerInv
<1>1. CASE UNCHANGED serverVars
  BY <1>1 DEF SignerInv, serverVars
<1>2. ASSUME NEW m \in Request, NEW verdict \in [m.ops -> Verdict],
             m.ops \subseteq Lane(m.actor), Commits(m, verdict)
      PROVE  signer'[o] = Owner[o]
  <2>1. m.ops \in SUBSET Op
    BY DEF Request
  <2>2. signer'[o] = IF o \in m.ops /\ verdict[o] = "accepted"
                     THEN m.cred ELSE signer[o]
    BY <1>2 DEF Commits
  <2>3. CASE o \in m.ops /\ verdict[o] = "accepted"
    BY <1>2, <2>2, <2>3 DEF Commits, Lane
  <2>4. CASE ~(o \in m.ops /\ verdict[o] = "accepted")
    <3>1. receipt[o] = "accepted"
      BY <1>2, <2>1, <2>4, SyncGroupOnce DEF Commits, TypeOK, LedgerTypeOK
    <3> QED
      BY <2>2, <2>4, <3>1 DEF SignerInv
  <2> QED
    BY <2>3, <2>4
<1>3. \A m \in late \cup {request} :
        m \in Request /\ m.ops \subseteq Lane(m.actor)
  BY DEF TypeOK, RequestInv
<1>4. CASE Next
  BY <1>1, <1>2, <1>3, <1>4, ServerStep
<1>5. CASE UNCHANGED vars
  BY <1>1, <1>5 DEF vars
<1> QED
  BY <1>4, <1>5

(* Whatever account signs in or out at any await of the exchange, the      *)
(* server commits an operation only with the credential of the account     *)
(* that issued it.                                                         *)
THEOREM CommittedByOwner == Spec => []OwnCredential
<1>1. Init => RequestInv /\ SignerInv
  BY DEF Init, LedgerInit, RequestInv, SignerInv, NoRequest, Lane
<1>2. LedgerInv /\ SignerInv => OwnCredential
  BY DEF LedgerInv, SignerInv, OwnCredential
<1> QED
  BY <1>1, <1>2, NextRequest, NextSigner, InitLedger, NextLedger, TypeCorrect,
     PTL DEF Spec

-----------------------------------------------------------------------------
(* The outbox implements the promise of OperationDelivery *)

(* A row belongs to an issued operation that was not discarded, and only   *)
(* arrivals are kept as acknowledged.                                      *)
RowInv ==
  \A o \in Op :
    /\ seq[o] = 0 => status[o] = "none" /\ o \notin dropped
    /\ o \in dropped => status[o] = "none"
    /\ status[o] = "acked" => o \in Arrival

(* Sequences are positive, and only gathering starts are aborted. *)
LineInv ==
  /\ \A a \in Actor : counter[a] > 0
  /\ choice.kind = "start" => choice.root \subseteq Gathering

(* The flush never holds an acknowledged row: it is alone in acknowledging *)
(* rows, and lets go of them when it does.                                 *)
WorkInv ==
  /\ \A o \in batch \cup doomed \cup revive : status[o] # "acked"
  /\ pc # "settle" => doomed = {} /\ revive = {}

(* Only issued operations are sent. *)
SentInv ==
  /\ \A o \in batch : seq[o] > 0
  /\ \A m \in late \cup {request} : \A o \in m.ops : seq[o] > 0

OutboxInv == RowInv /\ LineInv /\ WorkInv /\ SentInv

(* The empty outbox. *)
LEMMA InitOutbox == Init => OutboxInv
BY OwnerAssumption
DEF Init, OutboxInv, RowInv, LineInv, WorkInv, SentInv, NoChoice, NoRequest

(* How a step of the transport lane may change rows: none appears, none    *)
(* vanishes or becomes acknowledged but by a commit, and acknowledged rows *)
(* outside the batch stay.                                                 *)
LEMMA TransportRows ==
  ASSUME TypeOK, OutboxInv, Transport, NEW o \in Op
  PROVE  /\ status[o] = "none" => status'[o] = "none"
         /\ status[o] = "acked" => status'[o] = "acked"
         /\ status'[o] \in {"none", "acked"} =>
              \/ status'[o] = status[o]
              \/ /\ Commit(o) /\ reply.results[o] \in Passing
                 /\ \A p \in Op \ {o} : status'[p] = status[p]
                 /\ status'[o] = "acked" => o \in Arrival
<1> DEFINE Claim ==
      /\ status[o] = "none" => status'[o] = "none"
      /\ status[o] = "acked" => status'[o] = "acked"
      /\ status'[o] \in {"none", "acked"} => status'[o] = status[o]
<1>1. CASE UNCHANGED status
  BY <1>1
<1>2. CASE Settle
  BY <1>2 DEF Settle, TypeOK, OutboxInv, WorkInv, Rows, HasRow
<1>3. ASSUME NEW p \in Op, p \in batch,
             NEW st \in {"pending", "failed", "inflight", "conflict"},
             \A q \in Op : status'[q] = IF q = p /\ HasRow(p) THEN st
                                        ELSE status[q]
      PROVE  Claim
  BY <1>3 DEF HasRow, OutboxInv, WorkInv, TypeOK
<1>4. ASSUME NEW p \in Op, Take(p) PROVE Claim
  <2>1. CASE UNCHANGED status
    BY <2>1
  <2>2. CASE HasRow(p) /\ status' = [status EXCEPT ![p] = "inflight"]
    <3>1. p \in batch
      BY <1>4 DEF Take, IsFirst
    <3>2. \A q \in Op : status'[q] = IF q = p /\ HasRow(p) THEN "inflight"
                                     ELSE status[q]
      BY <2>2 DEF TypeOK
    <3> QED
      BY <1>3, <3>1, <3>2
  <2> QED
    BY <1>4, <2>1, <2>2 DEF Take
<1>5. ASSUME NEW p \in Op, p \in batch, BackOff(p) PROVE Claim
  BY <1>3, <1>5 DEF BackOff, Write
<1>6. ASSUME NEW p \in Op, p \in batch, NEW cd, Conflict(p, cd) PROVE Claim
  <2>1. CASE Terminate(p, cd)
    BY <1>6, <2>1
    DEF Terminate, DependencyChain, Rows, HasRow, OutboxInv, WorkInv, TypeOK
  <2> QED
    BY <1>5, <1>6, <2>1 DEF Conflict
<1>7. ASSUME NEW p \in Op, Guard(p) PROVE Claim
  <2>1. p \in batch
    BY <1>7 DEF Guard, IsFirst
  <2>2. CASE UNCHANGED rowVars
    BY <2>2 DEF rowVars
  <2>3. CASE \E st \in {"failed", "pending"} :
               Write(p, st, "none", held.tried, TRUE)
    BY <1>3, <2>1, <2>3 DEF Write
  <2>4. CASE BackOff(p)
    BY <1>5, <2>1, <2>4
  <2>5. CASE \E cd \in {"stale", "final"} : Conflict(p, cd)
    BY <1>6, <2>1, <2>5
  <2> QED
    BY <1>7, <2>2, <2>3, <2>4, <2>5 DEF Guard
<1>8. ASSUME NEW p \in Op, Commit(p), ~(reply.results[p] \in Passing)
      PROVE  Claim
  <2>1. p \in batch /\ Conflict(p, reply.results[p])
    BY <1>8 DEF Commit, IsFirst
  <2> QED
    BY <1>6, <2>1
<1>9. ASSUME NEW p \in Op, Commit(p), reply.results[p] \in Passing, p # o
      PROVE  Claim
  <2>1. CASE Write(p, "acked", "none", held.tried, TRUE)
    BY <1>9, <2>1 DEF Write
  <2>2. CASE Write(p, "none", "none", FALSE, TRUE)
    BY <1>9, <2>2 DEF Write
  <2> QED
    BY <1>9, <2>1, <2>2 DEF Commit, Passing
<1>10. CASE Commit(o) /\ reply.results[o] \in Passing
  <2>1. status[o] # "acked"
    BY <1>10 DEF Commit, IsFirst, OutboxInv, WorkInv
  <2>2. CASE o \in Arrival
    <3>1. Write(o, "acked", "none", held.tried, TRUE)
      BY <1>10, <2>2 DEF Commit, Passing
    <3>2. \A q \in Op : status'[q] = IF q = o /\ HasRow(o) THEN "acked"
                                     ELSE status[q]
      BY <3>1 DEF Write
    <3> QED
      BY <1>10, <2>1, <2>2, <3>2 DEF HasRow
  <2>3. CASE o \notin Arrival
    <3>1. Write(o, "none", "none", FALSE, TRUE)
      BY <1>10, <2>3 DEF Commit, Passing
    <3>2. \A q \in Op : status'[q] = IF q = o /\ HasRow(o) THEN "none"
                                     ELSE status[q]
      BY <3>1 DEF Write
    <3> QED
      BY <1>10, <2>1, <2>3, <3>2 DEF HasRow
  <2> QED
    BY <2>2, <2>3
<1>11. CASE \/ StartFlight \/ ReadRows \/ Select \/ CheckAccount \/ Transmit
            \/ Receive \/ Finish
  BY <1>1, <1>11 DEF StartFlight, ReadRows, Select, CheckAccount, Transmit,
                     Receive, Finish, rowVars
<1> QED
  BY <1>2, <1>4, <1>7, <1>8, <1>9, <1>10, <1>11 DEF Transport

(* No command brings back a row it did not issue, or acknowledges one.     *)
LEMMA CommandRows ==
  ASSUME TypeOK, OutboxInv, Command
  PROVE  /\ RowInv' /\ LineInv'
         /\ \A o \in Op : /\ seq[o] > 0 => seq'[o] > 0
                          /\ status'[o] = "acked" => status[o] = "acked"
<1> USE DEF OutboxInv, RowInv, LineInv, TypeOK
<1>1. ASSUME NEW p \in Op, Enqueue(p)
      PROVE  /\ RowInv' /\ LineInv'
             /\ \A o \in Op : /\ seq[o] > 0 => seq'[o] > 0
                              /\ status'[o] = "acked" => status[o] = "acked"
  <2>1. \A o \in Op : /\ seq'[o] = IF o = p THEN counter[Owner[p]] ELSE seq[o]
                      /\ status'[o] = IF o = p THEN "pending" ELSE status[o]
    BY <1>1 DEF Enqueue
  <2>2. \A a \in Actor : counter'[a] > 0
    BY <1>1, OwnerAssumption DEF Enqueue
  <2>3. counter[Owner[p]] > 0
    BY OwnerAssumption
  <2>4. seq[p] = 0 /\ UNCHANGED <<choice, dropped>>
    BY <1>1 DEF Enqueue, Issuable, commandVars
  <2> QED
    BY <2>1, <2>2, <2>3, <2>4
<1>2. ASSUME NEW g \in Op, NEW r \in Op, EnqueuePromoted(g, r)
      PROVE  /\ RowInv' /\ LineInv'
             /\ \A o \in Op : /\ seq[o] > 0 => seq'[o] > 0
                              /\ status'[o] = "acked" => status[o] = "acked"
  <2>1. \A o \in Op :
          /\ seq'[o] = IF o = r THEN counter[Owner[g]] + 1
                       ELSE IF o = g THEN counter[Owner[g]] ELSE seq[o]
          /\ status'[o] = IF o \in {g, r} THEN "pending" ELSE status[o]
    BY <1>2 DEF EnqueuePromoted
  <2>2. \A a \in Actor : counter'[a] > 0
    BY <1>2, OwnerAssumption DEF EnqueuePromoted
  <2>3. counter[Owner[g]] \in Nat /\ counter[Owner[g]] > 0
    BY OwnerAssumption
  <2>4. seq[g] = 0 /\ seq[r] = 0 /\ UNCHANGED <<choice, dropped>>
    BY <1>2 DEF EnqueuePromoted, Issuable, commandVars
  <2> QED
    BY <2>1, <2>2, <2>3, <2>4
<1>3. ASSUME NEW p \in Op, CompactReceipt(p)
      PROVE  /\ RowInv' /\ LineInv'
             /\ \A o \in Op : /\ seq[o] > 0 => seq'[o] > 0
                              /\ status'[o] = "acked" => status[o] = "acked"
  BY <1>3 DEF CompactReceipt, lineVars, commandVars
<1>4. ASSUME NEW p \in Op,
             RetryFailed(p) \/ ChooseStart(p) \/ ChooseConflict(p)
      PROVE  /\ RowInv' /\ LineInv'
             /\ \A o \in Op : /\ seq[o] > 0 => seq'[o] > 0
                              /\ status'[o] = "acked" => status[o] = "acked"
  BY <1>4 DEF RetryFailed, ChooseStart, ChooseConflict, rowVars, lineVars,
              commandVars
<1>5. CASE DiscardConflict
  BY <1>5 DEF DiscardConflict, Without, NoChoice, lineVars
<1>6. ASSUME NEW n \in Op, RecreateConflict(n)
      PROVE  /\ RowInv' /\ LineInv'
             /\ \A o \in Op : /\ seq[o] > 0 => seq'[o] > 0
                              /\ status'[o] = "acked" => status[o] = "acked"
  <2>1. \A o \in Op :
          /\ seq'[o] = IF o = n THEN counter[Owner[n]] ELSE seq[o]
          /\ status'[o] = IF o = n THEN "pending"
                          ELSE IF o \in choice.chain THEN "none" ELSE status[o]
    BY <1>6 DEF RecreateConflict, Without
  <2>2. \A a \in Actor : counter'[a] > 0
    BY <1>6, OwnerAssumption DEF RecreateConflict
  <2>3. counter[Owner[n]] > 0
    BY OwnerAssumption
  <2>4. /\ seq[n] = 0 /\ choice'.kind = "none"
        /\ dropped' = dropped \cup
             {q \in choice.chain : status[q] \notin {"none", "acked"}}
    BY <1>6 DEF RecreateConflict, Without, NoChoice
  <2>5. status[n] = "none" /\ n \notin dropped /\ n \notin dropped'
    BY <2>4
  <2>6. RowInv'
    BY <2>1, <2>3, <2>4, <2>5
  <2> QED
    BY <2>1, <2>2, <2>3, <2>4, <2>6
<1>7. CASE AbortStart
  BY <1>7 DEF AbortStart, NoChoice, Rows, HasRow, lineVars
<1> QED
  BY <1>1, <1>2, <1>3, <1>4, <1>5, <1>6, <1>7 DEF Command

(* Every step keeps the outbox in order. *)
LEMMA NextOutbox == TypeOK /\ OutboxInv /\ [Next]_vars => OutboxInv'
<1> SUFFICES ASSUME TypeOK, OutboxInv, [Next]_vars PROVE OutboxInv'
  OBVIOUS
<1>1. CASE UNCHANGED vars
  BY <1>1 DEF vars, rowVars, lineVars, commandVars, flushVars, wireVars,
              OutboxInv, RowInv, LineInv, WorkInv, SentInv
<1>2. CASE Command
  <2>1. UNCHANGED <<flushVars, wireVars>>
    BY <1>2 DEF Command, Enqueue, EnqueuePromoted, CompactReceipt, RetryFailed,
         ChooseStart, ChooseConflict, RecreateConflict, AbortStart,
         DiscardConflict
  <2>2. ASSUME NEW o \in Op
        PROVE  /\ seq[o] > 0 => seq'[o] > 0
               /\ status'[o] = "acked" => status[o] = "acked"
    BY <1>2, CommandRows
  <2>3. WorkInv'
    BY <2>1, <2>2 DEF OutboxInv, WorkInv, flushVars, TypeOK
  <2>4. \A m \in late \cup {request} : m.ops \subseteq Op
    BY DEF TypeOK, Request
  <2>5. SentInv'
    <3>1. \A o \in batch : seq'[o] > 0
      BY <2>2 DEF OutboxInv, SentInv, TypeOK
    <3>2. \A m \in late \cup {request} : \A o \in m.ops : seq'[o] > 0
      BY <2>2, <2>4 DEF OutboxInv, SentInv
    <3> QED
      BY <2>1, <3>1, <3>2 DEF SentInv, flushVars, wireVars
  <2> QED
    BY <1>2, <2>3, <2>5, CommandRows DEF OutboxInv
<1>3. CASE Transport
  <2>1. UNCHANGED <<lineVars, choice, dropped>>
    BY <1>3 DEF Transport, StartFlight, ReadRows, Settle, Select, CheckAccount,
         Transmit, Receive, Finish, Take, Guard, Commit, commandVars
  <2>2. RowInv' /\ LineInv'
    <3>1. LineInv'
      BY <2>1 DEF OutboxInv, LineInv, lineVars, commandVars
    <3>2. ASSUME NEW o \in Op
          PROVE  /\ status[o] = "none" => status'[o] = "none"
                 /\ status'[o] = "acked" => status[o] = "acked" \/ o \in Arrival
      BY <1>3, TransportRows
    <3> QED
      BY <2>1, <3>1, <3>2 DEF OutboxInv, RowInv, lineVars, commandVars
  <2>3. WorkInv'
    <3>1. CASE ReadRows
      BY <3>1 DEF ReadRows, DependencyChain, Recoverable, OutboxInv, WorkInv,
                  rowVars
    <3>2. CASE Settle
      <4>1. \A o \in batch : status'[o] # "acked"
        BY <3>2 DEF Settle, OutboxInv, WorkInv, TypeOK
      <4> QED
        BY <3>2, <4>1 DEF Settle, WorkInv
    <3>3. CASE Idle
      BY <3>3 DEF Idle, WorkInv
    <3>4. CASE Select /\ ~Idle
      <4>1. /\ batch' = Prefix(session) /\ pc = "select"
            /\ UNCHANGED <<doomed, revive, status>>
        BY <3>4 DEF Select, rowVars
      <4>2. \A o \in Prefix(session) : status[o] # "acked"
        BY DEF Prefix, IsOpen, Open
      <4>3. doomed = {} /\ revive = {}
        BY <4>1 DEF OutboxInv, WorkInv
      <4>4. \A o \in batch' : status'[o] # "acked"
        BY <4>1, <4>2
      <4>5. doomed' = {} /\ revive' = {}
        BY <4>1, <4>3
      <4> QED
        BY <4>4, <4>5 DEF WorkInv
    <3>5. ASSUME NEW p \in Op, Commit(p), ~Idle PROVE WorkInv'
      <4>1. /\ batch' = batch \ {p} /\ pc = "commit" /\ pc' = "take"
            /\ UNCHANGED <<doomed, revive>>
        BY <3>5 DEF Commit
      <4>2. ASSUME NEW o \in Op \ {p}, status'[o] = "acked"
            PROVE  status[o] = "acked"
        BY <1>3, <3>5, <4>2, TransportRows DEF Commit, Write, Passing
      <4> QED
        BY <4>1, <4>2 DEF OutboxInv, WorkInv, TypeOK
    <3>6. CASE /\ ~Idle /\ ~ReadRows /\ ~Settle /\ ~Select
               /\ ~\E p \in Op : Commit(p)
      <4>1. /\ batch' \subseteq batch /\ UNCHANGED <<doomed, revive>>
            /\ pc # "settle"
        BY <1>3, <3>6
        DEF Transport, StartFlight, CheckAccount, Transmit, Receive, Finish,
            Take, Guard
      <4>2. ASSUME NEW o \in Op, status'[o] = "acked"
            PROVE  status[o] = "acked"
        BY <1>3, <3>6, <4>2, TransportRows
      <4> QED
        BY <4>1, <4>2 DEF OutboxInv, WorkInv, TypeOK
    <3> QED
      BY <1>3, <3>1, <3>2, <3>3, <3>4, <3>5, <3>6
  <2>4. SentInv'
    <3>1. CASE Select /\ ~Idle
      <4>1. \A o \in Op : IsOpen(o) => seq[o] > 0
        BY DEF IsOpen, Open, OutboxInv, RowInv, TypeOK
      <4> QED
        BY <2>1, <3>1, <4>1
        DEF Select, Prefix, Lane, OutboxInv, SentInv, lineVars
    <3>2. CASE Transmit
      BY <2>1, <3>2 DEF Transmit, OutboxInv, SentInv, lineVars
    <3>3. CASE Idle /\ UNCHANGED late
      BY <2>1, <3>3 DEF Idle, NoRequest, OutboxInv, SentInv, lineVars
    <3>4. CASE ~Idle /\ ~Select /\ ~Transmit
      <4>1. batch' \subseteq batch /\ UNCHANGED <<request, late>>
        BY <1>3, <3>4
        DEF Transport, StartFlight, ReadRows, Settle, CheckAccount, Receive,
            Finish, Take, Guard, Commit, wireVars
      <4> QED
        BY <2>1, <4>1 DEF OutboxInv, SentInv, lineVars
    <3>5. UNCHANGED late
      BY <1>3
      DEF Transport, StartFlight, ReadRows, Settle, Select, CheckAccount,
          Transmit, Receive, Finish, Take, Guard, Commit, wireVars
    <3> QED
      BY <3>1, <3>2, <3>3, <3>4, <3>5
  <2> QED
    BY <2>2, <2>3, <2>4 DEF OutboxInv
<1>4. CASE Environment
  <2>1. /\ UNCHANGED <<status, lineVars, dropped>>
        /\ choice' \in {choice, NoChoice}
        /\ request' \in {request, NoRequest}
        /\ late' \subseteq late \cup {request}
    BY <1>4 DEF Environment, Execute, Refuse, TimeOut, Crash, SignOut, SignIn,
         BackoffElapsed, ExecuteLate, Idle, rowVars, commandVars, wireVars
  <2>2. \/ UNCHANGED <<batch, doomed, revive, pc>>
        \/ batch' = {} /\ doomed' = {} /\ revive' = {}
        \/ pc = "wait" /\ UNCHANGED <<batch, doomed, revive>>
    BY <1>4 DEF Environment, Execute, Refuse, TimeOut, Crash, SignOut, SignIn,
         BackoffElapsed, ExecuteLate, Idle, flushVars
  <2>3. RowInv' /\ LineInv'
    BY <2>1 DEF OutboxInv, RowInv, LineInv, NoChoice, lineVars
  <2>4. WorkInv'
    BY <2>1, <2>2 DEF OutboxInv, WorkInv
  <2>5. SentInv'
    BY <2>1, <2>2 DEF OutboxInv, SentInv, NoRequest, lineVars
  <2> QED
    BY <2>3, <2>4, <2>5 DEF OutboxInv
<1> QED
  BY <1>1, <1>2, <1>3, <1>4 DEF Next

Fates == [o \in Op |-> Fate(o)]

(* A step that keeps the fate of every operation and applies none is a     *)
(* stutter of the promise.                                                 *)
LEMMA FatesStay ==
  ASSUME UNCHANGED effects, \A o \in Op : Fate(o)' = Fate(o)
  PROVE  UNCHANGED <<Fates, effects>>
BY DEF Fates

(* A command issues, abandons or replaces operations, or changes no fate. *)
LEMMA CommandDelivers ==
  ASSUME TypeOK, OutboxInv, Command
  PROVE  [Delivery!Next]_<<Fates, effects>>
<1> USE DEF OutboxInv, RowInv, LineInv, TypeOK
<1>1. UNCHANGED effects
  BY DEF Command, Enqueue, EnqueuePromoted, CompactReceipt, RetryFailed,
         ChooseStart, ChooseConflict, RecreateConflict, AbortStart,
         DiscardConflict, serverVars
<1>2. ASSUME NEW S \in SUBSET Op, S # {},
             \A o \in S : Fate(o) = "fresh" /\ Fate(o)' = "waiting",
             \A o \in Op \ S : Fate(o)' = Fate(o)
      PROVE  Delivery!Next
  <2>1. Delivery!Issue(S)
    BY <1>1, <1>2 DEF Delivery!Issue, Delivery!Move
  <2> QED
    BY <2>1 DEF Delivery!Next
<1>3. ASSUME NEW p \in Op, Enqueue(p) PROVE Delivery!Next
  <2>1. \A o \in Op : /\ seq'[o] = IF o = p THEN counter[Owner[p]] ELSE seq[o]
                      /\ status'[o] = IF o = p THEN "pending" ELSE status[o]
    BY <1>3 DEF Enqueue
  <2>2. /\ counter[Owner[p]] > 0 /\ counter[Owner[p]] # 0
        /\ seq[p] = 0 /\ p \notin dropped /\ UNCHANGED dropped
    <3>1. counter[Owner[p]] \in Nat /\ counter[Owner[p]] > 0
      BY OwnerAssumption
    <3>2. seq[p] = 0 /\ UNCHANGED dropped
      BY <1>3 DEF Enqueue, Issuable, commandVars
    <3> QED
      BY <3>1, <3>2
  <2>3. \A o \in {p} : Fate(o) = "fresh" /\ Fate(o)' = "waiting"
    BY <2>1, <2>2 DEF Fate
  <2>4. \A o \in Op \ {p} : Fate(o)' = Fate(o)
    BY <2>1, <2>2 DEF Fate
  <2>5. {p} \in SUBSET Op /\ {p} # {}
    OBVIOUS
  <2> QED
    BY <1>2, <2>3, <2>4, <2>5
<1>4. ASSUME NEW g \in Op, NEW r \in Op, EnqueuePromoted(g, r)
      PROVE  Delivery!Next
  <2>1. \A o \in Op :
          /\ seq'[o] = IF o = r THEN counter[Owner[g]] + 1
                       ELSE IF o = g THEN counter[Owner[g]] ELSE seq[o]
          /\ status'[o] = IF o \in {g, r} THEN "pending" ELSE status[o]
    BY <1>4 DEF EnqueuePromoted
  <2>2. /\ counter[Owner[g]] # 0 /\ counter[Owner[g]] + 1 # 0
        /\ seq[g] = 0 /\ seq[r] = 0 /\ g \notin dropped /\ r \notin dropped
        /\ UNCHANGED dropped
    <3>1. counter[Owner[g]] \in Nat /\ counter[Owner[g]] > 0
      BY OwnerAssumption
    <3> QED
      BY <1>4, <3>1 DEF EnqueuePromoted, Issuable, commandVars
  <2>3. \A o \in {g, r} : Fate(o) = "fresh" /\ Fate(o)' = "waiting"
    BY <2>1, <2>2 DEF Fate
  <2>4. \A o \in Op \ {g, r} : Fate(o)' = Fate(o)
    BY <2>1, <2>2 DEF Fate
  <2>5. {g, r} \in SUBSET Op /\ {g, r} # {}
    OBVIOUS
  <2> QED
    BY <1>2, <2>3, <2>4, <2>5
<1>5. ASSUME NEW p \in Op, CompactReceipt(p)
      PROVE  UNCHANGED <<Fates, effects>>
  <2>1. \A o \in Op : Fate(o)' = Fate(o)
    BY <1>5 DEF CompactReceipt, Fate, lineVars, commandVars
  <2> QED
    BY <1>1, <2>1, FatesStay
<1>6. ASSUME NEW p \in Op,
             RetryFailed(p) \/ ChooseStart(p) \/ ChooseConflict(p)
      PROVE  UNCHANGED <<Fates, effects>>
  <2>1. \A o \in Op : Fate(o)' = Fate(o)
    BY <1>6 DEF RetryFailed, ChooseStart, ChooseConflict, Fate, rowVars,
                lineVars, commandVars
  <2> QED
    BY <1>1, <2>1, FatesStay
<1>7. CASE AbortStart
  <2>1. \A o \in Op : /\ status'[o] = IF o \in choice.root /\ HasRow(o)
                                      THEN "conflict" ELSE status[o]
                      /\ o \in choice.root => o \notin Arrival
    BY <1>7, KindAssumption DEF AbortStart, Rows
  <2>2. \A o \in Op : Fate(o)' = Fate(o)
    BY <1>7, <2>1 DEF AbortStart, Fate, HasRow, lineVars
  <2> QED
    BY <1>1, <2>2, FatesStay
<1> DEFINE given == {o \in choice.chain : status[o] \notin {"none", "acked"}}
<1>8. given \in SUBSET Op /\ \A o \in given : Fate(o) = "waiting"
  BY DEF Fate
<1>9. CASE DiscardConflict
  <2>1. \A o \in Op : /\ seq'[o] = seq[o]
                      /\ status'[o] = IF o \in choice.chain THEN "none"
                                      ELSE status[o]
    BY <1>9 DEF DiscardConflict, Without, lineVars
  <2>2. dropped' = dropped \cup given
    BY <1>9 DEF DiscardConflict, Without
  <2>3. \A o \in given : Fate(o)' = "abandoned"
    BY <2>1, <2>2 DEF Fate
  <2>4. \A o \in Op \ given : Fate(o)' = Fate(o)
    BY <2>1, <2>2 DEF Fate
  <2>5. CASE given = {}
    BY <1>1, <2>4, <2>5, FatesStay
  <2>6. CASE given # {}
    <3>1. Delivery!Abandon(given)
      BY <1>1, <1>8, <2>3, <2>4, <2>6 DEF Delivery!Abandon, Delivery!Move
    <3> QED
      BY <1>8, <3>1 DEF Delivery!Next
  <2> QED
    BY <2>5, <2>6
<1>10. ASSUME NEW n \in Op, RecreateConflict(n) PROVE Delivery!Next
  <2>1. \A o \in Op :
          /\ seq'[o] = IF o = n THEN counter[Owner[n]] ELSE seq[o]
          /\ status'[o] = IF o = n THEN "pending"
                          ELSE IF o \in choice.chain THEN "none" ELSE status[o]
    BY <1>10 DEF RecreateConflict, Without
  <2>2. dropped' = dropped \cup given
    BY <1>10 DEF RecreateConflict, Without
  <2>3. /\ counter[Owner[n]] > 0 /\ counter[Owner[n]] # 0
        /\ seq[n] = 0 /\ n \notin dropped /\ n \notin given
    <3>1. counter[Owner[n]] \in Nat /\ counter[Owner[n]] > 0
      BY OwnerAssumption
    <3>2. seq[n] = 0 /\ status[n] = "none" /\ n \notin dropped
      BY <1>10 DEF RecreateConflict
    <3> QED
      BY <3>1, <3>2
  <2>4. Fate(n) = "fresh" /\ Fate(n)' = "waiting"
    BY <2>1, <2>2, <2>3 DEF Fate
  <2>5. \A o \in given : Fate(o)' = "abandoned"
    BY <2>1, <2>2, <2>3 DEF Fate
  <2>6. \A o \in Op \ (given \cup {n}) : Fate(o)' = Fate(o)
    BY <2>1, <2>2 DEF Fate
  <2>7. Delivery!Replace(given, n)
    BY <1>1, <1>8, <2>3, <2>4, <2>5, <2>6 DEF Delivery!Replace
  <2> QED
    BY <1>8, <2>7 DEF Delivery!Next
<1> QED
  BY <1>3, <1>4, <1>5, <1>6, <1>7, <1>9, <1>10 DEF Command

(* A flush delivers one operation, applied by then, or changes no fate.    *)
LEMMA TransportDelivers ==
  ASSUME TypeOK, LedgerInv, ReplyInv, OutboxInv, Transport
  PROVE  [Delivery!Next]_<<Fates, effects>>
<1>1. UNCHANGED <<effects, seq, dropped>>
  BY DEF Transport, StartFlight, ReadRows, Settle, Select, CheckAccount,
         Transmit, Receive, Finish, Take, Guard, Commit, lineVars, commandVars,
         serverVars
<1>2. ASSUME NEW o \in Op, ~(status'[o] \in {"none", "acked"}) \/
                           status'[o] = status[o]
      PROVE  Fate(o)' = Fate(o)
  BY <1>1, <1>2, TransportRows DEF Fate
<1>3. CASE \A o \in Op : ~(Commit(o) /\ reply.results[o] \in Passing)
  <2>1. \A o \in Op : Fate(o)' = Fate(o)
    BY <1>2, <1>3, TransportRows
  <2> QED
    BY <1>1, <2>1, FatesStay
<1>4. ASSUME NEW o \in Op, Commit(o), reply.results[o] \in Passing
      PROVE  [Delivery!Next]_<<Fates, effects>>
  <2>1. effects[o] = 1
    BY <1>4 DEF ReplyInv, LedgerInv
  <2>2. \A p \in Op \ {o} : Fate(p)' = Fate(p)
    <3>1. \A p \in Op \ {o} : status'[p] = status[p]
      BY <1>4 DEF Commit, Write, Passing
    <3> QED
      BY <1>2, <3>1
  <2>3. status'[o] \in {"none", "acked"} \/ status'[o] = status[o]
    BY <1>4 DEF Commit, Write, Passing
  <2>4. CASE Fate(o)' = Fate(o)
    BY <1>1, <2>2, <2>4, FatesStay
  <2>5. CASE Fate(o)' # Fate(o)
    <3>1. Fate(o) = "waiting" /\ Fate(o)' = "delivered"
      BY <1>1, <1>2, <2>3, <2>5 DEF Fate
    <3>2. Delivery!Deliver(o)
      BY <1>1, <2>1, <2>2, <3>1 DEF Delivery!Deliver, Delivery!Move
    <3> QED
      BY <3>2 DEF Delivery!Next
  <2> QED
    BY <2>4, <2>5
<1> QED
  BY <1>3, <1>4

(* A transaction of sync_group applies issued operations for the first     *)
(* time, or nothing.                                                       *)
LEMMA EnvironmentDelivers ==
  ASSUME TypeOK, LedgerInv, OutboxInv, Environment
  PROVE  [Delivery!Next]_<<Fates, effects>>
<1>1. \A o \in Op : Fate(o)' = Fate(o)
  <2>1. UNCHANGED <<status, seq, dropped>>
    BY DEF Environment, Execute, Refuse, TimeOut, Crash, SignOut, SignIn,
           BackoffElapsed, ExecuteLate, rowVars, lineVars, commandVars
  <2> QED
    BY <2>1 DEF Fate
<1>2. CASE UNCHANGED serverVars
  BY <1>1, <1>2, FatesStay DEF serverVars
<1>3. ASSUME NEW m \in late \cup {request}, NEW verdict \in [m.ops -> Verdict],
             Commits(m, verdict)
      PROVE  [Delivery!Next]_<<Fates, effects>>
  <2> DEFINE new == {o \in m.ops : verdict[o] = "accepted"}
  <2>1. m.ops \in SUBSET Op /\ \A o \in m.ops : seq[o] > 0
    BY DEF TypeOK, Request, OutboxInv, SentInv
  <2>2. new \in SUBSET Op
    BY <2>1
  <2>3. \A o \in new : effects[o] = 0 /\ Fate(o) # "fresh"
    <3>1. \A o \in new : receipt[o] # "accepted"
      BY <1>3, <2>1, SyncGroupOnce DEF Commits, TypeOK, LedgerTypeOK
    <3>2. \A o \in new : seq[o] # 0
      BY <2>1 DEF TypeOK
    <3> QED
      BY <2>2, <3>1, <3>2 DEF LedgerInv, Fate
  <2>4. \A o \in Op : effects'[o] = IF o \in new THEN effects[o] + 1
                                    ELSE effects[o]
    BY <1>3 DEF Commits, SyncGroup
  <2>5. effects' = [o \in Op |-> IF o \in new THEN 1 ELSE effects[o]]
    <3>1. effects' \in [Op -> Nat]
      BY <1>3, SyncGroupType DEF Commits, TypeOK, LedgerTypeOK
    <3>2. \A o \in Op : effects'[o] = IF o \in new THEN 1 ELSE effects[o]
      BY <2>3, <2>4
    <3> QED
      BY <3>1, <3>2
  <2>6. CASE new = {}
    <3>1. effects' = effects
      BY <2>5, <2>6 DEF TypeOK, LedgerTypeOK
    <3> QED
      BY <1>1, <3>1, FatesStay
  <2>7. CASE new # {}
    <3>1. Delivery!Apply(new)
      BY <1>1, <2>2, <2>3, <2>5, <2>7 DEF Delivery!Apply, Fates
    <3> QED
      BY <2>2, <3>1 DEF Delivery!Next
  <2> QED
    BY <2>6, <2>7
<1> QED
  BY <1>2, <1>3, ServerStep DEF Next

(* The outbox, the exchange and the ledger implement OperationDelivery:    *)
(* for every set of operations, every prerequisite relation and every      *)
(* number of faults, an issued operation waits until it is delivered or    *)
(* abandoned, and is delivered only after its effects were applied, once.  *)
THEOREM OutboxKeepsDelivery == Spec => KeepsDelivery
<1>1. Init => Delivery!Init
  BY DEF Init, LedgerInit, Delivery!Init, Fate
<1>2. TypeOK /\ LedgerInv /\ ReplyInv /\ OutboxInv /\ [Next]_vars
        => [Delivery!Next]_<<Fates, effects>>
  <2> SUFFICES ASSUME TypeOK, LedgerInv, ReplyInv, OutboxInv, [Next]_vars
               PROVE  [Delivery!Next]_<<Fates, effects>>
    OBVIOUS
  <2>1. CASE UNCHANGED vars
    <3>1. \A o \in Op : Fate(o)' = Fate(o)
      BY <2>1 DEF vars, Fate, rowVars, lineVars, commandVars
    <3> QED
      BY <2>1, <3>1, FatesStay DEF vars, serverVars
  <2> QED
    BY <2>1, CommandDelivers, TransportDelivers, EnvironmentDelivers DEF Next
<1>3. Init => ReplyInv
  BY DEF Init, ReplyInv, NoReply, NoResults, Passing
<1> QED
  BY <1>1, <1>2, <1>3, InitOutbox, NextOutbox, NextReply, InitLedger,
     NextLedger, TypeCorrect, PTL
  DEF Spec, KeepsDelivery, Delivery!Spec, Fates

-----------------------------------------------------------------------------
(* A final conflict stays *)

(* The flush holds open rows, rows deleted since, and starts a command is  *)
(* aborting; it holds none before it has selected.                         *)
BatchInv ==
  /\ \A o \in batch \ Gathering : status[o] \in Open \cup {"none"}
  /\ pc \in {"idle", "read", "settle", "select"} => batch = {}

(* What the flush is about to reopen is a recoverable conflict still.      *)
ReviveInv ==
  \A o \in revive : /\ seq[o] > 0
                    /\ \/ status[o] = "none" \/ o \in Gathering
                       \/ status[o] = "conflict" /\ code[o] = "stale"

FlushInv == BatchInv /\ ReviveInv

(* The transport lane at rest holds nothing. *)
LEMMA IdleFlush == Idle => FlushInv'
BY DEF Idle, FlushInv, BatchInv, ReviveInv

(* What the commands do to rows of operations that were issued before.     *)
LEMMA CommandKeeps ==
  ASSUME TypeOK, OutboxInv, Command, NEW o \in Op, seq[o] > 0
  PROVE  /\ seq'[o] = seq[o]
         /\ \/ status'[o] = status[o] /\ code'[o] = code[o]
            \/ status'[o] = "none"
            \/ o \in Gathering /\ status'[o] = "conflict"
<1> USE DEF OutboxInv, LineInv, TypeOK, rowVars, lineVars
<1>1. ASSUME NEW p \in Op, Enqueue(p)
      PROVE  UNCHANGED code /\ seq'[o] = seq[o] /\ status'[o] = status[o]
  BY <1>1 DEF Enqueue, Issuable
<1>2. ASSUME NEW g \in Op, NEW r \in Op, EnqueuePromoted(g, r)
      PROVE  UNCHANGED code /\ seq'[o] = seq[o] /\ status'[o] = status[o]
  BY <1>2 DEF EnqueuePromoted, Issuable
<1>3. ASSUME NEW p \in Op,
             RetryFailed(p) \/ ChooseStart(p) \/ ChooseConflict(p)
      PROVE  UNCHANGED <<code, status, seq>>
  BY <1>3 DEF RetryFailed, ChooseStart, ChooseConflict
<1>4. ASSUME NEW p \in Op, CompactReceipt(p)
      PROVE  /\ UNCHANGED <<code, seq>>
             /\ status'[o] = status[o] \/ status'[o] = "none"
  BY <1>4 DEF CompactReceipt
<1>5. CASE AbortStart
  BY <1>5 DEF AbortStart
<1>6. CASE DiscardConflict
  BY <1>6 DEF DiscardConflict, Without
<1>7. ASSUME NEW n \in Op, RecreateConflict(n)
      PROVE  /\ seq'[o] = seq[o]
             /\ \/ status'[o] = status[o] /\ code'[o] = code[o]
                \/ status'[o] = "none"
  <2>1. o # n
    BY <1>7 DEF RecreateConflict
  <2> QED
    BY <1>7, <2>1 DEF RecreateConflict, Without
<1> QED
  BY <1>1, <1>2, <1>3, <1>4, <1>5, <1>6, <1>7 DEF Command

(* Every step keeps what the flush holds in order. *)
LEMMA NextFlush ==
  TypeOK /\ OutboxInv /\ FlushInv /\ [Next]_vars => FlushInv'
<1> SUFFICES ASSUME TypeOK, OutboxInv, FlushInv, [Next]_vars
             PROVE  FlushInv'
  OBVIOUS
<1>1. CASE UNCHANGED vars
  BY <1>1 DEF vars, FlushInv, BatchInv, ReviveInv, rowVars, lineVars, flushVars
<1>2. CASE Command
  <2>1. UNCHANGED flushVars
    BY <1>2 DEF Command, Enqueue, EnqueuePromoted, CompactReceipt, RetryFailed,
         ChooseStart, ChooseConflict, RecreateConflict, AbortStart,
         DiscardConflict
  <2>2. batch \subseteq Op /\ revive \subseteq Op /\ \A o \in batch : seq[o] > 0
    BY DEF TypeOK, OutboxInv, SentInv
  <2>3. \A o \in batch \ Gathering : status'[o] \in Open \cup {"none"}
    <3> SUFFICES ASSUME NEW o \in batch \ Gathering
                 PROVE  status'[o] \in Open \cup {"none"}
      OBVIOUS
    <3>1. status'[o] = status[o] \/ status'[o] = "none"
      BY <1>2, <2>2, CommandKeeps
    <3> QED
      BY <3>1 DEF FlushInv, BatchInv
  <2>4. ReviveInv'
    <3> SUFFICES ASSUME NEW o \in revive
                 PROVE  /\ seq'[o] > 0
                        /\ \/ status'[o] = "none" \/ o \in Gathering
                           \/ status'[o] = "conflict" /\ code'[o] = "stale"
      BY <2>1 DEF ReviveInv, flushVars
    <3>1. seq[o] > 0 /\ (\/ status[o] = "none" \/ o \in Gathering
                         \/ status[o] = "conflict" /\ code[o] = "stale")
      BY DEF FlushInv, ReviveInv
    <3> QED
      BY <1>2, <2>2, <3>1, CommandKeeps
  <2> QED
    BY <2>1, <2>3, <2>4 DEF FlushInv, BatchInv, flushVars
<1>3. CASE Transport
  <2>1. ASSUME ReadRows PROVE FlushInv'
    <3>1. BatchInv'
      BY <2>1 DEF ReadRows, FlushInv, BatchInv, rowVars
    <3>2. \A o \in revive' : status[o] = "conflict" /\ code[o] = "stale"
      BY <2>1 DEF ReadRows, Recoverable
    <3>3. \A o \in revive' : o \in Op
      BY <2>1 DEF ReadRows, Rows
    <3>4. \A o \in revive' : seq[o] > 0
      BY <3>2, <3>3 DEF OutboxInv, RowInv, TypeOK
    <3> QED
      BY <2>1, <3>1, <3>2, <3>4
      DEF ReadRows, FlushInv, ReviveInv, rowVars, lineVars
  <2>2. ASSUME Settle PROVE FlushInv'
    <3>1. batch' = {} /\ revive' = {}
      BY <2>2 DEF Settle, FlushInv, BatchInv
    <3> QED
      BY <3>1 DEF FlushInv, BatchInv, ReviveInv
  <2>3. ASSUME Select, ~Idle PROVE FlushInv'
    <3>1. /\ batch' = Prefix(session) /\ pc' = "check" /\ revive' = {}
          /\ UNCHANGED status
      BY <2>3 DEF Select, OutboxInv, WorkInv, rowVars
    <3>2. \A o \in Prefix(session) : status[o] \in Open
      BY DEF Prefix, IsOpen
    <3> QED
      BY <3>1, <3>2 DEF FlushInv, BatchInv, ReviveInv
  <2>4. ASSUME StartFlight \/ CheckAccount \/ Transmit \/ Receive PROVE FlushInv'
    BY <2>4 DEF StartFlight, CheckAccount, Transmit, Receive, FlushInv,
      BatchInv, ReviveInv, rowVars, lineVars
  <2>5. ASSUME NEW p \in Op, Take(p), ~Idle PROVE FlushInv'
    <3>1. pc = "take" /\ pc' \in {"take", "guard"} /\ revive' = {}
      BY <2>5 DEF Take, OutboxInv, WorkInv
    <3>2. batch' \subseteq batch
            /\ \A o \in Op : status'[o] \in {status[o], "inflight"}
      BY <2>5 DEF Take, TypeOK
    <3> QED
      BY <3>1, <3>2 DEF FlushInv, BatchInv, ReviveInv, Open, TypeOK
  <2>6. ASSUME NEW p \in Op, Guard(p), ~Idle PROVE FlushInv'
    BY <2>6 DEF Guard, FlushInv, BatchInv, ReviveInv, rowVars, lineVars
  <2>7. ASSUME NEW p \in Op, Commit(p), ~Idle PROVE FlushInv'
    <3>1. pc = "commit" /\ pc' = "take" /\ revive' = {} /\ batch' = batch \ {p}
      BY <2>7 DEF Commit, OutboxInv, WorkInv
    <3>2. \A o \in Op \ {p} : status'[o] = status[o]
      BY <2>7 DEF Commit, Write, Passing
    <3> QED
      BY <3>1, <3>2 DEF FlushInv, BatchInv, ReviveInv, TypeOK
  <2>8. CASE Finish
    BY <2>8, IdleFlush DEF Finish
  <2> QED
    BY <1>3, <2>1, <2>2, <2>3, <2>4, <2>5, <2>6, <2>7, <2>8, IdleFlush
    DEF Transport
<1>4. CASE Environment
  <2>1. /\ UNCHANGED <<status, code, seq>>
        /\ \/ Idle
           \/ UNCHANGED <<batch, revive, pc>>
           \/ pc' = "take" /\ UNCHANGED <<batch, revive>>
    BY <1>4 DEF Environment, Execute, Refuse, TimeOut, Crash, SignOut, SignIn,
         BackoffElapsed, ExecuteLate, rowVars, lineVars, flushVars
  <2> QED
    BY <2>1, IdleFlush DEF FlushInv, BatchInv, ReviveInv
<1> QED
  BY <1>1, <1>2, <1>3, <1>4 DEF Next

(* A conflict that cannot be recovered from, of an operation no command    *)
(* aborts, stays one until it is deleted: a flush that works on older      *)
(* reads never writes over it, whatever it read, selected or was answered. *)
THEOREM FinalConflictStays == Spec => ConflictStays
<1> DEFINE Keeps ==
      \A o \in Op \ Gathering : status[o] = "conflict" /\ code[o] # "stale"
        => status'[o] \in {"conflict", "none"}
<1>1. TypeOK /\ OutboxInv /\ FlushInv /\ [Next]_vars => [Keeps]_vars
  <2> SUFFICES ASSUME TypeOK, OutboxInv, FlushInv, Next,
                      NEW o \in Op \ Gathering,
                      status[o] = "conflict", code[o] # "stale"
               PROVE  status'[o] \in {"conflict", "none"}
    OBVIOUS
  <2>1. CASE Command
    <3>1. seq[o] > 0
      BY DEF OutboxInv, RowInv, TypeOK
    <3> QED
      BY <2>1, <3>1, CommandKeeps
  <2>2. CASE Environment
    BY <2>2 DEF Environment, Execute, Refuse, TimeOut, Crash, SignOut, SignIn,
         BackoffElapsed, ExecuteLate, rowVars
  <2>3. o \notin batch
    BY DEF FlushInv, BatchInv, Open
  <2>4. CASE Transport
    <3>1. CASE Settle
      <4>1. o \notin revive
        BY DEF FlushInv, ReviveInv
      <4> QED
        BY <3>1, <4>1 DEF Settle
    <3>2. ASSUME NEW p \in Op, Take(p) PROVE status'[o] = status[o]
      BY <2>3, <3>2 DEF Take, IsFirst, TypeOK
    <3>3. ASSUME NEW p \in Op, p \in batch, NEW cd, Conflict(p, cd)
          PROVE  status'[o] \in {"conflict", "none"}
      BY <2>3, <3>3 DEF Conflict, BackOff, Write, Terminate
    <3>4. ASSUME NEW p \in Op, Guard(p) PROVE status'[o] \in {"conflict", "none"}
      BY <2>3, <3>3, <3>4 DEF Guard, IsFirst, Write, BackOff, rowVars
    <3>5. ASSUME NEW p \in Op, Commit(p)
          PROVE status'[o] \in {"conflict", "none"}
      BY <2>3, <3>3, <3>5 DEF Commit, IsFirst, Write
    <3>6. CASE StartFlight \/ ReadRows \/ Select \/ CheckAccount \/ Transmit
                 \/ Receive \/ Finish
      BY <3>6 DEF StartFlight, ReadRows, Select, CheckAccount, Transmit,
                  Receive, Finish, rowVars
    <3> QED
      BY <2>4, <3>1, <3>2, <3>4, <3>5, <3>6 DEF Transport
  <2> QED
    BY <2>1, <2>2, <2>4 DEF Next
<1>2. Init => FlushInv
  BY DEF Init, FlushInv, BatchInv, ReviveInv
<1> QED
  BY <1>1, <1>2, NextFlush, InitOutbox, NextOutbox, TypeCorrect, PTL
  DEF Spec, ConflictStays

-----------------------------------------------------------------------------
(* Order *)

(* A prerequisite was issued before it was recorded.  It is discarded only *)
(* together with its dependants, or when the server has committed it.      *)
DepsInv ==
  \A o \in Op : \A p \in deps[o] :
    /\ seq[p] > 0
    /\ <<p, o>> \in Prereq /\ p \in dropped
         => status[o] = "none" \/ receipt[p] = "accepted"

(* The chain a command read holds every dependant still in the outbox, and *)
(* the row it read as the last one is none of them.                        *)
ChoiceInv ==
  choice.kind = "conflict" =>
    /\ \A p \in choice.tail : seq[p] > 0 /\ p \notin dropped \cup choice.chain
    /\ \A p \in choice.chain, o \in Rows : DependsOn(o, p) => o \in choice.chain

(* Operations that may travel together: the server has committed their     *)
(* prerequisites, or executes them first.                                  *)
Closed(S) ==
  \A o \in S : \A p \in deps[o] :
    <<p, o>> \in Prereq =>
      receipt[p] = "accepted" \/ (p \in S /\ Precedes(p, o))

CausalInv ==
  /\ DepsInv /\ ChoiceInv
  /\ \A o \in Op : receipt[o] = "accepted" => seq[o] > 0
  /\ pc \in {"check", "transmit"} => Closed(batch)
  /\ \A m \in late \cup {request} : Closed(m.ops)

(* A chain holds the dependants of its members. *)
LEMMA ChainClosed ==
  ASSUME NEW roots, NEW rows, NEW p \in DependencyChain(roots, rows),
         NEW q \in rows, DependsOn(q, p)
  PROVE  q \in DependencyChain(roots, rows)
BY DEF DependencyChain

(* The place of an issued operation and what it waits for are fixed. *)
LEMMA LineStays ==
  ASSUME TypeOK, Next, NEW o \in Op, seq[o] > 0
  PROVE  seq'[o] = seq[o] /\ deps'[o] = deps[o]
<1> USE DEF TypeOK
<1>1. CASE UNCHANGED lineVars
  BY <1>1 DEF lineVars
<1>2. ASSUME NEW p \in Op, Enqueue(p)
      PROVE  seq'[o] = seq[o] /\ deps'[o] = deps[o]
  BY <1>2 DEF Enqueue, Issuable
<1>3. ASSUME NEW g \in Op, NEW r \in Op, EnqueuePromoted(g, r)
      PROVE  seq'[o] = seq[o] /\ deps'[o] = deps[o]
  BY <1>3 DEF EnqueuePromoted, Issuable
<1>4. ASSUME NEW n \in Op, RecreateConflict(n)
      PROVE  seq'[o] = seq[o] /\ deps'[o] = deps[o]
  BY <1>4 DEF RecreateConflict
<1>5. \/ UNCHANGED lineVars
      \/ \E p \in Op : Enqueue(p) \/ RecreateConflict(p)
      \/ \E g, r \in Op : EnqueuePromoted(g, r)
  <2>1. CASE Command
    BY <2>1 DEF Command, CompactReceipt, RetryFailed, ChooseStart,
         ChooseConflict, AbortStart, DiscardConflict
  <2>2. CASE Transport
    BY <2>2 DEF Transport, StartFlight, ReadRows, Settle, Select, CheckAccount,
         Transmit, Receive, Finish, Take, Guard, Commit
  <2>3. CASE Environment
    BY <2>3 DEF Environment, Execute, Refuse, TimeOut, Crash, SignOut, SignIn,
         BackoffElapsed, ExecuteLate
  <2> QED
    BY <2>1, <2>2, <2>3 DEF Next
<1> QED
  BY <1>1, <1>2, <1>3, <1>4, <1>5

(* What may travel together stays so. *)
LEMMA ClosedStays ==
  ASSUME TypeOK, DepsInv, Next, NEW S \in SUBSET Op, \A o \in S : seq[o] > 0,
         Closed(S)
  PROVE  \A o \in S : \A p \in deps'[o] :
           <<p, o>> \in Prereq =>
             receipt'[p] = "accepted" \/ (p \in S /\ seq'[p] < seq'[o])
<1> SUFFICES ASSUME NEW o \in S, NEW p \in deps'[o], <<p, o>> \in Prereq
             PROVE  receipt'[p] = "accepted" \/ (p \in S /\ seq'[p] < seq'[o])
  OBVIOUS
<1>1. seq'[o] = seq[o] /\ deps'[o] = deps[o]
  BY LineStays
<1>2. p \in Op /\ seq[p] > 0
  BY <1>1 DEF DepsInv, TypeOK
<1>3. seq'[p] = seq[p]
  BY <1>2, LineStays
<1>4. receipt[p] = "accepted" => receipt'[p] = "accepted"
  BY <1>2, ReceiptStays
<1> QED
  BY <1>1, <1>3, <1>4 DEF Closed, Precedes

(* An open row of a lane goes with every later one that is selected. *)
LEMMA PrefixWhole ==
  ASSUME TypeOK, NEW a, NEW o \in Prefix(a), NEW p \in Lane(a), IsOpen(p),
         Precedes(p, o)
  PROVE  p \in Prefix(a)
<1>1. /\ o \in Lane(a) /\ Owner[o] = a /\ Owner[p] = a /\ o \in Op /\ p \in Op
      /\ Cardinality(Ahead(o)) < MaxBatch
      /\ \A q \in Ahead(o) \cup {o} : Eligible(q) /\ ~Unmet(q, Ahead(q))
  BY DEF Prefix, Lane
<1>2. Ahead(p) \cup {p} \subseteq Ahead(o)
  <2> SUFFICES ASSUME NEW q \in Ahead(p) \cup {p} PROVE q \in Ahead(o)
    OBVIOUS
  <2>1. q \in Lane(a) /\ q \in Op /\ IsOpen(q)
    BY <1>1 DEF Ahead, Lane
  <2>2. seq[q] <= seq[p] /\ seq[p] < seq[o]
    <3>1. seq[q] \in Nat /\ seq[p] \in Nat
      BY <1>1, <2>1 DEF TypeOK
    <3>2. q = p \/ seq[q] < seq[p]
      BY DEF Ahead, Precedes
    <3> QED
      BY <3>1, <3>2 DEF Precedes
  <2>3. Precedes(q, o)
    BY <1>1, <2>1, <2>2 DEF Precedes, TypeOK
  <2> QED
    BY <1>1, <2>1, <2>3 DEF Ahead
<1>3. Cardinality(Ahead(p)) < MaxBatch
  <2>1. IsFiniteSet(Ahead(o))
    <3>1. Ahead(o) \in SUBSET Op
      BY DEF Ahead, Lane
    <3> QED
      BY <3>1, OpAssumption, FS_Subset
  <2>2. /\ Cardinality(Ahead(p)) \in Nat /\ Cardinality(Ahead(o)) \in Nat
        /\ Cardinality(Ahead(p)) <= Cardinality(Ahead(o))
    <3>1. Ahead(p) \in SUBSET Ahead(o)
      BY <1>2
    <3> QED
      BY <2>1, <3>1, FS_Subset, FS_CardinalityType
  <2> QED
    BY <1>1, <2>2, BoundAssumption
<1> QED
  BY <1>1, <1>2, <1>3 DEF Prefix

(* The flush selects what may travel together: a prerequisite without a    *)
(* row was committed, or its dependants went with it.                      *)
LEMMA PrefixClosed ==
  ASSUME TypeOK, RowInv, NothingLost, DepsInv, NEW a
  PROVE  Closed(Prefix(a))
<1> SUFFICES ASSUME NEW o \in Prefix(a), NEW p \in deps[o], <<p, o>> \in Prereq
             PROVE  receipt[p] = "accepted"
                    \/ (p \in Prefix(a) /\ Precedes(p, o))
  BY DEF Closed
<1>1. o \in Op /\ p \in Op /\ o \in Lane(a) /\ IsOpen(o) /\ ~Unmet(o, Ahead(o))
  BY DEF Prefix, Lane, TypeOK
<1>2. p # o
  BY RelationAssumption DEF Pairs
<1>3. CASE status[p] \in {"none", "acked"}
  <2>1. seq[p] > 0
    BY <1>1 DEF DepsInv
  <2>2. p \in dropped => receipt[p] = "accepted"
    BY <1>1 DEF DepsInv, IsOpen, Open
  <2> QED
    BY <1>1, <1>3, <2>1, <2>2 DEF NothingLost
<1>4. CASE status[p] \notin {"none", "acked"}
  <2>1. p \in Ahead(o)
    BY <1>1, <1>2, <1>4 DEF Unmet, DependsOn, Rows, HasRow
  <2>2. p \in Lane(a) /\ IsOpen(p) /\ Precedes(p, o)
    BY <1>1, <2>1 DEF Ahead, Lane
  <2> QED
    BY <2>2, PrefixWhole
<1> QED
  BY <1>3, <1>4

(* The loop of sync_group passes nothing after what it did not pass. *)
LEMMA BatchInOrder ==
  ASSUME NEW ops \in SUBSET Op, NEW place, NEW wire,
         NEW verdict \in [ops -> Verdict],
         CoreResults(ops, place, wire, verdict),
         NEW o \in ops, verdict[o] \in Passing,
         NEW p \in ops, place[p] < place[o]
  PROVE  verdict[p] \in Passing
BY DEF CoreResults, Earlier, Passing

(* A transaction commits an operation after its prerequisites, or with     *)
(* them.                                                                   *)
LEMMA PrerequisitesFirst ==
  ASSUME TypeOK, NEW m \in Request, NEW verdict \in [m.ops -> Verdict],
         Commits(m, verdict), Closed(m.ops),
         NEW o \in Op, NEW p \in deps[o], <<p, o>> \in Prereq,
         receipt[o] # "accepted", receipt'[o] = "accepted"
  PROVE  receipt'[p] = "accepted"
<1>1. /\ m.ops \in SUBSET Op /\ receipt \in [Op -> Receipt] /\ p \in Op
      /\ SyncGroup(m.ops, seq, deps, verdict) /\ seq \in [Op -> Nat]
  BY DEF TypeOK, Request, Commits, LedgerTypeOK
<1>2. o \in m.ops /\ verdict[o] = "accepted"
  BY <1>1, SyncGroupOnce
<1>3. CASE receipt[p] = "accepted"
  BY <1>1, <1>3, SyncGroupOnce
<1>4. CASE p \in m.ops /\ Precedes(p, o)
  <2>1. verdict[p] \in Passing
    BY <1>1, <1>2, <1>4, BatchInOrder DEF SyncGroup, Precedes, Passing
  <2> QED
    BY <1>1, <1>4, <2>1, SyncGroupOnce
<1> QED
  BY <1>2, <1>3, <1>4 DEF Closed

(* The prerequisites a command records are queued, and what it discards    *)
(* takes its dependants along.                                             *)
LEMMA CommandDeps ==
  ASSUME TypeOK, RowInv, LineInv, DepsInv, ChoiceInv, Command,
         UNCHANGED receipt,
         \A q \in Op : seq[q] > 0 => seq'[q] > 0
  PROVE  DepsInv'
<1> USE DEF RowInv, TypeOK
<1> SUFFICES ASSUME NEW o \in Op, NEW p \in deps'[o]
             PROVE  /\ seq'[p] > 0
                    /\ <<p, o>> \in Prereq /\ p \in dropped'
                         => status'[o] = "none" \/ receipt[p] = "accepted"
  BY DEF DepsInv
<1>1. \A q \in Op : IsOpen(q) => seq[q] > 0 /\ q \notin dropped
  BY DEF IsOpen, Open
<1>2. ASSUME deps'[o] = deps[o], UNCHANGED dropped,
             status'[o] = status[o] \/ status'[o] = "none"
      PROVE  /\ seq'[p] > 0
             /\ <<p, o>> \in Prereq /\ p \in dropped'
                  => status'[o] = "none" \/ receipt[p] = "accepted"
  BY <1>2 DEF DepsInv
<1>3. ASSUME NEW n \in Op, Enqueue(n)
      PROVE  /\ seq'[p] > 0
             /\ <<p, o>> \in Prereq /\ p \in dropped'
                  => status'[o] = "none" \/ receipt[p] = "accepted"
  <2>1. CASE o = n
    <3>1. p \in Op /\ IsOpen(p) /\ UNCHANGED dropped
      BY <1>3, <2>1 DEF Enqueue, Predecessors, Lane, commandVars
    <3> QED
      BY <1>1, <3>1
  <2>2. CASE o # n
    BY <1>2, <1>3, <2>2 DEF Enqueue, commandVars
  <2> QED
    BY <2>1, <2>2
<1>4. ASSUME NEW g \in Op, NEW r \in Op, EnqueuePromoted(g, r)
      PROVE  /\ seq'[p] > 0
             /\ <<p, o>> \in Prereq /\ p \in dropped'
                  => status'[o] = "none" \/ receipt[p] = "accepted"
  <2>1. UNCHANGED dropped /\ g \notin dropped
    BY <1>4 DEF EnqueuePromoted, Issuable, commandVars
  <2>2. seq'[g] > 0
    <3>1. seq'[g] \in Nat /\ seq'[g] # 0
      <4>1. g # r
        BY <1>4, RelationAssumption DEF EnqueuePromoted, Pairs
      <4>2. seq'[g] = counter[Owner[g]]
        BY <1>4, <4>1 DEF EnqueuePromoted
      <4> QED
        BY <4>2, OwnerAssumption DEF LineInv
    <3> QED
      BY <3>1
  <2>3. CASE o \in {g, r}
    <3>1. p = g \/ (p \in Op /\ IsOpen(p))
      BY <1>4, <2>3 DEF EnqueuePromoted, Predecessors, Lane
    <3> QED
      BY <1>1, <2>1, <2>2, <3>1
  <2>4. CASE o \notin {g, r}
    BY <1>2, <1>4, <2>1, <2>4 DEF EnqueuePromoted
  <2> QED
    BY <2>3, <2>4
<1>5. ASSUME NEW n \in Op,
             CompactReceipt(n) \/ RetryFailed(n) \/ ChooseStart(n)
             \/ ChooseConflict(n)
      PROVE  /\ seq'[p] > 0
             /\ <<p, o>> \in Prereq /\ p \in dropped'
                  => status'[o] = "none" \/ receipt[p] = "accepted"
  <2>1. UNCHANGED <<deps, dropped>>
    BY <1>5 DEF CompactReceipt, RetryFailed, ChooseStart, ChooseConflict,
                lineVars, commandVars
  <2>2. status'[o] = status[o] \/ status'[o] = "none"
    BY <1>5 DEF CompactReceipt, RetryFailed, ChooseStart, ChooseConflict,
                rowVars
  <2> QED
    BY <1>2, <2>1, <2>2
<1>6. CASE AbortStart
  <2>1. UNCHANGED <<deps, dropped>> /\ (status[o] = "none" => status'[o] = "none")
    BY <1>6 DEF AbortStart, lineVars, Rows, HasRow
  <2> QED
    BY <2>1 DEF DepsInv
<1>7. ASSUME choice.kind = "conflict", status[o] # "none", p \in deps[o],
             <<p, o>> \in Prereq, p \in choice.chain
      PROVE  o \in choice.chain
  <2>1. DependsOn(o, p)
    BY <1>7, RelationAssumption DEF DependsOn, Pairs
  <2> QED
    BY <1>7, <2>1 DEF ChoiceInv, Rows, HasRow
<1>8. ASSUME choice.kind = "conflict", NEW fresh \in SUBSET Op,
             Without(choice.chain, fresh), o \notin fresh, deps'[o] = deps[o]
      PROVE  /\ seq'[p] > 0
             /\ <<p, o>> \in Prereq /\ p \in dropped'
                  => status'[o] = "none" \/ receipt[p] = "accepted"
  <2>1. /\ status'[o] = IF o \in choice.chain THEN "none" ELSE status[o]
        /\ dropped' \subseteq dropped \cup choice.chain
    BY <1>8 DEF Without
  <2> QED
    BY <1>7, <1>8, <2>1 DEF DepsInv
<1>9. CASE DiscardConflict
  BY <1>8, <1>9 DEF DiscardConflict, lineVars
<1>10. ASSUME NEW n \in Op, RecreateConflict(n)
       PROVE  /\ seq'[p] > 0
              /\ <<p, o>> \in Prereq /\ p \in dropped'
                   => status'[o] = "none" \/ receipt[p] = "accepted"
  <2>1. CASE o = n
    <3>1. p \in choice.tail /\ dropped' \subseteq dropped \cup choice.chain
      BY <1>10, <2>1 DEF RecreateConflict, Without
    <3> QED
      BY <1>10, <3>1 DEF ChoiceInv, RecreateConflict
  <2>2. CASE o # n
    BY <1>8, <1>10, <2>2 DEF RecreateConflict
  <2> QED
    BY <2>1, <2>2
<1> QED
  BY <1>3, <1>4, <1>5, <1>6, <1>9, <1>10 DEF Command

(* What a command read stays true until it writes. *)
LEMMA NextChoice ==
  ASSUME TypeOK, OutboxInv, DepsInv, ChoiceInv, Next
  PROVE  ChoiceInv'
<1> SUFFICES ASSUME choice'.kind = "conflict"
             PROVE  /\ \A p \in choice'.tail :
                         seq'[p] > 0 /\ p \notin dropped' \cup choice'.chain
                    /\ \A p \in choice'.chain, o \in Rows' :
                         DependsOn(o, p)' => o \in choice'.chain
  BY DEF ChoiceInv
<1>1. ASSUME UNCHANGED <<choice, lineVars, dropped>>, Rows' \subseteq Rows
      PROVE  /\ \A p \in choice'.tail :
                  seq'[p] > 0 /\ p \notin dropped' \cup choice'.chain
             /\ \A p \in choice'.chain, o \in Rows' :
                  DependsOn(o, p)' => o \in choice'.chain
  BY <1>1 DEF ChoiceInv, DependsOn, Precedes, lineVars
<1>2. CASE Transport
  <2>1. UNCHANGED <<choice, lineVars, dropped>>
    BY <1>2 DEF Transport, StartFlight, ReadRows, Settle, Select, CheckAccount,
         Transmit, Receive, Finish, Take, Guard, Commit, commandVars
  <2>2. Rows' \subseteq Rows
    BY <1>2, TransportRows DEF Rows, HasRow
  <2> QED
    BY <1>1, <2>1, <2>2
<1>3. CASE Environment
  <2>1. /\ UNCHANGED <<lineVars, dropped, status>>
        /\ choice' = choice \/ choice' = NoChoice
    BY <1>3 DEF Environment, Execute, Refuse, TimeOut, Crash, SignOut, SignIn,
         BackoffElapsed, ExecuteLate, commandVars, rowVars
  <2> QED
    BY <1>1, <2>1 DEF NoChoice, Rows, HasRow
<1>4. ASSUME NEW c \in Op, ChooseConflict(c)
      PROVE  /\ \A p \in choice'.tail :
                  seq'[p] > 0 /\ p \notin dropped' \cup choice'.chain
             /\ \A p \in choice'.chain, o \in Rows' :
                  DependsOn(o, p)' => o \in choice'.chain
  <2> DEFINE chain == DependencyChain({c}, Rows)
  <2>1. choice'.chain = chain /\ UNCHANGED <<lineVars, dropped, status>>
    BY <1>4 DEF ChooseConflict, rowVars
  <2>2. \A p \in choice'.tail : p \in Op /\ IsOpen(p) /\ p \notin chain
    BY <1>4 DEF ChooseConflict, Lane
  <2>3. \A p \in choice'.tail : seq[p] > 0 /\ p \notin dropped
    BY <2>2 DEF IsOpen, Open, OutboxInv, RowInv, TypeOK
  <2>4. \A p \in chain, o \in Rows : DependsOn(o, p) => o \in chain
    BY ChainClosed
  <2>5. Rows' = Rows /\ \A o, p : DependsOn(o, p)' <=> DependsOn(o, p)
    BY <2>1 DEF Rows, HasRow, DependsOn, Precedes, lineVars
  <2> HIDE DEF chain
  <2> QED
    BY <2>1, <2>2, <2>3, <2>4, <2>5 DEF lineVars
<1>5. CASE Command /\ ~\E c \in Op : ChooseConflict(c)
  <2>1. ASSUME NEW p \in Op, ChooseStart(p) PROVE choice'.kind = "start"
    BY <2>1 DEF ChooseStart
  <2>2. ASSUME NEW p \in Op,
               Enqueue(p) \/ CompactReceipt(p) \/ RetryFailed(p)
        PROVE  choice' = NoChoice
    BY <2>2 DEF Enqueue, Issuable, CompactReceipt, RetryFailed, Free,
      commandVars
  <2>3. ASSUME NEW g \in Op, NEW r \in Op, EnqueuePromoted(g, r)
        PROVE  choice' = NoChoice
    BY <2>3 DEF EnqueuePromoted, Issuable, Free, commandVars
  <2>4. ASSUME \/ AbortStart \/ DiscardConflict
               \/ \E n \in Op : RecreateConflict(n)
        PROVE  choice' = NoChoice
    BY <2>4 DEF RecreateConflict, AbortStart, DiscardConflict
  <2>5. choice'.kind # "conflict"
    <3>1. NoChoice.kind = "none"
      BY DEF NoChoice
    <3>2. choice' = NoChoice \/ choice'.kind = "start"
      BY <1>5, <2>1, <2>2, <2>3, <2>4 DEF Command
    <3> QED
      BY <3>1, <3>2
  <2> QED
    BY <2>5
<1> QED
  BY <1>2, <1>3, <1>4, <1>5 DEF Next, Command

(* Only a transaction of sync_group accepts an operation, from a request   *)
(* that holds it.                                                          *)
LEMMA NewlyAccepted ==
  ASSUME TypeOK, Next, NEW o \in Op,
         receipt[o] # "accepted", receipt'[o] = "accepted"
  PROVE  \E m \in late \cup {request} : \E verdict \in [m.ops -> Verdict] :
           /\ m \in Request /\ o \in m.ops /\ UNCHANGED lineVars
           /\ Commits(m, verdict)
<1>1. UNCHANGED receipt => FALSE
  OBVIOUS
<1>2. PICK m \in late \cup {request} : \E verdict \in [m.ops -> Verdict] :
        UNCHANGED lineVars /\ Commits(m, verdict)
  BY <1>1, ServerStep DEF serverVars, Execute, ExecuteLate
<1>3. PICK verdict \in [m.ops -> Verdict] :
        UNCHANGED lineVars /\ Commits(m, verdict)
  BY <1>2
<1>4. m \in Request /\ m.ops \in SUBSET Op
  BY DEF TypeOK, Request
<1>5. o \in m.ops
  BY <1>3, <1>4, SyncGroupOnce DEF Commits, TypeOK, LedgerTypeOK
<1> QED
  BY <1>2, <1>3, <1>4, <1>5

(* Every step keeps prerequisites and dependants together, from the        *)
(* outbox to the requests.                                                 *)
LEMMA NextCausal ==
  ASSUME TypeOK, OutboxInv, NothingLost, CausalInv, Next
  PROVE  CausalInv'
<1>1. \A q \in Op : seq[q] > 0 => seq'[q] > 0
  BY LineStays
<1>2. \A q \in Op : receipt[q] = "accepted" => receipt'[q] = "accepted"
  BY ReceiptStays
<1>3. DepsInv'
  <2>1. CASE Command
    <3>1. UNCHANGED receipt
      BY <2>1 DEF Command, Enqueue, EnqueuePromoted, CompactReceipt,
           RetryFailed, ChooseStart, ChooseConflict, RecreateConflict,
           AbortStart, DiscardConflict, serverVars
    <3> QED
      BY <1>1, <2>1, <3>1, CommandDeps DEF OutboxInv, CausalInv
  <2>2. CASE Transport
    <3>1. UNCHANGED <<lineVars, dropped>>
      BY <2>2 DEF Transport, StartFlight, ReadRows, Settle, Select,
           CheckAccount, Transmit, Receive, Finish, Take, Guard, Commit,
           commandVars
    <3>2. \A q \in Op : status[q] = "none" => status'[q] = "none"
      BY <2>2, TransportRows
    <3>3. deps \in [Op -> SUBSET Op] /\ UNCHANGED <<deps, seq, dropped>>
      BY <3>1 DEF TypeOK, lineVars
    <3> QED
      BY <1>2, <3>2, <3>3 DEF CausalInv, DepsInv
  <2>3. CASE Environment
    <3>1. UNCHANGED <<lineVars, dropped, status>>
      BY <2>3 DEF Environment, Execute, Refuse, TimeOut, Crash, SignOut,
           SignIn, BackoffElapsed, ExecuteLate, commandVars, rowVars
    <3> QED
      BY <1>2, <3>1 DEF CausalInv, DepsInv, lineVars, TypeOK
  <2> QED
    BY <2>1, <2>2, <2>3 DEF Next
<1>4. ChoiceInv'
  BY NextChoice DEF CausalInv
<1>5. batch \in SUBSET Op /\ \A m \in late \cup {request} : m.ops \in SUBSET Op
  BY DEF TypeOK, Request
<1>6. \A o \in batch : seq[o] > 0
  BY DEF OutboxInv, SentInv
<1>7. ASSUME UNCHANGED batch, Closed(batch)
      PROVE  Closed(batch)'
  BY <1>5, <1>6, <1>7, ClosedStays DEF Closed, Precedes, CausalInv
<1>8. pc' \in {"check", "transmit"} => Closed(batch)'
  <2>1. CASE Select
    <3>1. ASSUME pc' \in {"check", "transmit"}
          PROVE  batch' = Prefix(session) /\ UNCHANGED <<seq, deps, receipt>>
      BY <2>1, <3>1 DEF Select, Idle, lineVars, serverVars
    <3>2. Closed(Prefix(session))
      BY PrefixClosed DEF OutboxInv, CausalInv
    <3> QED
      BY <3>1, <3>2 DEF Closed, Precedes
  <2>2. CASE ~Select
    <3>1. pc' \in {"check", "transmit"}
            => pc \in {"check", "transmit"} /\ UNCHANGED batch
      <4>1. CASE Command
        BY <4>1 DEF Command, Enqueue, EnqueuePromoted, CompactReceipt,
             RetryFailed, ChooseStart, ChooseConflict, RecreateConflict,
             AbortStart, DiscardConflict, flushVars
      <4>2. CASE Transport
        BY <2>2, <4>2 DEF Transport, StartFlight, ReadRows, Settle,
             CheckAccount, Transmit, Receive, Finish, Take, Guard, Commit, Idle
      <4>3. CASE Environment
        BY <4>3 DEF Environment, Execute, Refuse, TimeOut, Crash, SignOut,
             SignIn, BackoffElapsed, ExecuteLate, Idle, flushVars
      <4> QED
        BY <4>1, <4>2, <4>3 DEF Next
    <3> QED
      BY <1>7, <3>1 DEF CausalInv
  <2> QED
    BY <2>1, <2>2
<1>9. \A m \in (late \cup {request})' : Closed(m.ops)'
  <2>1. ASSUME NEW m \in late \cup {request} PROVE Closed(m.ops)'
    <3>1. m.ops \in SUBSET Op /\ Closed(m.ops) /\ \A o \in m.ops : seq[o] > 0
      BY <1>5, <2>1 DEF CausalInv, OutboxInv, SentInv
    <3> DEFINE S == m.ops
    <3> HIDE DEF S
    <3>2. \A o \in S : \A p \in deps'[o] :
            <<p, o>> \in Prereq =>
              receipt'[p] = "accepted" \/ (p \in S /\ seq'[p] < seq'[o])
      BY <3>1, ClosedStays DEF CausalInv, S
    <3> QED
      BY <3>2 DEF Closed, Precedes, S
  <2>2. ASSUME NEW m \in (late \cup {request})'
        PROVE  \/ m \in late \cup {request} \/ m = NoRequest
               \/ Transmit /\ m = request' /\ request' # request
    <3>1. CASE Command
      BY <3>1 DEF Command, Enqueue, EnqueuePromoted, CompactReceipt,
           RetryFailed, ChooseStart, ChooseConflict, RecreateConflict,
           AbortStart, DiscardConflict, wireVars
    <3>2. CASE Transport
      BY <3>2 DEF Transport, StartFlight, ReadRows, Settle, Select,
           CheckAccount, Transmit, Receive, Finish, Take, Guard, Commit, Idle,
           wireVars
    <3>3. CASE Environment
      BY <3>3 DEF Environment, Execute, Refuse, TimeOut, Crash, SignOut,
           SignIn, BackoffElapsed, ExecuteLate, Idle, wireVars
    <3> QED
      BY <3>1, <3>2, <3>3 DEF Next
  <2>3. Closed(NoRequest.ops)'
    BY DEF Closed, NoRequest
  <2>4. ASSUME Transmit, request' # request, NEW m, m = request'
        PROVE  Closed(m.ops)'
    <3>1. pc = "transmit" /\ UNCHANGED <<seq, deps, receipt>>
      BY <2>4 DEF Transmit, lineVars, serverVars
    <3>2. PICK ops \in SUBSET batch :
            /\ \A o \in ops : Earlier(batch, seq, o) \subseteq ops
            /\ request' = [ops |-> ops, actor |-> flight, cred |-> session]
      BY <2>4 DEF Transmit
    <3>3. Closed(batch)
      BY <3>1 DEF CausalInv
    <3>4. Closed(ops)
      BY <3>2, <3>3 DEF Closed, Earlier, Precedes
    <3>5. m.ops = ops
      BY <2>4, <3>2
    <3> QED
      BY <3>1, <3>4, <3>5 DEF Closed, Precedes
  <2> QED
    BY <2>1, <2>2, <2>3, <2>4
<1>10. \A o \in Op : receipt'[o] = "accepted" => seq'[o] > 0
  BY <1>1, NewlyAccepted DEF CausalInv, OutboxInv, SentInv
<1> QED
  BY <1>3, <1>4, <1>8, <1>9, <1>10 DEF CausalInv

(* Where the prerequisites stand, and what was committed, are in step.     *)
LEMMA CausalAlways == Spec => [](CausalInv /\ CausalOrder)
<1>1. Init => CausalInv /\ CausalOrder
  BY DEF Init, LedgerInit, CausalInv, DepsInv, ChoiceInv, Closed, CausalOrder,
         NoChoice, NoRequest
<1>2. TypeOK /\ OutboxInv /\ NothingLost /\ CausalInv /\ CausalOrder
        /\ [Next]_vars => CausalInv' /\ CausalOrder'
  <2> SUFFICES ASSUME TypeOK, OutboxInv, NothingLost, CausalInv, CausalOrder,
                      [Next]_vars
               PROVE  CausalInv' /\ CausalOrder'
    OBVIOUS
  <2>1. CASE UNCHANGED vars
    <3>1. UNCHANGED <<receipt, status, deps, seq, choice, dropped, pc, batch,
                      late, request>>
      BY <2>1 DEF vars, rowVars, lineVars, commandVars, flushVars, wireVars,
                  serverVars
    <3> QED
      BY <3>1 DEF CausalInv, DepsInv, ChoiceInv, Closed, DependsOn, Precedes,
                  Rows, HasRow, CausalOrder
  <2>2. CASE Next
    <3> SUFFICES ASSUME NEW o \in Op, NEW p \in deps'[o], <<p, o>> \in Prereq,
                        receipt'[o] = "accepted"
                 PROVE  receipt'[p] = "accepted"
      BY <2>2, NextCausal DEF CausalOrder
    <3>1. CASE receipt[o] = "accepted"
      <4>1. deps'[o] = deps[o]
        BY <2>2, <3>1, LineStays DEF CausalInv
      <4>2. p \in Op /\ receipt[p] = "accepted"
        BY <3>1, <4>1 DEF CausalOrder, TypeOK
      <4> QED
        BY <2>2, <4>2, ReceiptStays
    <3>2. CASE receipt[o] # "accepted"
      <4>1. PICK m \in late \cup {request} :
              \E verdict \in [m.ops -> Verdict] :
                /\ m \in Request /\ o \in m.ops /\ UNCHANGED lineVars
                /\ Commits(m, verdict)
        BY <2>2, <3>2, NewlyAccepted
      <4>2. p \in deps[o] /\ Closed(m.ops)
        BY <4>1 DEF CausalInv, lineVars
      <4> QED
        BY <3>2, <4>1, <4>2, PrerequisitesFirst
    <3> QED
      BY <3>1, <3>2
  <2> QED
    BY <2>1, <2>2
<1> QED
  BY <1>1, <1>2, InitOutbox, NextOutbox, NothingIsLost, TypeCorrect, PTL
  DEF Spec

(* The server commits an operation only after the prerequisites recorded   *)
(* with it: in whatever order batches, retries and late requests arrive,   *)
(* and whatever the user discards or recreates meanwhile.                  *)
THEOREM CommittedInOrder == Spec => []CausalOrder
BY CausalAlways, PTL

-----------------------------------------------------------------------------
(* The lane *)

(* Nothing that an operation behind p would overtake. *)
Passed(p) == receipt[p] = "accepted" \/ status[p] \in {"conflict", "none"}

(* Operations that overtake none of their lane. *)
InOrder(S) ==
  \A o \in S : \A p \in Lane(Owner[o]) :
    seq[p] \in 1 .. (seq[o] - 1) => p \in S \/ Passed(p)

(* The flush has an answer only after it has sent a request, and handles   *)
(* it only when the request is gone.                                       *)
PhaseInv ==
  /\ pc \in {"idle", "read", "settle", "select", "check", "transmit"}
       => reply.kind = "none"
  /\ request # NoRequest => pc = "wait" /\ reply.kind = "none"

(* Sequences are below the counter of the lane, and nothing is selected or *)
(* waited for that would overtake.                                         *)
LaneInv ==
  /\ PhaseInv
  /\ \A o \in Op : seq[o] < counter[Owner[o]]
  /\ pc \in {"check", "transmit"} => InOrder(batch)
  /\ InOrder(request.ops)

(* Whoever joins a lane joins it at the end. *)
LEMMA LineGrows ==
  ASSUME TypeOK, \A o \in Op : seq[o] < counter[Owner[o]], Next
  PROVE  /\ \A o \in Op : seq'[o] < counter'[Owner[o]]
         /\ \A o \in Op : seq'[o] = seq[o] \/ seq'[o] >= counter[Owner[o]]
<1> USE OwnerAssumption
<1>1. seq \in [Op -> Nat] /\ counter \in [Actor -> Nat]
  BY DEF TypeOK
<1>2. CASE UNCHANGED lineVars
  BY <1>2 DEF lineVars
<1>3. ASSUME NEW n \in Op, seq' = [seq EXCEPT ![n] = counter[Owner[n]]],
             counter' = [counter EXCEPT ![Owner[n]] = @ + 1]
      PROVE  /\ \A o \in Op : seq'[o] < counter'[Owner[o]]
             /\ \A o \in Op : seq'[o] = seq[o] \/ seq'[o] >= counter[Owner[o]]
  <2>1. \A o \in Op : seq'[o] = IF o = n THEN counter[Owner[n]] ELSE seq[o]
    BY <1>1, <1>3
  <2>2. \A a \in Actor : counter'[a] = IF a = Owner[n] THEN counter[a] + 1
                                       ELSE counter[a]
    BY <1>1, <1>3
  <2> QED
    BY <1>1, <2>1, <2>2
<1>4. ASSUME NEW g \in Op, NEW r \in Op, EnqueuePromoted(g, r)
      PROVE  /\ \A o \in Op : seq'[o] < counter'[Owner[o]]
             /\ \A o \in Op : seq'[o] = seq[o] \/ seq'[o] >= counter[Owner[o]]
  <2>1. Owner[g] = Owner[r] /\ g # r
    BY <1>4, RelationAssumption DEF EnqueuePromoted, Pairs
  <2>2. \A o \in Op : seq'[o] = IF o = g THEN counter[Owner[g]]
                                ELSE IF o = r THEN counter[Owner[g]] + 1
                                ELSE seq[o]
    BY <1>1, <1>4, <2>1 DEF EnqueuePromoted
  <2>3. \A a \in Actor : counter'[a] = IF a = Owner[g] THEN counter[a] + 2
                                       ELSE counter[a]
    BY <1>1, <1>4 DEF EnqueuePromoted
  <2> QED
    BY <1>1, <2>1, <2>2, <2>3
<1>5. \/ UNCHANGED lineVars
      \/ \E n \in Op : /\ seq' = [seq EXCEPT ![n] = counter[Owner[n]]]
                       /\ counter' = [counter EXCEPT ![Owner[n]] = @ + 1]
      \/ \E g, r \in Op : EnqueuePromoted(g, r)
  <2>1. CASE Command
    BY <2>1 DEF Command, Enqueue, CompactReceipt, RetryFailed, ChooseStart,
         ChooseConflict, RecreateConflict, AbortStart, DiscardConflict
  <2>2. CASE Transport
    BY <2>2 DEF Transport, StartFlight, ReadRows, Settle, Select, CheckAccount,
         Transmit, Receive, Finish, Take, Guard, Commit
  <2>3. CASE Environment
    BY <2>3 DEF Environment, Execute, Refuse, TimeOut, Crash, SignOut, SignIn,
         BackoffElapsed, ExecuteLate
  <2> QED
    BY <2>1, <2>2, <2>3 DEF Next
<1> QED
  BY <1>2, <1>3, <1>4, <1>5

(* While a flush selects, sends and waits, no conflict is reopened. *)
LEMMA NotReopened ==
  ASSUME TypeOK, OutboxInv, Next, pc \in {"check", "transmit", "wait"},
         NEW o \in Op, seq[o] > 0, status[o] \in {"conflict", "none"}
  PROVE  status'[o] \in {"conflict", "none"}
<1>1. CASE Command
  BY <1>1, CommandKeeps
<1>2. CASE Transport
  BY <1>2 DEF Transport, StartFlight, ReadRows, Settle, Select, CheckAccount,
       Transmit, Receive, Finish, Take, Guard, Commit, rowVars
<1>3. CASE Environment
  BY <1>3 DEF Environment, Execute, Refuse, TimeOut, Crash, SignOut, SignIn,
       BackoffElapsed, ExecuteLate, rowVars
<1> QED
  BY <1>1, <1>2, <1>3 DEF Next

(* What overtakes nothing keeps doing so. *)
LEMMA InOrderStays ==
  ASSUME TypeOK, OutboxInv, \A o \in Op : seq[o] < counter[Owner[o]], Next,
         pc \in {"check", "transmit", "wait"},
         NEW S \in SUBSET Op, \A o \in S : seq[o] > 0, InOrder(S)
  PROVE  \A o \in S : \A p \in Lane(Owner[o]) :
           seq'[p] \in 1 .. (seq'[o] - 1) =>
             \/ p \in S
             \/ receipt'[p] = "accepted"
             \/ status'[p] \in {"conflict", "none"}
<1> SUFFICES ASSUME NEW o \in S, NEW p \in Lane(Owner[o]),
                    seq'[p] \in 1 .. (seq'[o] - 1), p \notin S
             PROVE  receipt'[p] = "accepted" \/ status'[p] \in {"conflict", "none"}
  OBVIOUS
<1>1. o \in Op /\ p \in Op /\ Owner[p] = Owner[o]
  BY DEF Lane
<1>2. /\ seq[o] \in Nat /\ seq[p] \in Nat /\ counter[Owner[o]] \in Nat
      /\ seq[o] < counter[Owner[o]]
  BY <1>1, OwnerAssumption DEF TypeOK
<1>3. seq'[o] = seq[o]
  BY <1>1, LineStays
<1>4. seq'[p] = seq[p]
  <2>1. seq'[p] = seq[p] \/ seq'[p] >= counter[Owner[o]]
    BY <1>1, LineGrows
  <2>2. seq'[p] < seq[o]
    BY <1>2, <1>3
  <2>3. seq'[p] \in Nat
    BY <1>2, <1>3
  <2> QED
    BY <1>2, <2>1, <2>2, <2>3
<1>5. seq[p] > 0 /\ Passed(p)
  BY <1>2, <1>3, <1>4 DEF InOrder
<1> QED
  BY <1>1, <1>5, NotReopened, ReceiptStays DEF Passed

(* The flush selects nothing that would overtake. *)
LEMMA PrefixInOrder ==
  ASSUME TypeOK, RowInv, NothingLost, NEW a
  PROVE  InOrder(Prefix(a))
<1> SUFFICES ASSUME NEW o \in Prefix(a), NEW p \in Lane(Owner[o]),
                    seq[p] \in 1 .. (seq[o] - 1)
             PROVE  p \in Prefix(a) \/ Passed(p)
  BY DEF InOrder
<1>1. o \in Op /\ p \in Op /\ Owner[o] = a /\ p \in Lane(a)
  BY DEF Prefix, Lane
<1>2. seq[p] > 0 /\ Precedes(p, o)
  <2>1. seq[p] \in Nat /\ seq[o] \in Nat
    BY <1>1 DEF TypeOK
  <2> QED
    BY <2>1 DEF Precedes
<1>3. CASE IsOpen(p)
  BY <1>1, <1>2, <1>3, PrefixWhole
<1>4. CASE status[p] = "acked"
  BY <1>1, <1>2, <1>4 DEF RowInv, NothingLost, Passed
<1>5. CASE status[p] \in {"conflict", "none"}
  BY <1>5 DEF Passed
<1>6. status[p] \in Status
  BY <1>1 DEF TypeOK
<1> QED
  BY <1>3, <1>4, <1>5, <1>6 DEF IsOpen, Open, Status

(* A request is gone before its answer is looked at. *)
LEMMA NextPhase ==
  ASSUME TypeOK, PhaseInv, Next
  PROVE  PhaseInv'
<1>1. CASE Command
  <2>1. UNCHANGED <<pc, request, reply>>
    BY <1>1 DEF Command, Enqueue, EnqueuePromoted, CompactReceipt, RetryFailed,
         ChooseStart, ChooseConflict, RecreateConflict, AbortStart,
         DiscardConflict, flushVars, wireVars
  <2> QED
    BY <2>1 DEF PhaseInv
<1>2. ASSUME Idle PROVE PhaseInv'
  BY <1>2 DEF Idle, PhaseInv, NoReply
<1>3. CASE Transport
  <2>1. ASSUME StartFlight \/ ReadRows \/ Settle \/ Select PROVE PhaseInv'
    BY <1>2, <2>1 DEF StartFlight, ReadRows, Settle, Select, PhaseInv, wireVars
  <2>2. ASSUME CheckAccount PROVE PhaseInv'
    BY <2>2 DEF CheckAccount, PhaseInv
  <2>3. ASSUME Transmit PROVE PhaseInv'
    BY <2>3 DEF Transmit, PhaseInv
  <2>4. ASSUME Receive PROVE PhaseInv'
    BY <2>4 DEF Receive, PhaseInv
  <2>5. ASSUME NEW o \in Op, Take(o) \/ Guard(o) \/ Commit(o) PROVE PhaseInv'
    <3>1. Idle \/ (UNCHANGED <<request, reply>>
                   /\ pc \in {"take", "guard", "commit"}
                   /\ pc' \in {"take", "guard", "commit"})
      BY <2>5 DEF Take, Guard, Commit
    <3> QED
      BY <1>2, <3>1 DEF PhaseInv
  <2> QED
    BY <1>2, <1>3, <2>1, <2>2, <2>3, <2>4, <2>5 DEF Transport, Finish
<1>4. CASE Environment
  <2>1. CASE Execute \/ Refuse \/ TimeOut
    BY <2>1 DEF Execute, Refuse, TimeOut, PhaseInv, flushVars
  <2>2. CASE ~(Execute \/ Refuse \/ TimeOut)
    <3>1. Idle \/ UNCHANGED <<pc, request, reply>>
      BY <1>4, <2>2 DEF Environment, Crash, SignOut, SignIn, BackoffElapsed,
           ExecuteLate, flushVars, wireVars
    <3> QED
      BY <1>2, <3>1 DEF PhaseInv
  <2> QED
    BY <2>1, <2>2
<1> QED
  BY <1>1, <1>3, <1>4 DEF Next

(* Every step keeps the lane in order. *)
LEMMA NextLane ==
  ASSUME TypeOK, OutboxInv, NothingLost, LaneInv, Next
  PROVE  LaneInv'
<1>1. PhaseInv' /\ \A o \in Op : seq'[o] < counter'[Owner[o]]
  BY NextPhase, LineGrows DEF LaneInv
<1>2. /\ batch \in SUBSET Op /\ request.ops \in SUBSET Op
      /\ \A o \in batch \cup request.ops : seq[o] > 0
  BY DEF TypeOK, Request, OutboxInv, SentInv
<1>3. ASSUME pc \in {"check", "transmit"}, UNCHANGED batch
      PROVE  InOrder(batch)'
  <2>1. InOrder(batch)
    BY <1>3 DEF LaneInv
  <2> QED
    BY <1>2, <1>3, <2>1, InOrderStays DEF LaneInv, InOrder, Passed
<1>4. pc' \in {"check", "transmit"} => InOrder(batch)'
  <2>1. CASE Select
    <3>1. ASSUME pc' \in {"check", "transmit"}
          PROVE  batch' = Prefix(session) /\ UNCHANGED <<seq, status, receipt>>
      BY <2>1, <3>1 DEF Select, Idle, rowVars, lineVars, serverVars
    <3>2. InOrder(Prefix(session))
      BY PrefixInOrder DEF OutboxInv
    <3> QED
      BY <3>1, <3>2 DEF InOrder, Passed
  <2>2. CASE ~Select
    <3>1. pc' \in {"check", "transmit"}
            => pc \in {"check", "transmit"} /\ UNCHANGED batch
      <4>1. CASE Command
        BY <4>1 DEF Command, Enqueue, EnqueuePromoted, CompactReceipt,
             RetryFailed, ChooseStart, ChooseConflict, RecreateConflict,
             AbortStart, DiscardConflict, flushVars
      <4>2. CASE Transport
        BY <2>2, <4>2 DEF Transport, StartFlight, ReadRows, Settle,
             CheckAccount, Transmit, Receive, Finish, Take, Guard, Commit, Idle
      <4>3. CASE Environment
        BY <4>3 DEF Environment, Execute, Refuse, TimeOut, Crash, SignOut,
             SignIn, BackoffElapsed, ExecuteLate, Idle, flushVars
      <4> QED
        BY <4>1, <4>2, <4>3 DEF Next
    <3> QED
      BY <1>3, <3>1
  <2> QED
    BY <2>1, <2>2
<1>5. InOrder(request.ops)'
  <2>1. CASE request' = NoRequest
    BY <2>1 DEF InOrder, NoRequest
  <2>2. CASE request' = request /\ request # NoRequest
    <3>1. pc = "wait" /\ InOrder(request.ops)
      BY <2>2 DEF LaneInv, PhaseInv
    <3> QED
      BY <1>2, <2>2, <3>1, InOrderStays DEF LaneInv, InOrder, Passed
  <2>3. CASE Transmit /\ request' # request
    <3>1. pc = "transmit" /\ UNCHANGED <<seq, status, receipt>>
      BY <2>3 DEF Transmit, lineVars, rowVars, serverVars
    <3>2. PICK ops \in SUBSET batch :
            /\ \A o \in ops : Earlier(batch, seq, o) \subseteq ops
            /\ request' = [ops |-> ops, actor |-> flight, cred |-> session]
      BY <2>3 DEF Transmit
    <3>3. InOrder(batch)
      BY <3>1 DEF LaneInv
    <3>4. \A o \in ops : \A p \in batch :
            seq[p] \in 1 .. (seq[o] - 1) => p \in ops
      <4>1. ASSUME NEW o \in ops, NEW p \in batch, seq[p] \in 1 .. (seq[o] - 1)
            PROVE  p \in Earlier(batch, seq, o)
        <5>1. seq[o] \in Nat /\ seq[p] \in Nat
          BY <1>2 DEF TypeOK
        <5> QED
          BY <4>1, <5>1 DEF Earlier
      <4> QED
        BY <3>2, <4>1
    <3>5. InOrder(ops)
      BY <3>2, <3>3, <3>4 DEF InOrder
    <3>6. request'.ops = ops
      BY <3>2
    <3> QED
      BY <3>1, <3>5, <3>6 DEF InOrder, Passed
  <2>4. request' = NoRequest \/ request' = request \/ Transmit
    <3>1. CASE Command
      BY <3>1 DEF Command, Enqueue, EnqueuePromoted, CompactReceipt,
           RetryFailed, ChooseStart, ChooseConflict, RecreateConflict,
           AbortStart, DiscardConflict, wireVars
    <3>2. CASE Transport
      BY <3>2 DEF Transport, StartFlight, ReadRows, Settle, Select,
           CheckAccount, Receive, Finish, Take, Guard, Commit, Idle, wireVars
    <3>3. CASE Environment
      BY <3>3 DEF Environment, Execute, Refuse, TimeOut, Crash, SignOut,
           SignIn, BackoffElapsed, ExecuteLate, Idle, wireVars
    <3> QED
      BY <3>1, <3>2, <3>3 DEF Next
  <2> QED
    BY <2>1, <2>2, <2>3, <2>4
<1> QED
  BY <1>1, <1>4, <1>5 DEF LaneInv

(* The empty lane. *)
LEMMA InitLane == Init => LaneInv
<1> SUFFICES ASSUME Init PROVE LaneInv
  OBVIOUS
<1>1. ASSUME NEW o \in Op PROVE seq[o] < counter[Owner[o]]
  <2>1. seq[o] = 0
    BY DEF Init
  <2>2. counter[Owner[o]] = 1
    BY OwnerAssumption DEF Init
  <2> QED
    BY <2>1, <2>2
<1>2. PhaseInv
  BY DEF Init, PhaseInv, NoReply
<1>3. request.ops = {} /\ pc = "idle"
  BY DEF Init, NoRequest
<1> QED
  BY <1>1, <1>2, <1>3 DEF LaneInv, InOrder

(* An exchange commits an operation only when every earlier one of its     *)
(* lane is committed, in conflict, or discarded: neither the batch limit,  *)
(* a backoff, a cut batch nor a command during the exchange lets one       *)
(* operation of a device overtake another.                                 *)
THEOREM LaneGoesInOrder == Spec => LaneOrder
<1> DEFINE Keeps ==
      Execute =>
        \A o \in Op : effects'[o] > effects[o] =>
          \A p \in Lane(Owner[o]) : seq[p] \in 1 .. (seq[o] - 1) =>
            receipt'[p] = "accepted" \/ status[p] \in {"conflict", "none"}
<1>1. Init => LaneInv
  BY InitLane
<1>2. TypeOK /\ OutboxInv /\ NothingLost /\ LaneInv /\ [Next]_vars => LaneInv'
  <2> SUFFICES ASSUME TypeOK, OutboxInv, NothingLost, LaneInv, UNCHANGED vars
               PROVE  LaneInv'
    BY NextLane
  <2>1. UNCHANGED <<receipt, status, seq, counter, pc, batch, reply, request>>
    BY DEF vars, rowVars, lineVars, flushVars, wireVars, serverVars
  <2> QED
    BY <2>1 DEF LaneInv, PhaseInv, InOrder, Passed
<1>3. TypeOK /\ LaneInv /\ [Next]_vars => [Keeps]_vars
  <2> SUFFICES ASSUME TypeOK, LaneInv, Next, Execute, NEW o \in Op,
                      effects'[o] > effects[o], NEW p \in Lane(Owner[o]),
                      seq[p] \in 1 .. (seq[o] - 1)
               PROVE  receipt'[p] = "accepted" \/ status[p] \in {"conflict", "none"}
    OBVIOUS
  <2>1. /\ request.ops \in SUBSET Op /\ receipt \in [Op -> Receipt]
        /\ effects[o] \in Nat /\ seq[o] \in Nat /\ seq[p] \in Nat /\ p \in Op
        /\ seq \in [Op -> Nat]
    <3>1. p \in Op
      BY DEF Lane
    <3> QED
      BY <3>1 DEF TypeOK, Request, LedgerTypeOK
  <2>2. effects' # effects
    BY <2>1
  <2>3. PICK verdict \in [request.ops -> Verdict] : Commits(request, verdict)
    BY <2>2 DEF Execute, serverVars
  <2>4. SyncGroup(request.ops, seq, deps, verdict)
    BY <2>3 DEF Commits
  <2>5. o \in request.ops /\ verdict[o] = "accepted"
    BY <2>1, <2>4 DEF SyncGroup
  <2>6. CASE p \in request.ops
    <3>1. seq[p] < seq[o]
      BY <2>1
    <3>2. verdict[p] \in Passing
      BY <2>1, <2>4, <2>5, <2>6, <3>1, BatchInOrder DEF SyncGroup, Passing
    <3> QED
      BY <2>1, <2>4, <2>6, <3>2, SyncGroupOnce
  <2>7. CASE Passed(p)
    BY <2>1, <2>7, ReceiptStays DEF Passed
  <2> QED
    BY <2>5, <2>6, <2>7 DEF LaneInv, InOrder
<1> QED
  BY <1>1, <1>2, <1>3, InitOutbox, NextOutbox, NothingIsLost, TypeCorrect, PTL
  DEF Spec, LaneOrder

-----------------------------------------------------------------------------
(* Lapsed rows *)

(* An operation that cannot come through any more, or had its turn in      *)
(* conflict.  A start aborted while it is selected may be sent after all.  *)
Failed(p) == (status[p] = "conflict" /\ p \notin batch)
             \/ p \in dropped \cup reopened

LapsedInv ==
  \A o \in Op : status[o] = "conflict" /\ code[o] = "lapsed" =>
    \E p \in Op : DependsOn(o, p) /\ seq[p] > 0 /\ Failed(p)

(* What the flush is about to settle has a cause, or it was read with it.  *)
DoomedInv ==
  \A o \in doomed :
    /\ seq[o] > 0 /\ (status[o] = "none" => o \in dropped)
    /\ \E p \in Op : DependsOn(o, p) /\ seq[p] > 0 /\ (p \in doomed \/ Failed(p))

(* A prerequisite joins the lane before what depends on it. *)
OrderInv ==
  /\ \A o \in Op : seq[o] < counter[Owner[o]]
  /\ \A o \in Op : \A p \in deps[o] : <<p, o>> \in Prereq => seq[p] < seq[o]

(* An operation is selected with all its prerequisites, and acknowledged   *)
(* after them.                                                             *)
Quiet(o) == status[o] \in {"none", "acked"}

SelectedInv ==
  \A o \in batch, p \in Op : DependsOn(o, p) /\ seq[p] > 0 /\ ~Quiet(p)
    => p \in batch

AckedInv ==
  \A o, p \in Op : status[o] = "acked" /\ DependsOn(o, p) /\ seq[p] > 0
    => Quiet(p)

LapseInv ==
  /\ OrderInv /\ SelectedInv /\ AckedInv /\ DoomedInv /\ LapsedInv
  /\ \A o \in reopened : seq[o] > 0

(* A member of a chain that is no root of it depends on another member.    *)
LEMMA ChainStep ==
  ASSUME NEW roots, NEW rows, NEW q \in DependencyChain(roots, rows),
         q \notin roots
  PROVE  \E p \in DependencyChain(roots, rows) : DependsOn(q, p)
<1> DEFINE C == DependencyChain(roots, rows)
<1> SUFFICES ASSUME \A p \in C : ~DependsOn(q, p) PROVE FALSE
  OBVIOUS
<1>1. C \subseteq rows /\ roots \cap rows \subseteq C
  BY DEF DependencyChain
<1>2. \A p \in C, o \in rows : DependsOn(o, p) => o \in C
  BY ChainClosed
<1>3. /\ C \ {q} \in SUBSET rows
      /\ roots \cap rows \subseteq C \ {q}
      /\ \A p \in C \ {q}, o \in rows : DependsOn(o, p) => o \in C \ {q}
  BY <1>1, <1>2
<1>4. \A S \in SUBSET rows :
        /\ roots \cap rows \subseteq S
        /\ \A p \in S, o \in rows : DependsOn(o, p) => o \in S
        => q \in S
  BY DEF DependencyChain
<1> QED
  BY <1>3, <1>4

(* A set of rows that holds the roots and every dependant holds the chain. *)
LEMMA ChainWithin ==
  ASSUME NEW roots, NEW rows, NEW S \in SUBSET rows,
         roots \cap rows \subseteq S,
         \A p \in S, o \in rows : DependsOn(o, p) => o \in S
  PROVE  DependencyChain(roots, rows) \subseteq S
BY DEF DependencyChain

(* What an operation depends on was issued before it, and the relation of  *)
(* two issued operations is fixed.                                         *)
LEMMA DependsLater ==
  ASSUME TypeOK, OrderInv, NEW o \in Op, NEW p \in Op, DependsOn(o, p)
  PROVE  seq[p] < seq[o]
BY DEF DependsOn, Precedes, OrderInv

LEMMA DependsStays ==
  ASSUME TypeOK, DepsInv, OrderInv, Next, NEW o \in Op, NEW p \in Op, seq[o] > 0
  PROVE  /\ DependsOn(o, p) /\ seq[p] > 0 => DependsOn(o, p)' /\ seq'[p] > 0
         /\ DependsOn(o, p)' /\ seq'[p] > 0 => DependsOn(o, p) /\ seq[p] > 0
<1>1. seq'[o] = seq[o] /\ deps'[o] = deps[o]
  BY LineStays
<1>2. seq[p] > 0 => seq'[p] = seq[p]
  BY LineStays
<1>3. seq[p] \in Nat /\ seq[o] \in Nat
  BY DEF TypeOK
<1>4. ASSUME DependsOn(o, p)', seq'[p] > 0 PROVE seq[p] > 0
  <2>1. CASE p \in deps[o]
    BY <2>1 DEF DepsInv
  <2>2. CASE seq'[p] < seq'[o] /\ <<p, o>> \in Creates
    <3>1. Owner[p] = Owner[o] /\ Owner[o] \in Actor
      BY <2>2, RelationAssumption, OwnerAssumption DEF Pairs
    <3>2. seq[o] < counter[Owner[o]] /\ counter[Owner[o]] \in Nat
      BY <3>1 DEF OrderInv, TypeOK
    <3>3. seq'[p] = seq[p] \/ seq'[p] >= counter[Owner[p]]
      BY LineGrows DEF OrderInv
    <3>4. seq'[p] \in Nat
      BY NextType DEF TypeOK
    <3> QED
      BY <1>1, <1>3, <1>4, <2>2, <3>1, <3>2, <3>3, <3>4
  <2> QED
    BY <1>1, <1>4, <2>1, <2>2 DEF DependsOn, Precedes
<1> QED
  BY <1>1, <1>2, <1>4 DEF DependsOn, Precedes

LEMMA NextOrder ==
  ASSUME TypeOK, RowInv, DepsInv, DepsInv', OrderInv, Next
  PROVE  OrderInv'
<1>1. \A o \in Op : seq'[o] < counter'[Owner[o]]
  BY LineGrows DEF OrderInv
<1> SUFFICES ASSUME NEW o \in Op, NEW p \in deps'[o], <<p, o>> \in Prereq
             PROVE  seq'[p] < seq'[o]
  BY <1>1 DEF OrderInv
<1>2. /\ p \in Op /\ Owner[p] = Owner[o] /\ Owner[o] \in Actor
      /\ seq \in [Op -> Nat] /\ counter \in [Actor -> Nat]
      /\ deps \in [Op -> SUBSET Op]
  BY RelationAssumption, OwnerAssumption DEF Pairs, TypeOK
<1>3. CASE p \in deps[o]
  <2>1. seq[p] > 0 /\ seq[p] < seq[o]
    BY <1>3 DEF DepsInv, OrderInv
  <2>2. seq[o] > 0
    BY <1>2, <2>1
  <2> QED
    BY <1>2, <2>1, <2>2, LineStays
<1>4. CASE p \notin deps[o]
  <2>1. seq[o] = 0
    BY <1>2, <1>4, LineStays
  <2>2. seq'[o] # seq[o] => seq'[o] >= counter[Owner[o]]
    BY LineGrows DEF OrderInv
  <2>3. CASE seq[p] > 0 /\ seq'[o] # seq[o]
    <3>1. seq'[p] = seq[p] /\ seq[p] < counter[Owner[o]]
      BY <1>2, <2>3, LineStays DEF OrderInv
    <3>2. seq'[o] \in Nat
      BY NextType DEF TypeOK
    <3> QED
      BY <1>2, <2>2, <2>3, <3>1, <3>2
  <2>4. \/ seq[p] > 0 /\ seq'[o] # seq[o]
        \/ \E g, r \in Op : EnqueuePromoted(g, r)
    <3>1. ASSUME NEW n \in Op, Enqueue(n)
          PROVE  seq[p] > 0 /\ seq'[o] # seq[o]
      <4>1. o = n /\ p \in Predecessors(o)
        BY <1>2, <1>4, <3>1 DEF Enqueue
      <4>2. seq[p] > 0
        BY <1>2, <4>1 DEF Predecessors, IsOpen, Open, RowInv
      <4>3. seq'[o] = counter[Owner[o]]
        BY <1>2, <3>1, <4>1 DEF Enqueue
      <4> QED
        BY <1>2, <2>1, <4>2, <4>3 DEF OrderInv
    <3>2. ASSUME NEW n \in Op, RecreateConflict(n)
          PROVE  seq[p] > 0 /\ seq'[o] # seq[o]
      <4>1. o = n
        BY <1>2, <1>4, <3>2 DEF RecreateConflict
      <4>2. seq'[o] = counter[Owner[o]]
        BY <1>2, <3>2, <4>1 DEF RecreateConflict
      <4>3. seq'[p] > 0
        BY <1>2 DEF DepsInv
      <4>4. p # o
        BY RelationAssumption DEF Pairs
      <4>5. seq'[p] = seq[p]
        BY <1>2, <3>2, <4>1, <4>4 DEF RecreateConflict
      <4> QED
        BY <1>2, <2>1, <4>2, <4>3, <4>5 DEF OrderInv
    <3>3. CASE UNCHANGED deps
      BY <1>4, <3>3
    <3>4. \/ UNCHANGED deps
          \/ \E n \in Op : Enqueue(n) \/ RecreateConflict(n)
          \/ \E g, r \in Op : EnqueuePromoted(g, r)
      <4>1. CASE Command
        BY <4>1 DEF Command, CompactReceipt, RetryFailed, ChooseStart,
             ChooseConflict, AbortStart, DiscardConflict, lineVars
      <4>2. CASE Transport
        BY <4>2 DEF Transport, StartFlight, ReadRows, Settle, Select,
             CheckAccount, Transmit, Receive, Finish, Take, Guard, Commit,
             lineVars
      <4>3. CASE Environment
        BY <4>3 DEF Environment, Execute, Refuse, TimeOut, Crash, SignOut,
             SignIn, BackoffElapsed, ExecuteLate, lineVars
      <4> QED
        BY <4>1, <4>2, <4>3 DEF Next
    <3> QED
      BY <3>1, <3>2, <3>3, <3>4
  <2>5. ASSUME NEW g \in Op, NEW r \in Op, EnqueuePromoted(g, r)
        PROVE  seq'[p] < seq'[o]
    <3>1. g # r /\ Owner[g] = Owner[r] /\ p # o
      BY <2>5, RelationAssumption DEF EnqueuePromoted, Pairs
    <3>2. seq'[g] = counter[Owner[g]] /\ seq'[r] = counter[Owner[g]] + 1
      BY <1>2, <2>5, <3>1 DEF EnqueuePromoted
    <3>3. o \in {g, r}
      BY <1>2, <1>4, <2>5 DEF EnqueuePromoted
    <3>4. CASE p = g
      BY <1>2, <3>1, <3>2, <3>3, <3>4
    <3>5. CASE p # g
      <4>1. p \in Predecessors(o)
        BY <1>2, <1>4, <2>5, <3>1, <3>3, <3>5 DEF EnqueuePromoted
      <4>2. seq[p] > 0
        BY <1>2, <4>1 DEF Predecessors, IsOpen, Open, RowInv
      <4>3. seq'[o] # seq[o]
        BY <1>2, <2>1, <3>1, <3>2, <3>3, <4>2 DEF OrderInv
      <4> QED
        BY <2>3, <4>2, <4>3
    <3> QED
      BY <3>4, <3>5
  <2> QED
    BY <2>3, <2>4, <2>5
<1> QED
  BY <1>3, <1>4

(* A settled row stays settled, and a deleted one is not brought back. *)
LEMMA QuietStays ==
  ASSUME TypeOK, OutboxInv, Next, NEW o \in Op, seq[o] > 0, Quiet(o)
  PROVE  Quiet(o)' /\ (status[o] = "none" => status'[o] = "none")
<1> USE DEF Quiet
<1>1. CASE Transport
  BY <1>1, TransportRows
<1>2. CASE Environment
  BY <1>2 DEF Environment, Execute, Refuse, TimeOut, Crash, SignOut, SignIn,
       BackoffElapsed, ExecuteLate, rowVars
<1>3. CASE Command
  <2>1. ASSUME NEW n \in Op, Enqueue(n) PROVE status'[o] = status[o]
    BY <2>1 DEF Enqueue, Issuable, TypeOK
  <2>2. ASSUME NEW g \in Op, NEW r \in Op, EnqueuePromoted(g, r)
        PROVE  status'[o] = status[o]
    BY <2>2 DEF EnqueuePromoted, Issuable, TypeOK
  <2>3. ASSUME NEW n \in Op, RecreateConflict(n)
        PROVE  status'[o] \in {status[o], "none"}
    <3>1. o # n
      BY <2>3 DEF RecreateConflict
    <3> QED
      BY <2>3, <3>1 DEF RecreateConflict, Without
  <2>4. CASE DiscardConflict
    BY <2>4 DEF DiscardConflict, Without
  <2>5. CASE AbortStart
    <3>1. status[o] = "acked" => o \notin choice.root
      BY <2>5, KindAssumption DEF AbortStart, OutboxInv, RowInv, LineInv
    <3> QED
      BY <2>5, <3>1 DEF AbortStart, Rows, HasRow
  <2>6. ASSUME NEW n \in Op,
               \/ CompactReceipt(n) \/ RetryFailed(n)
               \/ ChooseStart(n) \/ ChooseConflict(n)
        PROVE  status'[o] \in {status[o], "none"}
    BY <2>6 DEF CompactReceipt, RetryFailed, ChooseStart, ChooseConflict,
         rowVars, TypeOK
  <2> QED
    BY <1>3, <2>1, <2>2, <2>3, <2>4, <2>5, <2>6 DEF Command
<1> QED
  BY <1>1, <1>2, <1>3 DEF Next

(* A command reads and writes nothing the flush works on. *)
LEMMA CommandFlush ==
  ASSUME Command
  PROVE  dropped \subseteq dropped' /\ UNCHANGED <<reopened, flushVars>>
BY DEF Command, Enqueue, EnqueuePromoted, CompactReceipt, RetryFailed,
  ChooseStart, ChooseConflict, RecreateConflict, AbortStart, DiscardConflict,
  Without, commandVars

(* A command deletes an unacknowledged row only by discarding it, and lets *)
(* none lapse.                                                             *)
LEMMA CommandLapse ==
  ASSUME TypeOK, OutboxInv, Command, NEW o \in Op
  PROVE  /\ seq[o] > 0 /\ ~Quiet(o) => status'[o] # "none" \/ o \in dropped'
         /\ status'[o] = "conflict" /\ code'[o] = "lapsed"
              => status[o] = "conflict" /\ code[o] = "lapsed"
<1> USE DEF Quiet, TypeOK
<1>1. ASSUME NEW n \in Op, Enqueue(n)
      PROVE  /\ UNCHANGED code
             /\ \/ status'[o] = status[o]
                \/ seq[o] = 0 /\ status'[o] = "pending"
  BY <1>1 DEF Enqueue, Issuable
<1>2. ASSUME NEW g \in Op, NEW r \in Op, EnqueuePromoted(g, r)
      PROVE  /\ UNCHANGED code
             /\ \/ status'[o] = status[o]
                \/ seq[o] = 0 /\ status'[o] = "pending"
  BY <1>2 DEF EnqueuePromoted, Issuable
<1>3. ASSUME NEW n \in Op, CompactReceipt(n)
      PROVE  /\ UNCHANGED code
             /\ \/ status'[o] = status[o]
                \/ status[o] = "acked" /\ status'[o] = "none"
  BY <1>3 DEF CompactReceipt
<1>4. ASSUME NEW n \in Op,
             RetryFailed(n) \/ ChooseStart(n) \/ ChooseConflict(n)
      PROVE  UNCHANGED <<status, code>>
  BY <1>4 DEF RetryFailed, ChooseStart, ChooseConflict, rowVars, commandVars
<1>5. ASSUME NEW chain, NEW fresh, Without(chain, fresh)
      PROVE  /\ ~Quiet(o) => status'[o] # "none" \/ o \in dropped'
             /\ status'[o] = "conflict" /\ code'[o] = "lapsed"
                  => status[o] = "conflict" /\ code[o] = "lapsed"
  <2>1. /\ status'[o] = IF o \in fresh THEN "pending"
                        ELSE IF o \in chain THEN "none" ELSE status[o]
        /\ code'[o] = IF o \in chain THEN "none" ELSE code[o]
        /\ o \in chain /\ ~Quiet(o) => o \in dropped'
    BY <1>5 DEF Without
  <2> QED
    BY <2>1
<1>6. CASE DiscardConflict
  BY <1>5, <1>6 DEF DiscardConflict
<1>7. ASSUME NEW n \in Op, RecreateConflict(n)
      PROVE  /\ ~Quiet(o) => status'[o] # "none" \/ o \in dropped'
             /\ status'[o] = "conflict" /\ code'[o] = "lapsed"
                  => status[o] = "conflict" /\ code[o] = "lapsed"
  BY <1>5, <1>7 DEF RecreateConflict
<1>8. CASE AbortStart
  BY <1>8 DEF AbortStart
<1> QED
  BY <1>1, <1>2, <1>3, <1>4, <1>6, <1>7, <1>8 DEF Command

(* The flush selects an operation with all it depends on. *)
LEMMA PrefixSelected ==
  ASSUME TypeOK, NEW a, NEW o \in Prefix(a), NEW p \in Op, DependsOn(o, p),
         ~Quiet(p)
  PROVE  p \in Prefix(a)
<1>1. o \in Op /\ Owner[o] = a /\ ~Unmet(o, Ahead(o))
  BY DEF Prefix, Lane
<1>2. p \in Ahead(o)
  BY <1>1 DEF Unmet, Rows, HasRow, Quiet
<1>3. p \in Lane(a) /\ IsOpen(p) /\ Precedes(p, o)
  BY <1>1, <1>2 DEF Ahead
<1> QED
  BY <1>3, PrefixWhole

(* The batch only shrinks between two selections, by operations that are   *)
(* settled.                                                                *)
LEMMA BatchShrinks ==
  ASSUME TypeOK, FlushInv, Next
  PROVE  \/ batch' = {}
         \/ batch' = batch
         \/ batch' = Prefix(session) /\ UNCHANGED <<status, lineVars>>
         \/ batch' \subseteq batch /\ \A o \in batch \ batch' : Quiet(o)'
<1>1. CASE Command \/ Environment
  BY <1>1 DEF Command, Enqueue, EnqueuePromoted, CompactReceipt, RetryFailed,
       ChooseStart, ChooseConflict, RecreateConflict, AbortStart,
       DiscardConflict, Environment, Execute, Refuse, TimeOut, Crash, SignOut,
       SignIn, BackoffElapsed, ExecuteLate, Idle, flushVars
<1>2. ASSUME NEW o \in Op, Take(o), ~Idle
      PROVE  batch' = batch \/ (batch' = batch \ {o} /\ Quiet(o)')
  BY <1>2 DEF Take, HasRow, Quiet
<1>3. ASSUME NEW o \in Op, Guard(o) PROVE batch' \in {{}, batch}
  BY <1>3 DEF Guard, Idle
<1>4. ASSUME NEW o \in Op, Commit(o), ~Idle
      PROVE  batch' = batch \ {o} /\ Quiet(o)'
  <2>1. /\ batch' = batch \ {o}
        /\ \/ Write(o, "acked", "none", held.tried, TRUE)
           \/ Write(o, "none", "none", FALSE, TRUE)
    BY <1>4 DEF Commit
  <2> QED
    BY <2>1 DEF Write, Quiet, HasRow
<1>5. CASE StartFlight \/ ReadRows \/ Settle \/ CheckAccount \/ Transmit
           \/ Receive \/ Finish
  BY <1>5 DEF StartFlight, ReadRows, Settle, CheckAccount, Transmit, Receive,
       Finish, Idle
<1>6. CASE Select
  BY <1>6 DEF Select, Idle, rowVars
<1> QED
  BY <1>1, <1>2, <1>3, <1>4, <1>5, <1>6 DEF Next, Transport, Idle

LEMMA NextSelected ==
  ASSUME TypeOK, OutboxInv, FlushInv, DepsInv, OrderInv, SelectedInv, Next
  PROVE  SelectedInv'
<1> SUFFICES ASSUME NEW o \in batch', NEW p \in Op, DependsOn(o, p)',
                    seq'[p] > 0, ~Quiet(p)'
             PROVE  p \in batch'
  BY DEF SelectedInv
<1>1. CASE o \in batch /\ batch' \subseteq batch
           /\ \A q \in batch \ batch' : Quiet(q)'
  <2>1. o \in Op /\ seq[o] > 0
    BY <1>1 DEF TypeOK, OutboxInv, SentInv
  <2>2. DependsOn(o, p) /\ seq[p] > 0
    BY <2>1, DependsStays
  <2>3. ~Quiet(p)
    BY <2>2, QuietStays
  <2> QED
    BY <1>1, <2>2, <2>3 DEF SelectedInv
<1>2. CASE batch' = Prefix(session) /\ UNCHANGED <<status, lineVars>>
  <2>1. DependsOn(o, p) /\ ~Quiet(p)
    BY <1>2 DEF DependsOn, Precedes, Quiet, lineVars
  <2> QED
    BY <1>2, <2>1, PrefixSelected
<1> QED
  BY <1>1, <1>2, BatchShrinks

(* An operation is acknowledged when the ones it depends on are. *)
LEMMA NextAcked ==
  ASSUME TypeOK, OutboxInv, OutboxInv', DepsInv, OrderInv, SelectedInv, AckedInv,
         Next
  PROVE  AckedInv'
<1> SUFFICES ASSUME NEW o \in Op, NEW p \in Op, status'[o] = "acked",
                    DependsOn(o, p)', seq'[p] > 0
             PROVE  Quiet(p)'
  BY DEF AckedInv
<1>1. \/ status[o] = "acked"
      \/ Commit(o)
  <2>1. CASE Command
    BY <2>1, CommandRows
  <2>2. CASE Transport
    BY <2>2, TransportRows
  <2>3. CASE Environment
    BY <2>3 DEF Environment, Execute, Refuse, TimeOut, Crash, SignOut, SignIn,
         BackoffElapsed, ExecuteLate, rowVars
  <2> QED
    BY <2>1, <2>2, <2>3 DEF Next
<1>2. seq[o] > 0
  <2>1. CASE status[o] = "acked"
    BY <2>1 DEF OutboxInv, RowInv, TypeOK
  <2>2. CASE Commit(o)
    BY <2>2 DEF Commit, IsFirst, OutboxInv, SentInv
  <2> QED
    BY <1>1, <2>1, <2>2
<1>3. DependsOn(o, p) /\ seq[p] > 0
  BY <1>2, DependsStays
<1>4. Quiet(p)
  <2>1. CASE status[o] = "acked"
    BY <1>3, <2>1 DEF AckedInv
  <2>2. CASE Commit(o)
    <3>1. o \in batch /\ \A q \in batch : seq[o] <= seq[q]
      BY <2>2 DEF Commit, IsFirst
    <3>2. seq[p] < seq[o] /\ seq[p] \in Nat /\ seq[o] \in Nat
      BY <1>3, DependsLater DEF TypeOK
    <3>3. p \notin batch
      BY <3>1, <3>2
    <3> QED
      BY <1>3, <3>1, <3>3 DEF SelectedInv
  <2> QED
    BY <1>1, <2>1, <2>2
<1> QED
  BY <1>3, <1>4, QuietStays

(* What cannot come through stays so while the flush leaves rows alone.    *)
LEMMA FailedStays ==
  ASSUME TypeOK, OutboxInv, Command, NEW p \in Op, seq[p] > 0, Failed(p)
  PROVE  Failed(p)'
<1>1. /\ dropped \subseteq dropped' /\ UNCHANGED <<reopened, batch>>
      /\ ~Quiet(p) => status'[p] # "none" \/ p \in dropped'
  BY CommandFlush, CommandLapse DEF flushVars
<1>2. CASE p \in dropped \cup reopened
  BY <1>1, <1>2 DEF Failed
<1>3. CASE status[p] = "conflict" /\ p \notin batch
  <2>1. status'[p] \in {"none", "conflict"}
    BY <1>3, CommandKeeps
  <2>2. status'[p] = "none" => p \in dropped'
    BY <1>1, <1>3 DEF Quiet
  <2> QED
    BY <1>1, <1>3, <2>1, <2>2 DEF Failed
<1> QED
  BY <1>2, <1>3 DEF Failed

(* A flush that ends, or one that has settled, is about to settle nothing; *)
(* what it reads has a cause among the rows it read.                       *)
LEMMA NextDoomed ==
  ASSUME TypeOK, OutboxInv, FlushInv, FlushInv', OutboxInv', DepsInv, OrderInv,
         DoomedInv, Next
  PROVE  DoomedInv'
<1>1. CASE doomed' = {}
  BY <1>1 DEF DoomedInv
<1>2. CASE ReadRows
  <2> DEFINE own == {o \in Rows : Owner[o] = session}
             terminal == {o \in own : status[o] = "conflict" /\ ~Recoverable(o)}
             live == {o \in own : status[o] # "acked"}
             chain == DependencyChain(terminal, live)
  <2>1. /\ doomed' = {o \in chain : status[o] # "conflict"}
        /\ UNCHANGED <<rowVars, lineVars, commandVars, batch>>
    BY <1>2 DEF ReadRows
  <2>2. batch = {}
    BY <1>2 DEF ReadRows, FlushInv, BatchInv
  <2>3. \A o \in chain : o \in Op /\ status[o] # "none" /\ seq[o] > 0
    <3>1. \A o \in chain : o \in Op /\ status[o] # "none"
      BY DEF DependencyChain, Rows, HasRow
    <3> QED
      BY <3>1 DEF OutboxInv, RowInv, TypeOK
  <2>4. ASSUME NEW o \in doomed'
        PROVE  \E p \in Op : /\ DependsOn(o, p) /\ seq[p] > 0
                             /\ p \in doomed' \/ status[p] = "conflict"
    <3>1. o \in chain /\ o \notin terminal
      BY <2>1, <2>4
    <3>2. PICK p \in chain : DependsOn(o, p)
      BY <3>1, ChainStep
    <3> QED
      BY <2>1, <2>3, <3>2
  <2>5. \A o, p : DependsOn(o, p) => DependsOn(o, p)'
    BY <2>1 DEF DependsOn, Precedes, lineVars
  <2> HIDE DEF chain
  <2> QED
    BY <2>1, <2>2, <2>3, <2>4, <2>5
    DEF DoomedInv, Failed, rowVars, lineVars, commandVars
<1>3. ASSUME UNCHANGED doomed,
             \A o \in doomed : status[o] # "none" =>
               status'[o] # "none" \/ o \in dropped',
             \A p \in Op : seq[p] > 0 /\ Failed(p) => Failed(p)',
             dropped \subseteq dropped'
      PROVE  DoomedInv'
  <2> SUFFICES ASSUME NEW o \in doomed
               PROVE  /\ seq'[o] > 0 /\ (status'[o] = "none" => o \in dropped')
                      /\ \E p \in Op : /\ DependsOn(o, p)' /\ seq'[p] > 0
                                       /\ p \in doomed \/ Failed(p)'
    BY <1>3 DEF DoomedInv
  <2>1. /\ o \in Op /\ seq[o] > 0 /\ (status[o] = "none" => o \in dropped)
    BY DEF DoomedInv, TypeOK
  <2>2. PICK p \in Op : /\ DependsOn(o, p) /\ seq[p] > 0
                        /\ p \in doomed \/ Failed(p)
    BY DEF DoomedInv
  <2>3. seq'[o] > 0
    BY <2>1, LineStays
  <2>4. DependsOn(o, p)' /\ seq'[p] > 0
    BY <2>1, <2>2, DependsStays
  <2> QED
    BY <1>3, <2>1, <2>2, <2>3, <2>4
<1>4. CASE Command
  <2>1. doomed \subseteq Op /\ \A o \in doomed : status[o] # "acked" /\ seq[o] > 0
    BY DEF TypeOK, OutboxInv, WorkInv, DoomedInv
  <2>2. UNCHANGED doomed /\ dropped \subseteq dropped'
    BY <1>4, CommandFlush DEF flushVars
  <2>3. \A o \in doomed : status[o] # "none" => status'[o] # "none" \/ o \in dropped'
    BY <1>4, <2>1, CommandLapse DEF Quiet
  <2> QED
    BY <1>3, <1>4, <2>2, <2>3, FailedStays
<1>5. CASE Environment
  <2>1. \/ doomed' = {}
        \/ UNCHANGED <<status, dropped, reopened, doomed, batch>>
    BY <1>5 DEF Environment, Execute, Refuse, TimeOut, Crash, SignOut, SignIn,
         BackoffElapsed, ExecuteLate, Idle, rowVars, commandVars, flushVars
  <2> QED
    BY <1>1, <1>3, <2>1 DEF Failed
<1>6. CASE Transport /\ ~ReadRows
  <2>1. pc' # "settle"
    BY <1>6 DEF Transport, StartFlight, Settle, Select, CheckAccount, Transmit,
         Receive, Finish, Take, Guard, Commit, Idle
  <2> QED
    BY <1>1, <2>1 DEF OutboxInv, WorkInv
<1> QED
  BY <1>2, <1>4, <1>5, <1>6 DEF Next

(* A conflict that is settled takes along what depends on it, and what     *)
(* depends on that.                                                        *)
LEMMA TerminateLapsed ==
  ASSUME TypeOK, OutboxInv, AckedInv, LapsedInv, NEW o \in Op,
         status[o] # "acked", NEW cd \in {"stale", "final"}, Terminate(o, cd),
         UNCHANGED <<lineVars, dropped, reopened>>, batch' = {}
  PROVE  LapsedInv'
<1> DEFINE chain == DependencyChain({o}, Rows)
           lapse == {q \in chain : status[q] # "acked"} \ {o}
<1>1. \A q \in Op :
        /\ status'[q] = IF q \in lapse \/ (q = o /\ HasRow(o)) THEN "conflict"
                        ELSE status[q]
        /\ code'[q] = IF q \in lapse THEN "lapsed"
                      ELSE IF q = o /\ HasRow(o) THEN cd ELSE code[q]
  BY DEF Terminate
<1>2. chain \subseteq {q \in Rows : status[q] # "acked"} /\ (o \in chain => HasRow(o))
  <2> DEFINE live == IF HasRow(o) THEN {q \in Rows : status[q] # "acked"} ELSE {}
  <2>1. \A p \in live, q \in Rows : DependsOn(q, p) => q \in live
    <3> SUFFICES ASSUME NEW p \in live, NEW q \in Rows, DependsOn(q, p)
                 PROVE  q \in live
      OBVIOUS
    <3>1. p \in Op /\ q \in Op /\ HasRow(p) /\ ~Quiet(p) /\ HasRow(o)
      BY DEF Rows, HasRow, Quiet
    <3>2. seq[p] > 0
      BY <3>1 DEF HasRow, OutboxInv, RowInv, TypeOK
    <3>3. status[q] # "acked"
      BY <3>1, <3>2 DEF AckedInv
    <3> QED
      BY <3>1, <3>3
  <2>2. live \in SUBSET Rows /\ {o} \cap Rows \subseteq live
    BY DEF Rows
  <2> HIDE DEF live
  <2>3. chain \subseteq live
    BY <2>1, <2>2, ChainWithin
  <2> QED
    BY <2>3 DEF live
<1>3. lapse = chain \ {o} /\ \A q \in chain : status'[q] = "conflict"
  BY <1>1, <1>2 DEF Rows
<1>4. \A q \in chain : q \in Op /\ seq[q] > 0
  BY <1>2 DEF Rows, HasRow, OutboxInv, RowInv, TypeOK
<1>5. \A q \in Op, p \in Op : /\ DependsOn(q, p) => DependsOn(q, p)'
                              /\ seq'[p] = seq[p]
  BY DEF DependsOn, Precedes, lineVars
<1> SUFFICES ASSUME NEW q \in Op, status'[q] = "conflict", code'[q] = "lapsed"
             PROVE  \E p \in Op : DependsOn(q, p)' /\ seq'[p] > 0 /\ Failed(p)'
  BY DEF LapsedInv
<1>6. CASE q \in lapse
  <2>1. PICK p \in chain : DependsOn(q, p)
    BY <1>3, <1>6, ChainStep
  <2> QED
    BY <1>3, <1>4, <1>5, <1>6, <2>1 DEF Failed
<1>7. CASE q \notin lapse
  <2>1. status[q] = "conflict" /\ code[q] = "lapsed"
    BY <1>1, <1>7
  <2>2. PICK p \in Op : DependsOn(q, p) /\ seq[p] > 0 /\ Failed(p)
    BY <2>1 DEF LapsedInv
  <2>3. status[p] = "conflict" => status'[p] = "conflict"
    BY <1>1
  <2> QED
    BY <1>5, <2>2, <2>3 DEF Failed
<1> QED
  BY <1>6, <1>7

(* The write of one selected row lapses none and is the cause of none. *)
LEMMA RowLapsed ==
  ASSUME TypeOK, LapsedInv, NEW o \in batch,
         \A q \in Op \ {o} : status'[q] = status[q] /\ code'[q] = code[q],
         status'[o] # "conflict" \/ code'[o] # "lapsed",
         UNCHANGED <<lineVars, dropped, reopened>>, batch' \subseteq batch
  PROVE  LapsedInv'
<1> SUFFICES ASSUME NEW q \in Op, status'[q] = "conflict", code'[q] = "lapsed"
             PROVE  \E p \in Op : DependsOn(q, p)' /\ seq'[p] > 0 /\ Failed(p)'
  BY DEF LapsedInv
<1>1. status[q] = "conflict" /\ code[q] = "lapsed"
  OBVIOUS
<1>2. PICK p \in Op : DependsOn(q, p) /\ seq[p] > 0 /\ Failed(p)
  BY <1>1 DEF LapsedInv
<1>3. DependsOn(q, p)' /\ seq'[p] > 0
  BY <1>2 DEF DependsOn, Precedes, lineVars
<1>4. Failed(p)'
  BY <1>2 DEF Failed
<1> QED
  BY <1>3, <1>4

(* A row lapses for a prerequisite that failed in the same step, or that   *)
(* was read as failed and is still failed, discarded or just reopened.     *)
LEMMA NextLapsed ==
  ASSUME TypeOK, OutboxInv, OutboxInv', FlushInv, FlushInv', DepsInv, LapseInv,
         Next
  PROVE  LapsedInv'
<1>1. ASSUME UNCHANGED <<status, code, lineVars, dropped, reopened>>,
             batch' \subseteq batch
      PROVE  LapsedInv'
  BY <1>1 DEF LapseInv, LapsedInv, Failed, DependsOn, Precedes, lineVars
<1>2. CASE Command
  <2> SUFFICES ASSUME NEW o \in Op, status'[o] = "conflict", code'[o] = "lapsed"
               PROVE  \E p \in Op : DependsOn(o, p)' /\ seq'[p] > 0 /\ Failed(p)'
    BY DEF LapsedInv
  <2>1. status[o] = "conflict" /\ code[o] = "lapsed"
    BY <1>2, CommandLapse
  <2>2. PICK p \in Op : DependsOn(o, p) /\ seq[p] > 0 /\ Failed(p)
    BY <2>1 DEF LapseInv, LapsedInv
  <2>3. seq[o] > 0
    BY <2>1 DEF OutboxInv, RowInv, TypeOK
  <2> QED
    BY <1>2, <2>2, <2>3, DependsStays, FailedStays DEF LapseInv
<1>3. CASE Environment
  <2>1. /\ UNCHANGED <<status, code, lineVars, dropped, reopened>>
        /\ batch' = batch \/ batch' = {}
    BY <1>3 DEF Environment, Execute, Refuse, TimeOut, Crash, SignOut, SignIn,
         BackoffElapsed, ExecuteLate, Idle, rowVars, commandVars, flushVars
  <2> QED
    BY <1>1, <2>1
<1>4. CASE StartFlight \/ ReadRows \/ CheckAccount \/ Transmit \/ Receive
           \/ Finish
  <2>1. /\ UNCHANGED <<status, code, lineVars, dropped, reopened>>
        /\ batch' = batch \/ batch' = {}
    BY <1>4 DEF StartFlight, ReadRows, CheckAccount, Transmit, Receive, Finish,
         Idle, rowVars, commandVars
  <2> QED
    BY <1>1, <2>1
<1>5. CASE Select
  <2>1. /\ UNCHANGED <<status, code, lineVars, dropped, reopened>>
        /\ batch' = {} \/ batch' = Prefix(session)
    BY <1>5 DEF Select, Idle, rowVars, commandVars
  <2>2. \A p \in Prefix(session) : status[p] # "conflict"
    BY DEF Prefix, IsOpen, Open
  <2>3. \A p \in Op : seq[p] > 0 /\ Failed(p) => Failed(p)'
    BY <2>1, <2>2 DEF Failed
  <2> QED
    BY <2>1, <2>3 DEF LapseInv, LapsedInv, DependsOn, Precedes, lineVars
<1>6. CASE Settle
  <2>1. /\ batch = {} /\ batch' = {} /\ UNCHANGED <<lineVars, dropped>>
        /\ reopened' = reopened \cup (revive \cap Rows)
        /\ \A o \in Op :
             /\ status'[o] = IF o \in doomed \cap Rows THEN "conflict"
                             ELSE IF o \in revive \cap Rows THEN "pending"
                             ELSE status[o]
             /\ code'[o] = IF o \in doomed \cap Rows THEN "lapsed"
                           ELSE IF o \in revive \cap Rows THEN "none" ELSE code[o]
    BY <1>6 DEF Settle, FlushInv, BatchInv
  <2> SUFFICES ASSUME NEW o \in Op, status'[o] = "conflict", code'[o] = "lapsed"
               PROVE  \E p \in Op : DependsOn(o, p)' /\ seq'[p] > 0 /\ Failed(p)'
    BY DEF LapsedInv
  <2>2. ASSUME NEW p \in Op, p \in doomed \/ Failed(p) PROVE Failed(p)'
    <3>1. CASE p \in dropped \cup reopened
      BY <2>1, <3>1 DEF Failed
    <3>2. CASE p \in doomed
      BY <2>1, <3>1, <3>2 DEF LapseInv, DoomedInv, Failed, Rows, HasRow
    <3>3. CASE status[p] = "conflict"
      BY <2>1, <3>3 DEF Failed, Rows, HasRow
    <3> QED
      BY <2>2, <3>1, <3>2, <3>3 DEF Failed
  <2>3. \E p \in Op : /\ DependsOn(o, p) /\ seq[p] > 0
                      /\ p \in doomed \/ Failed(p)
    <3>1. CASE o \in doomed
      BY <3>1 DEF LapseInv, DoomedInv
    <3>2. CASE o \notin doomed
      BY <2>1, <3>2 DEF LapseInv, LapsedInv
    <3> QED
      BY <3>1, <3>2
  <2> QED
    BY <2>1, <2>2, <2>3 DEF DependsOn, Precedes, lineVars
<1>7. ASSUME NEW o \in Op, Take(o)
      PROVE  LapsedInv'
  <2>1. o \in batch /\ UNCHANGED <<lineVars, dropped, reopened>>
    BY <1>7 DEF Take, IsFirst, commandVars
  <2>2. CASE UNCHANGED <<status, code>>
    <3>1. batch' \subseteq batch
      BY <1>7 DEF Take, Idle
    <3> QED
      BY <1>1, <2>1, <2>2, <3>1
  <2>3. CASE /\ status' = [status EXCEPT ![o] = "inflight"]
             /\ code' = [code EXCEPT ![o] = "none"]
             /\ UNCHANGED batch
    <3>1. /\ status'[o] = "inflight"
          /\ \A q \in Op \ {o} : status'[q] = status[q] /\ code'[q] = code[q]
      BY <2>3 DEF TypeOK
    <3> QED
      BY <2>1, <2>3, <3>1, RowLapsed DEF LapseInv
  <2> QED
    BY <1>7, <2>2, <2>3 DEF Take
<1>8. ASSUME NEW o \in batch, NEW st, NEW attempted, NEW ready,
             Write(o, st, "none", attempted, ready),
             UNCHANGED <<lineVars, dropped, reopened>>, batch' \subseteq batch
      PROVE  LapsedInv'
  <2>1. o \in Op /\ \A q \in Op \ {o} : status'[q] = status[q] /\ code'[q] = code[q]
    BY <1>8 DEF Write, TypeOK
  <2>2. status'[o] # "conflict" \/ code'[o] # "lapsed"
    BY <1>8, <2>1 DEF Write, HasRow
  <2> QED
    BY <1>8, <2>1, <2>2, RowLapsed DEF LapseInv
<1>9. ASSUME NEW o \in batch, NEW cd \in {"stale", "final", "open"},
             Conflict(o, cd), Idle,
             UNCHANGED <<lineVars, dropped, reopened>>
      PROVE  LapsedInv'
  <2>1. batch' = {}
    BY <1>9 DEF Idle
  <2>2. CASE BackOff(o)
    BY <1>8, <1>9, <2>1, <2>2 DEF BackOff
  <2>3. CASE cd # "open" /\ Terminate(o, cd)
    <3>1. o \in Op /\ status[o] # "acked"
      BY DEF TypeOK, OutboxInv, WorkInv
    <3> QED
      BY <1>9, <2>1, <2>3, <3>1, TerminateLapsed DEF LapseInv
  <2> QED
    BY <1>9, <2>2, <2>3 DEF Conflict
<1>10. ASSUME NEW o \in Op, Guard(o) PROVE LapsedInv'
  <2>1. o \in batch /\ UNCHANGED <<lineVars, dropped, reopened>>
    BY <1>10 DEF Guard, IsFirst, commandVars
  <2>2. CASE Idle /\ \E st \in {"failed", "pending"} :
                       Write(o, st, "none", held.tried, TRUE)
    BY <1>8, <2>1, <2>2 DEF Idle
  <2>3. CASE Idle /\ BackOff(o)
    BY <1>8, <2>1, <2>3 DEF Idle, BackOff
  <2>4. CASE Idle /\ \E cd \in {"stale", "final"} : Conflict(o, cd)
    BY <1>9, <2>1, <2>4
  <2>5. CASE UNCHANGED <<rowVars, batch>>
    BY <1>1, <2>1, <2>5 DEF rowVars
  <2> QED
    BY <1>10, <2>2, <2>3, <2>4, <2>5 DEF Guard
<1>11. ASSUME NEW o \in Op, Commit(o) PROVE LapsedInv'
  <2>1. o \in batch /\ UNCHANGED <<lineVars, dropped, reopened>>
    BY <1>11 DEF Commit, IsFirst, commandVars
  <2>2. CASE batch' = batch \ {o}
             /\ \/ Write(o, "acked", "none", held.tried, TRUE)
                \/ Write(o, "none", "none", FALSE, TRUE)
    BY <1>8, <2>1, <2>2
  <2>3. CASE Idle /\ \E cd \in {"final", "open"} : Conflict(o, cd)
    BY <1>9, <2>1, <2>3
  <2> QED
    BY <1>11, <2>2, <2>3 DEF Commit
<1> QED
  BY <1>2, <1>3, <1>4, <1>5, <1>6, <1>7, <1>10, <1>11 DEF Next, Transport

(* Only rows are reopened. *)
LEMMA NextReopened ==
  ASSUME TypeOK, OutboxInv, FlushInv, Next, \A o \in reopened : seq[o] > 0
  PROVE  \A o \in reopened' : seq'[o] > 0
<1>1. reopened' = reopened \/ (Settle /\ reopened' = reopened \cup (revive \cap Rows))
  <2>1. CASE Command
    BY <2>1, CommandFlush
  <2>2. CASE Transport
    BY <2>2 DEF Transport, StartFlight, ReadRows, Settle, Select, CheckAccount,
         Transmit, Receive, Finish, Take, Guard, Commit, commandVars
  <2>3. CASE Environment
    BY <2>3 DEF Environment, Execute, Refuse, TimeOut, Crash, SignOut, SignIn,
         BackoffElapsed, ExecuteLate, commandVars
  <2> QED
    BY <2>1, <2>2, <2>3 DEF Next
<1>2. \A o \in reopened' : o \in Op /\ seq[o] > 0
  BY <1>1 DEF FlushInv, ReviveInv, TypeOK
<1> QED
  BY <1>2, LineStays

(* The flush settles a row as expired only because an operation it depends *)
(* on failed for good, was discarded, or was in a version conflict that    *)
(* the flush gave another turn: neither the read outside the writer lock   *)
(* nor a chain that runs through acknowledged arrivals lets a row lapse    *)
(* whose prerequisites are alive.                                          *)
THEOREM LapsedWithCause == Spec => []LapsedForCause
<1>1. Init => FlushInv /\ LapseInv
  <2> SUFFICES ASSUME Init PROVE FlushInv /\ LapseInv
    OBVIOUS
  <2>1. \A o \in Op : seq[o] < counter[Owner[o]]
    BY InitLane DEF LaneInv
  <2> QED
    BY <2>1 DEF Init, FlushInv, BatchInv, ReviveInv, LapseInv, OrderInv,
      SelectedInv, AckedInv, DoomedInv, LapsedInv
<1>2. TypeOK /\ OutboxInv /\ OutboxInv' /\ FlushInv /\ CausalInv /\ CausalInv'
        /\ LapseInv /\ [Next]_vars => FlushInv' /\ LapseInv'
  <2> SUFFICES ASSUME TypeOK, OutboxInv, OutboxInv', FlushInv, CausalInv,
                      CausalInv', LapseInv, [Next]_vars
               PROVE  FlushInv' /\ LapseInv'
    OBVIOUS
  <2>1. FlushInv'
    BY NextFlush
  <2>2. CASE Next
    <3>1. DepsInv /\ DepsInv' /\ OrderInv /\ SelectedInv /\ AckedInv /\ DoomedInv
      BY DEF CausalInv, LapseInv
    <3>2. OrderInv'
      BY <2>2, <3>1, NextOrder DEF OutboxInv
    <3>3. SelectedInv'
      BY <2>2, <3>1, NextSelected
    <3>4. AckedInv'
      BY <2>2, <3>1, NextAcked
    <3>5. DoomedInv'
      BY <2>1, <2>2, <3>1, NextDoomed
    <3>6. LapsedInv'
      BY <2>1, <2>2, <3>1, NextLapsed
    <3>7. \A o \in reopened' : seq'[o] > 0
      BY <2>2, NextReopened DEF LapseInv
    <3> QED
      BY <2>1, <3>2, <3>3, <3>4, <3>5, <3>6, <3>7 DEF LapseInv
  <2>3. CASE UNCHANGED vars
    <3>1. UNCHANGED <<status, code, deps, seq, counter, dropped, reopened,
                      doomed, batch>>
      BY <2>3 DEF vars, rowVars, lineVars, commandVars, flushVars
    <3> QED
      BY <2>1, <3>1
      DEF LapseInv, OrderInv, SelectedInv, AckedInv, DoomedInv, LapsedInv,
          DependsOn, Precedes, Quiet, Failed
  <2> QED
    BY <2>2, <2>3
<1>3. LapseInv => LapsedForCause
  BY DEF LapseInv, LapsedInv, LapsedForCause, Failed
<1> QED
  BY <1>1, <1>2, <1>3, InitOutbox, NextOutbox, CausalAlways, TypeCorrect, PTL
  DEF Spec

=============================================================================
