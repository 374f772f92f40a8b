--------------------------- MODULE TripPassProofs ---------------------------
(***************************************************************************)
(* What TripPass keeps for any number of accounts, groups, passes and      *)
(* notifications: what the store took back is never in force, what it      *)
(* finished is granted, and what it gave back waits only for a free slot.  *)
(***************************************************************************)
EXTENDS TripPass, FiniteSetTheorems, SequenceTheorems, WellFoundedInduction,
        TLAPS

-----------------------------------------------------------------------------
(* The inductive invariant *)

Kind == {"REFUND", "REFUND_REVERSED", "REVOKE"}
Row == [group : Groups \cup {NoGroup}, owner : Accounts \cup {NoOne},
        status : Status]
Job == [phase : {"none", "ask", "sent", "answer"},
        group : Groups \cup {NoGroup}, who : Accounts \cup {NoOne},
        good : BOOLEAN]

Shape ==
  /\ user \in Accounts \cup {NoOne} /\ place \in Groups \cup {NoGroup}
  /\ sold \in [Pass -> Accounts \cup {NoOne}]
  /\ leader \in [Groups -> Accounts \cup {NoOne}] /\ fits \subseteq Groups
  /\ finished \subseteq Pass
  /\ notes \in [Pass -> Seq(Kind)] /\ lapsed \in 0..Passes
  /\ jobs \in [Pass -> Job] /\ late \subseteq Pass \X Job
  /\ rows \in [Pass -> Row]
  /\ promo \in [Groups -> {"none", "active", "lapsed", "expired"}]
  /\ accepted \subseteq Pass \X Nat

(* The store numbers what it sells, and signs so many notes about it. *)
Numbered == \E k \in 0..Passes : Sold = 1..k
Signed == \A p \in Pass : Len(notes[p]) <= MaxNotes

(* Only what was signed is accepted. *)
SignedFirst ==
  \A p \in Pass, i \in Nat : <<p, i>> \in accepted => i \in DOMAIN notes[p]

(* A settlement is of a transaction that was sold, for a group; once sent  *)
(* it has an account.                                                      *)
Settling(job) ==
  /\ job.phase = "none" => job = NoJob
  /\ job.phase \in {"ask", "sent"} => job.group \in Groups
  /\ job.phase = "sent" => job.who \in Accounts
JobsOK ==
  /\ \A p \in Pass : Settling(jobs[p]) /\ (jobs[p] # NoJob => p \in Sold)
  /\ \A r \in late : r[2].group \in Groups /\ r[2].who \in Accounts

(* A row is of the account whose token the transaction carries. *)
Owned(p, row) ==
  row # NoRow => /\ row.group \in Groups /\ row.status # "none"
                 /\ row.owner = sold[p] /\ row.owner \in Accounts
RowsOK == \A p \in Pass : Owned(p, rows[p])

(* A good answer stands for a row; a finished transaction had one. *)
Durable ==
  /\ \A p \in Pass : (jobs[p].phase = "answer" /\ jobs[p].good) =>
                       rows[p] # NoRow
  /\ \A p \in finished : rows[p] # NoRow

TripInv ==
  /\ Shape /\ Numbered /\ Signed /\ SignedFirst /\ JobsOK /\ RowsOK /\ Durable

-----------------------------------------------------------------------------
(* The slot of a group *)

(* A set of numbers with a bound has a greatest member, which Max is. *)
LEMMA MaxOf ==
  ASSUME NEW n \in Nat, NEW S \in SUBSET (1 .. n), S # {}
  PROVE  Max(S) \in S
<1> DEFINE T == {n - x : x \in S}
<1> DEFINE Less == {ss \in Nat \X Nat : ss[1] < ss[2]}
<1>1. IsWellFoundedOn(Less, Nat)
  BY NatLessThanWellFounded DEF OpToRel
<1>2. T \subseteq Nat
  OBVIOUS
<1>3. T # {}
  <2> PICK x \in S : TRUE
    OBVIOUS
  <2> n - x \in T
    OBVIOUS
  <2> QED OBVIOUS
<1>4. PICK t \in T : \A y \in T : ~(<<y, t>> \in Less)
  <2> HIDE DEF T, Less
  <2> QED BY <1>1, <1>2, <1>3, WFMin
<1>5. PICK x \in S : t = n - x
  OBVIOUS
<1>6. \A y \in S : x >= y
  <2> TAKE y \in S
  <2>1. n - y \in T /\ n - y \in Nat /\ t \in Nat
    OBVIOUS
  <2>2. ~(n - y < t)
    BY <1>4, <2>1
  <2> QED BY <2>2, <1>5
<1> QED BY <1>6 DEF Max

(* Expiry and reinstatement touch one group.  A row they change was active *)
(* or refunded and is now expired, or was given back and is now active.    *)
Refreshed(p, g, seen, before, after) ==
  /\ after.group = before.group /\ after.owner = before.owner
  /\ \/ after = before
     \/ before.group = g /\ after.status = "expired"
     \/ /\ before.group = g /\ after.status = "active"
        /\ GivenBack(p, seen)

LEMMA FreshRows ==
  ASSUME TripAssumption, NEW g, NEW seen, NEW table \in [Pass -> Row]
  PROVE  /\ Fresh(table, g, seen) \in [Pass -> Row]
         /\ \A p \in Pass :
              Refreshed(p, g, seen, table[p], Fresh(table, g, seen)[p])
<1> DEFINE over == Expired(table, g, seen)
<1>1. /\ over \in [Pass -> Row]
      /\ \A p \in Pass :
           \/ over[p] = table[p]
           \/ /\ table[p].group = g
              /\ over[p] = [table[p] EXCEPT !.status = "expired"]
  BY DEF Expired, Row, Status
<1> DEFINE candidates == {p \in Pass : /\ over[p].group = g /\ p > lapsed
                                       /\ over[p].status = "refunded"
                                       /\ GivenBack(p, seen)}
<1>2. CASE ActiveIn(over, g) = {} /\ promo[g] # "active" /\ candidates # {}
  <2>1. Max(candidates) \in candidates
    BY <1>2, MaxOf DEF TripAssumption, Pass
  <2>2. Fresh(table, g, seen) = [over EXCEPT ![Max(candidates)].status = "active"]
    BY <1>2 DEF Fresh, Reinstated
  <2> DEFINE m == Max(candidates)
  <2>3. m \in Pass /\ over[m].group = g /\ GivenBack(m, seen)
    BY <2>1
  <2> HIDE DEF over, candidates, m
  <2>4. Fresh(table, g, seen) \in [Pass -> Row]
    BY <1>1, <2>2, <2>3 DEF Row, Status, m
  <2>5. ASSUME NEW p \in Pass
        PROVE  Refreshed(p, g, seen, table[p], Fresh(table, g, seen)[p])
    <3>1. Fresh(table, g, seen)[p] =
            IF p = m THEN [over[p] EXCEPT !.status = "active"] ELSE over[p]
      BY <1>1, <2>2, <2>3 DEF m
    <3> QED BY <3>1, <1>1, <2>3 DEF Refreshed, Row
  <2> QED BY <2>4, <2>5
<1>3. CASE ~(ActiveIn(over, g) = {} /\ promo[g] # "active" /\ candidates # {})
  <2>1. Fresh(table, g, seen) = over
    BY <1>3 DEF Fresh, Reinstated
  <2> HIDE DEF over
  <2> QED BY <1>1, <2>1 DEF Refreshed, Row
<1> QED BY <1>2, <1>3

(* Afterwards a pass that was given back waits only for a taken slot. *)
LEMMA FreshKeeps ==
  ASSUME TripAssumption, NEW g, NEW seen, NEW table \in [Pass -> Row],
         NEW p \in Pass,
         Fresh(table, g, seen)[p].group = g,
         Fresh(table, g, seen)[p].status = "refunded",
         GivenBack(p, seen), p > lapsed
  PROVE  ActiveIn(Fresh(table, g, seen), g) # {} \/ promo[g] = "active"
<1> DEFINE over == Expired(table, g, seen)
<1>1. over \in [Pass -> Row]
  BY DEF Expired, Row, Status
<1> DEFINE candidates == {q \in Pass : /\ over[q].group = g /\ q > lapsed
                                       /\ over[q].status = "refunded"
                                       /\ GivenBack(q, seen)}
<1>2. CASE ActiveIn(over, g) = {} /\ promo[g] # "active" /\ candidates # {}
  <2> DEFINE m == Max(candidates)
  <2>1. m \in candidates
    BY <1>2, MaxOf DEF TripAssumption, Pass
  <2>2. Fresh(table, g, seen) = [over EXCEPT ![m].status = "active"]
    BY <1>2 DEF Fresh, Reinstated
  <2>3. m \in Pass /\ over[m].group = g
    BY <2>1
  <2> HIDE DEF over, candidates, m
  <2>4. m \in ActiveIn(Fresh(table, g, seen), g)
    BY <1>1, <2>2, <2>3 DEF ActiveIn, Row
  <2> QED BY <2>4
<1>3. CASE ~(ActiveIn(over, g) = {} /\ promo[g] # "active" /\ candidates # {})
  <2>1. Fresh(table, g, seen) = over
    BY <1>3 DEF Fresh, Reinstated
  <2>2. p \in candidates
    BY <2>1
  <2> QED BY <1>3, <2>1, <2>2
<1> QED BY <1>2, <1>3

(* What the server does to the rows of a well-formed state. *)
Grows(table) ==
  /\ table \in [Pass -> Row]
  /\ \A q \in Pass : Owned(q, table[q]) /\ (rows[q] # NoRow => table[q] # NoRow)

LEMMA FreshGrows ==
  ASSUME TripAssumption, NEW g \in Groups, NEW seen, NEW table, Grows(table)
  PROVE  Grows(Fresh(table, g, seen))
<1> DEFINE fresh == Fresh(table, g, seen)
<1>1. /\ fresh \in [Pass -> Row]
      /\ \A q \in Pass : Refreshed(q, g, seen, table[q], fresh[q])
  BY FreshRows DEF Grows
<1> HIDE DEF fresh
<1>2. ASSUME NEW q \in Pass
      PROVE  Owned(q, fresh[q]) /\ (rows[q] # NoRow => fresh[q] # NoRow)
  <2>1. CASE fresh[q] = table[q]
    BY <2>1 DEF Grows
  <2>2. CASE fresh[q] # table[q]
    <3>1. /\ fresh[q].group = table[q].group /\ fresh[q].owner = table[q].owner
          /\ table[q].group = g /\ fresh[q].status \in {"active", "expired"}
      BY <1>1, <2>2 DEF Refreshed
    <3>2. table[q] # NoRow
      BY <3>1 DEF NoRow, TripAssumption
    <3> QED
      BY <3>1, <3>2 DEF Owned, Grows, NoRow
  <2> QED BY <2>1, <2>2
<1> QED BY <1>1, <1>2 DEF Grows, fresh

(* A grant adds at most one row, of a pass that nobody took back. *)
Added(p, g, a) == [group |-> g, owner |-> a, status |-> "active"]

LEMMA GrantedRows ==
  ASSUME TripAssumption, Shape, RowsOK, NEW p \in Pass, NEW g \in Groups,
         NEW a \in Accounts, sold[p] = a
  PROVE  LET fresh == Fresh(rows, g, accepted)
         IN /\ Grows(Granted(p, g, a))
            /\ Verdict(p, g, a) => Granted(p, g, a)[p] # NoRow
            /\ \/ Granted(p, g, a) = fresh
               \/ /\ fresh[p] = NoRow /\ Revocation(p, accepted) = "none"
                  /\ Granted(p, g, a) = [fresh EXCEPT ![p] = Added(p, g, a)]
<1> DEFINE fresh == Fresh(rows, g, accepted)
<1>1. Grows(rows)
  BY DEF Grows, Shape, RowsOK
<1>2. Grows(fresh)
  BY <1>1, FreshGrows
<1>3. CASE Verdict(p, g, a) /\ fresh[p] = NoRow
  <2>1. Granted(p, g, a) = [fresh EXCEPT ![p] = Added(p, g, a)]
    BY <1>3 DEF Granted, Added
  <2>2. Revocation(p, accepted) = "none"
    BY <1>3 DEF Verdict
  <2>3. Added(p, g, a) \in Row /\ Added(p, g, a) # NoRow
    BY DEF Added, Row, Status, NoRow, TripAssumption
  <2>4. Owned(p, Added(p, g, a))
    BY DEF Owned, Added
  <2> HIDE DEF fresh
  <2>5. Grows(Granted(p, g, a)) /\ Granted(p, g, a)[p] # NoRow
    BY <1>2, <2>1, <2>3, <2>4 DEF Grows
  <2> QED BY <1>3, <2>1, <2>2, <2>5 DEF fresh
<1>4. CASE ~(Verdict(p, g, a) /\ fresh[p] = NoRow)
  <2>1. Granted(p, g, a) = fresh
    BY <1>4 DEF Granted
  <2> QED BY <1>2, <1>4, <2>1
<1> QED BY <1>3, <1>4

LEMMA FreshPromoType ==
  ASSUME Shape, NEW g
  PROVE  FreshPromo(g) \in [Groups -> {"none", "active", "lapsed", "expired"}]
BY DEF FreshPromo, Shape

(* One execution of a request, in time or late. *)
LEMMA Serves ==
  ASSUME TripAssumption, Shape, RowsOK, NEW p \in Pass, NEW request,
         request.group \in Groups, request.who \in Accounts, Serve(p, request)
  PROVE  /\ Grows(rows')
         /\ promo' \in [Groups -> {"none", "active", "lapsed", "expired"}]
         /\ Answer(p, request) => rows'[p] # NoRow
<1>1. CASE TokenIsOf(p, request.who) /\ request.good
  BY <1>1, GrantedRows, FreshPromoType DEF Serve, Answer, TokenIsOf
<1>2. CASE ~(TokenIsOf(p, request.who) /\ request.good)
  BY <1>2 DEF Serve, Answer, Grows, Shape, RowsOK
<1> QED BY <1>1, <1>2

-----------------------------------------------------------------------------
(* The invariant is inductive. *)

LEMMA InitTrip == ASSUME TripAssumption, Init PROVE TripInv
<1> USE DEF TripAssumption
<1>1. Shape
  <2>1. NoJob \in Job /\ NoRow \in Row
    BY DEF NoJob, NoRow, Job, Row, Status
  <2>2. <<>> \in Seq(Kind)
    OBVIOUS
  <2> QED BY <2>1, <2>2 DEF Init, Shape, Pass
<1>2. Numbered
  <2>1. Sold = {}
    BY DEF Init, Sold
  <2>2. 1..0 = {} /\ 0 \in 0..Passes
    OBVIOUS
  <2> QED BY <2>1, <2>2 DEF Numbered
<1>3. Signed /\ SignedFirst
  BY DEF Init, Signed, SignedFirst
<1>4. JobsOK
  BY DEF Init, JobsOK, Settling, NoJob
<1>5. RowsOK /\ Durable
  BY DEF Init, RowsOK, Owned, Durable, NoJob
<1> QED BY <1>1, <1>2, <1>3, <1>4, <1>5 DEF TripInv

(* A step of the server that only lets rows grow. *)
LEMMA ServerSide ==
  ASSUME TripAssumption, TripInv, Grows(rows'),
         promo' \in [Groups -> {"none", "active", "lapsed", "expired"}],
         accepted' \subseteq Pass \X Nat, SignedFirst',
         UNCHANGED <<requestVars, storeVars, worldVars>>
  PROVE  TripInv'
<1> USE DEF requestVars, storeVars, worldVars
<1>1. Shape'
  BY DEF TripInv, Shape, Grows
<1>2. Numbered' /\ Signed'
  BY DEF TripInv, Numbered, Sold, Signed
<1>3. JobsOK'
  BY DEF TripInv, JobsOK, Sold, Settling
<1>4. RowsOK'
  BY DEF RowsOK, Grows, Owned
<1>5. Durable'
  BY DEF TripInv, Durable, Grows, Shape
<1> QED BY <1>1, <1>2, <1>3, <1>4, <1>5 DEF TripInv

(* A step of the device, with what it settles. *)
LEMMA DeviceSide ==
  ASSUME TripAssumption, TripInv, jobs' \in [Pass -> Job],
         late' \subseteq Pass \X Job, JobsOK', Durable',
         UNCHANGED <<storeVars, serverVars, worldVars>>
  PROVE  TripInv'
<1> USE DEF storeVars, serverVars, worldVars
<1>1. Shape'
  BY DEF TripInv, Shape
<1>2. Numbered' /\ Signed' /\ SignedFirst'
  BY DEF TripInv, Numbered, Sold, Signed, SignedFirst
<1>3. RowsOK'
  BY DEF TripInv, RowsOK, Owned
<1> QED BY <1>1, <1>2, <1>3 DEF TripInv

LEMMA NextServer == ASSUME TripAssumption, TripInv, Server PROVE TripInv'
<1>1. Grows(rows)
  BY DEF TripInv, Grows, Shape, RowsOK
<1>2. accepted \subseteq Pass \X Nat /\ SignedFirst
  BY DEF TripInv, Shape
<1>3. ASSUME NEW p \in Pass, NEW i \in DOMAIN notes[p], Accept(p, i)
      PROVE  TripInv'
  <2>1. i \in Nat
    BY <1>3 DEF TripInv, Shape
  <2>2. accepted' \subseteq Pass \X Nat /\ SignedFirst'
    BY <1>2, <1>3, <2>1 DEF Accept, SignedFirst, storeVars
  <2>3. CASE rows[p] = NoRow
    BY <1>1, <1>3, <2>2, <2>3, ServerSide DEF Accept, TripInv, Shape
  <2>4. CASE rows[p] # NoRow
    <3> DEFINE table == Withdrawn(rows, p, accepted')
    <3>1. rows[p].group \in Groups
      BY <2>4 DEF TripInv, RowsOK, Owned
    <3>2. Revocation(p, accepted') \in {"none", "revoked", "refunded"}
      BY DEF Revocation
    <3>3. table = rows \/ table = [rows EXCEPT ![p].status = Revocation(p, accepted')]
      BY DEF Withdrawn
    <3>4. Revocation(p, accepted') # "none" \/ table = rows
      BY DEF Withdrawn
    <3> HIDE DEF table
    <3>5. Grows(table)
      <4>1. CASE table = rows
        BY <1>1, <4>1
      <4>2. CASE table # rows
        BY <1>1, <2>4, <3>2, <3>3, <3>4, <4>2
        DEF Grows, Row, Status, Owned, NoRow, TripAssumption
      <4> QED BY <4>1, <4>2
    <3>6. Grows(rows')
      BY <1>3, <2>4, <3>1, <3>5, FreshGrows DEF Accept, table
    <3>7. promo' \in [Groups -> {"none", "active", "lapsed", "expired"}]
      BY <1>3, <2>4, FreshPromoType DEF Accept, TripInv
    <3> QED BY <1>3, <2>2, <3>6, <3>7, ServerSide DEF Accept
  <2> QED BY <2>3, <2>4
<1>4. ASSUME NEW p \in Pass, NEW reason \in Reason, Revoke(p, reason)
      PROVE  TripInv'
  <2> DEFINE table == [rows EXCEPT ![p].status = reason]
  <2>1. rows[p].group \in Groups /\ rows[p] # NoRow
    BY <1>4 DEF Revoke, TripInv, RowsOK, Owned, NoRow
  <2>2. Grows(table)
    BY <1>1, <2>1 DEF Grows, Row, Status, Reason, Owned, NoRow, TripAssumption
  <2> HIDE DEF table
  <2>3. Grows(rows')
    BY <1>4, <2>1, <2>2, FreshGrows DEF Revoke, table
  <2>4. promo' \in [Groups -> {"none", "active", "lapsed", "expired"}]
    BY <1>4, FreshPromoType DEF Revoke, TripInv
  <2> QED BY <1>2, <1>4, <2>3, <2>4, ServerSide
          DEF Revoke, SignedFirst, storeVars
<1>5. ASSUME NEW g \in Groups, Redeem(g)
      PROVE  TripInv'
  <2>1. Grows(rows')
    BY <1>1, <1>5, FreshGrows DEF Redeem
  <2>2. promo' \in [Groups -> {"none", "active", "lapsed", "expired"}]
    BY <1>5 DEF Redeem, TripInv, Shape
  <2> QED BY <1>2, <1>5, <2>1, <2>2, ServerSide
          DEF Redeem, SignedFirst, storeVars
<1>6. ASSUME NEW g \in Groups, Read(g)
      PROVE  TripInv'
  <2>1. Grows(rows')
    BY <1>1, <1>6, FreshGrows DEF Read
  <2>2. promo' \in [Groups -> {"none", "active", "lapsed", "expired"}]
    BY <1>6, FreshPromoType DEF Read, TripInv
  <2> QED BY <1>2, <1>6, <2>1, <2>2, ServerSide
          DEF Read, SignedFirst, storeVars
<1> QED BY <1>3, <1>4, <1>5, <1>6 DEF Server, Notify

(* Below the bound on notifications no transaction has reached it. *)
LEMMA RoomToSign ==
  ASSUME TripAssumption, TripInv, NEW p \in Pass,
         Cardinality({q \in Note : q[2] \in DOMAIN notes[q[1]]}) < MaxNotes
  PROVE  Len(notes[p]) < MaxNotes
<1> DEFINE all == {q \in Note : q[2] \in DOMAIN notes[q[1]]}
<1> DEFINE mine == {p} \X (1..MaxNotes)
<1>1. IsFiniteSet(Pass) /\ IsFiniteSet(1..MaxNotes)
      /\ Cardinality(1..MaxNotes) = MaxNotes
  BY FS_Interval DEF Pass, TripAssumption
<1>2. IsFiniteSet(Note)
  BY <1>1, FS_Product DEF Note
<1>3. IsFiniteSet(all) /\ Cardinality(all) \in Nat
  BY <1>2, FS_Subset, FS_CardinalityType
<1>4. Cardinality(mine) = MaxNotes
  <2>1. IsFiniteSet({p}) /\ Cardinality({p}) = 1
    BY FS_Singleton
  <2>2. Cardinality(mine) = 1 * MaxNotes
    BY <1>1, <2>1, FS_Product, Zenon
  <2> QED BY <2>2 DEF TripAssumption
<1>5. ASSUME Len(notes[p]) = MaxNotes
      PROVE  FALSE
  <2>1. notes[p] \in Seq(Kind)
    BY DEF TripInv, Shape
  <2>2. DOMAIN notes[p] = 1..MaxNotes
    BY <1>5, <2>1
  <2>3. mine \subseteq all
    BY <2>2 DEF Note
  <2>4. Cardinality(mine) <= Cardinality(all)
    <3> HIDE DEF mine, all
    <3> QED BY <1>3, <2>3, FS_Subset
  <2> QED BY <1>3, <1>4, <2>4 DEF TripAssumption
<1>6. Len(notes[p]) \in Nat /\ Len(notes[p]) <= MaxNotes
  BY DEF TripInv, Shape, Signed
<1> QED BY <1>5, <1>6 DEF TripAssumption

LEMMA NextStore == ASSUME TripAssumption, TripInv, Store PROVE TripInv'
<1>1. CASE Lapse
  <2> USE <1>1 DEF Lapse, requestVars, worldVars
  <2>1. lapsed' \in 0..Passes /\ lapsed' \in Nat
    <3>1. PICK k \in 0..Passes : Sold = 1..k
      BY DEF TripInv, Numbered
    <3>2. Cardinality(Sold) = k
      BY <3>1, FS_Interval DEF TripAssumption
    <3> QED BY <3>1, <3>2 DEF TripInv, Shape, TripAssumption
  <2>2. Shape'
    BY <2>1 DEF TripInv, Shape
  <2>3. Numbered' /\ Signed' /\ SignedFirst'
    BY DEF TripInv, Numbered, Sold, Signed, SignedFirst
  <2>4. JobsOK' /\ RowsOK' /\ Durable'
    BY DEF TripInv, JobsOK, Settling, Sold, RowsOK, Owned, Durable
  <2> QED BY <2>2, <2>3, <2>4 DEF TripInv
<1>2. ASSUME NEW p \in Pass, NEW kind \in Kind, Sign(p, kind)
      PROVE  TripInv'
  <2> USE <1>2 DEF Sign, requestVars, serverVars, worldVars
  <2>1. notes[p] \in Seq(Kind) /\ Len(notes[p]) < MaxNotes
    BY RoomToSign DEF TripInv, Shape
  <2>2. notes' = [notes EXCEPT ![p] = Append(notes[p], kind)]
    OBVIOUS
  <2>3. /\ Append(notes[p], kind) \in Seq(Kind)
        /\ Len(Append(notes[p], kind)) = Len(notes[p]) + 1
    BY <2>1, AppendProperties
  <2>4. Shape'
    BY <2>2, <2>3 DEF TripInv, Shape
  <2>5. Numbered'
    BY DEF TripInv, Numbered, Sold
  <2>6. Signed'
    BY <2>1, <2>2, <2>3 DEF TripInv, Signed, Shape, TripAssumption
  <2>7. SignedFirst'
    <3>1. DOMAIN notes[p] \subseteq DOMAIN Append(notes[p], kind)
      BY <2>1, <2>3
    <3> QED BY <2>2, <3>1 DEF TripInv, SignedFirst, Shape
  <2>8. JobsOK' /\ RowsOK' /\ Durable'
    BY DEF TripInv, JobsOK, Settling, Sold, RowsOK, Owned, Durable
  <2> QED BY <2>4, <2>5, <2>6, <2>7, <2>8 DEF TripInv
<1> QED BY <1>1, <1>2 DEF Store, Kind

(* What a settlement looks like once it is answered. *)
LEMMA AnswerJob ==
  ASSUME NEW good \in BOOLEAN
  PROVE  LET job == [NoJob EXCEPT !.phase = "answer", !.good = good]
         IN job \in Job /\ Settling(job) /\ job.good = good
BY DEF NoJob, Job, Settling

LEMMA NextDevice ==
  ASSUME TripAssumption, TripInv, NEW p \in Pass, Work(p) \/ Lose(p)
  PROVE  TripInv'
<1> USE DEF Settling, Sold
<1>1. CASE Recover(p)
  <2>1. jobs' \in [Pass -> Job] /\ late' \subseteq Pass \X Job
    BY <1>1 DEF Recover, Settle, TripInv, Shape, Job
  <2>2. JobsOK'
    BY <1>1 DEF Recover, Settle, TripInv, Shape, JobsOK, storeVars
  <2>3. Durable'
    BY <1>1 DEF Recover, Settle, TripInv, Shape, Durable, storeVars, serverVars
  <2> QED BY <1>1, <2>1, <2>2, <2>3, DeviceSide DEF Recover
<1>2. CASE Send(p)
  <2>1. jobs[p] \in Job /\ p \in Sold /\ jobs[p].group \in Groups
    BY <1>2 DEF Send, TripInv, Shape, JobsOK, NoJob
  <2>2. jobs'[p] = NoJob \/ /\ user \in Accounts
                            /\ jobs'[p] = [jobs[p] EXCEPT !.phase = "sent",
                                                          !.who = user]
    BY <1>2 DEF Send, TripInv, Shape
  <2>3. jobs' = [jobs EXCEPT ![p] = jobs'[p]]
    BY <1>2 DEF Send, TripInv, Shape
  <2>4. jobs'[p] \in Job /\ Settling(jobs'[p]) /\ jobs'[p].phase # "answer"
    <3>1. CASE jobs'[p] = NoJob
      <4>1. NoJob \in Job /\ NoJob.phase = "none"
        BY DEF Job, NoJob
      <4> QED BY <3>1, <4>1
    <3>2. CASE jobs'[p] # NoJob
      BY <2>1, <2>2, <3>2 DEF Job
    <3> QED BY <3>1, <3>2
  <2>5. jobs' \in [Pass -> Job] /\ late' \subseteq Pass \X Job
    BY <1>2, <2>3, <2>4 DEF Send, TripInv, Shape
  <2>6. JobsOK'
    BY <1>2, <2>1, <2>3, <2>4 DEF Send, TripInv, Shape, JobsOK, storeVars
  <2>7. Durable'
    BY <1>2, <2>3, <2>4 DEF Send, TripInv, Shape, Durable, storeVars, serverVars
  <2> QED BY <1>2, <2>5, <2>6, <2>7, DeviceSide DEF Send
<1>3. CASE Execute(p)
  <2>1. /\ Serve(p, jobs[p]) /\ jobs[p].group \in Groups
        /\ jobs[p].who \in Accounts /\ p \in Sold
    BY <1>3 DEF Execute, TripInv, JobsOK, NoJob
  <2>2. /\ Grows(rows')
        /\ promo' \in [Groups -> {"none", "active", "lapsed", "expired"}]
        /\ Answer(p, jobs[p]) => rows'[p] # NoRow
    BY <2>1, Serves DEF TripInv
  <2>3. Answer(p, jobs[p]) \in BOOLEAN
    BY DEF Answer, TokenIsOf, Verdict
  <2> DEFINE answer == [NoJob EXCEPT !.phase = "answer",
                                     !.good = Answer(p, jobs[p])]
  <2>4. jobs' = [jobs EXCEPT ![p] = answer]
    BY <1>3 DEF Execute
  <2>6. answer \in Job /\ Settling(answer) /\ answer.good = Answer(p, jobs[p])
    BY <2>3, AnswerJob
  <2> HIDE DEF answer
  <2> USE <1>3 DEF Execute, storeVars, worldVars
  <2>7. Shape'
    BY <2>2, <2>4, <2>6 DEF TripInv, Shape, Grows
  <2>8. Numbered' /\ Signed' /\ SignedFirst'
    BY DEF TripInv, Numbered, Signed, SignedFirst
  <2>9. JobsOK'
    BY <2>1, <2>4, <2>6 DEF TripInv, Shape, JobsOK
  <2>10. RowsOK'
    BY <2>2 DEF RowsOK, Grows, Owned
  <2>11. Durable'
    BY <2>2, <2>4, <2>6 DEF TripInv, Shape, Durable, Grows
  <2> QED BY <2>7, <2>8, <2>9, <2>10, <2>11 DEF TripInv
<1>4. CASE Finish(p)
  <2> USE <1>4 DEF Finish, serverVars, worldVars
  <2>1. NoJob \in Job
    BY DEF NoJob, Job
  <2>2. Shape'
    BY <2>1 DEF TripInv, Shape
  <2>3. Numbered' /\ Signed' /\ SignedFirst'
    BY DEF TripInv, Numbered, Signed, SignedFirst
  <2>4. JobsOK'
    BY DEF TripInv, Shape, JobsOK, NoJob
  <2>5. RowsOK'
    BY DEF TripInv, RowsOK, Owned
  <2>6. Durable'
    BY DEF TripInv, Shape, Durable, NoJob
  <2> QED BY <2>2, <2>3, <2>4, <2>5, <2>6 DEF TripInv
<1>5. CASE Lose(p)
  <2>1. jobs' = [jobs EXCEPT ![p] = NoJob] /\ NoJob \in Job
    BY <1>5 DEF Lose, NoJob, Job
  <2>2. \A r \in late' : \/ r \in late
                         \/ r = <<p, jobs[p]>> /\ jobs[p].phase = "sent"
    BY <1>5 DEF Lose, Abandoned
  <2>3. jobs' \in [Pass -> Job] /\ late' \subseteq Pass \X Job
    BY <2>1, <2>2 DEF TripInv, Shape
  <2>4. JobsOK'
    <3>1. \A q \in Pass : (Settling(jobs[q]) /\ (jobs[q] # NoJob => q \in Sold))'
      <4>1. Settling(NoJob)
        BY DEF NoJob
      <4>2. Sold' = Sold
        BY <1>5 DEF Lose, storeVars
      <4> QED BY <2>1, <4>1, <4>2 DEF TripInv, Shape, JobsOK
    <3>2. ASSUME NEW r \in late'
          PROVE  r[2].group \in Groups /\ r[2].who \in Accounts
      BY <2>2 DEF TripInv, JobsOK
    <3> QED BY <3>1, <3>2 DEF JobsOK
  <2>5. Durable'
    BY <1>5, <2>1 DEF Lose, TripInv, Shape, Durable, storeVars, serverVars,
      NoJob
  <2> QED BY <1>5, <2>3, <2>4, <2>5, DeviceSide DEF Lose
<1> QED BY <1>1, <1>2, <1>3, <1>4, <1>5 DEF Work

(* The store sells the pass after those it sold. *)
LEMMA NextBuy == ASSUME TripAssumption, TripInv, Buy PROVE TripInv'
<1> USE DEF Buy, Settle, serverVars, worldVars
<1>1. PICK k \in 0..Passes : Sold = 1..k
  BY DEF TripInv, Numbered
<1> DEFINE p == k + 1
<1>2. Cardinality(Sold) = k
  BY <1>1, FS_Interval DEF TripAssumption
<1>3. p \in Pass /\ user \in Accounts /\ place \in Groups /\ jobs[p] = NoJob
  BY <1>2 DEF Pass, TripInv, Shape, TripAssumption
<1>4. /\ sold' = [sold EXCEPT ![p] = user]
      /\ jobs' = [jobs EXCEPT ![p] = [phase |-> "ask", group |-> place,
                                      who |-> NoOne, good |-> TRUE]]
  BY <1>2
<1>5. Sold' = Sold \cup {p} /\ p \notin Sold
  <2>1. p \notin Sold
    BY <1>1, <1>3 DEF TripAssumption
  <2> HIDE DEF p
  <2> QED BY <1>3, <1>4, <2>1 DEF Sold, TripInv, Shape, TripAssumption
<1>6. sold[p] = NoOne
  BY <1>3, <1>5 DEF Sold
<1>7. rows[p] = NoRow
  BY <1>3, <1>6 DEF TripInv, RowsOK, Owned, TripAssumption
<1>8. Numbered'
  <2>1. Sold' = 1..p /\ p \in 0..Passes
    BY <1>1, <1>3, <1>5 DEF Pass, TripAssumption
  <2> QED BY <2>1 DEF Numbered
<1> HIDE DEF p
<1>9. Shape'
  <2>1. [phase |-> "ask", group |-> place, who |-> NoOne, good |-> TRUE] \in Job
    BY <1>3 DEF Job
  <2>2. jobs' \in [Pass -> Job]
    BY <1>4, <2>1 DEF TripInv, Shape
  <2>3. sold' \in [Pass -> Accounts \cup {NoOne}]
    BY <1>3, <1>4 DEF TripInv, Shape
  <2> QED BY <2>2, <2>3 DEF TripInv, Shape
<1>10. Signed' /\ SignedFirst'
  BY DEF TripInv, Signed, SignedFirst
<1>11. JobsOK'
  BY <1>3, <1>4, <1>5 DEF TripInv, Shape, JobsOK, Settling
<1>12. RowsOK'
  BY <1>3, <1>4, <1>7 DEF TripInv, Shape, RowsOK, Owned
<1>13. Durable'
  BY <1>3, <1>4 DEF TripInv, Shape, Durable
<1> QED BY <1>8, <1>9, <1>10, <1>11, <1>12, <1>13 DEF TripInv

(* Late requests, kills, and what people do. *)
LEMMA NextWorld ==
  ASSUME TripAssumption, TripInv, ExecuteLate \/ Kill \/ Move
  PROVE  TripInv'
<1>1. CASE ExecuteLate
  <2>1. PICK request \in late :
          /\ late' = late \ {request} /\ Serve(request[1], request[2])
          /\ UNCHANGED <<jobs, storeVars, accepted, worldVars, troubles>>
    BY <1>1 DEF ExecuteLate
  <2>2. /\ request[1] \in Pass /\ request[2].group \in Groups
        /\ request[2].who \in Accounts
    BY DEF TripInv, Shape, JobsOK
  <2>3. /\ Grows(rows')
        /\ promo' \in [Groups -> {"none", "active", "lapsed", "expired"}]
    BY <2>1, <2>2, Serves DEF TripInv
  <2> USE <2>1 DEF storeVars, worldVars
  <2>4. Shape'
    BY <2>3 DEF TripInv, Shape, Grows
  <2>5. Numbered' /\ Signed' /\ SignedFirst'
    BY DEF TripInv, Numbered, Sold, Signed, SignedFirst
  <2>6. JobsOK'
    BY DEF TripInv, JobsOK, Settling, Sold
  <2>7. RowsOK' /\ Durable'
    BY <2>3 DEF TripInv, Shape, RowsOK, Grows, Owned, Durable
  <2> QED BY <2>4, <2>5, <2>6, <2>7 DEF TripInv
<1>2. CASE Kill
  <2>1. NoJob \in Job /\ Settling(NoJob) /\ NoJob.phase = "none"
    BY DEF NoJob, Job, Settling
  <2>2. jobs' = [p \in Pass |-> NoJob]
    BY <1>2 DEF Kill
  <2>3. \A r \in late' : \/ r \in late
                         \/ \E p \in Pass : /\ r = <<p, jobs[p]>>
                                            /\ jobs[p].phase = "sent"
    BY <1>2 DEF Kill, Abandoned
  <2>4. jobs' \in [Pass -> Job] /\ late' \subseteq Pass \X Job
    BY <2>1, <2>2, <2>3 DEF TripInv, Shape
  <2>5. JobsOK'
    <3>1. \A p \in Pass : (Settling(jobs[p]) /\ (jobs[p] # NoJob => p \in Sold))'
      BY <2>1, <2>2 DEF Settling
    <3>2. ASSUME NEW r \in late'
          PROVE  r[2].group \in Groups /\ r[2].who \in Accounts
      BY <2>3 DEF TripInv, JobsOK, Settling
    <3> QED BY <3>1, <3>2 DEF JobsOK
  <2>6. Durable'
    BY <1>2, <2>1, <2>2 DEF Kill, TripInv, Durable, storeVars, serverVars
  <2> QED BY <1>2, <2>4, <2>5, <2>6, DeviceSide DEF Kill
<1>3. CASE Move
  <2> USE <1>3 DEF Move, requestVars, storeVars, serverVars
  <2>1. Shape'
    BY DEF TripInv, Shape
  <2>2. Numbered' /\ Signed' /\ SignedFirst'
    BY DEF TripInv, Numbered, Sold, Signed, SignedFirst
  <2>3. JobsOK' /\ RowsOK' /\ Durable'
    BY DEF TripInv, JobsOK, Settling, Sold, RowsOK, Owned, Durable
  <2> QED BY <2>1, <2>2, <2>3 DEF TripInv
<1> QED BY <1>1, <1>2, <1>3

LEMMA NextTrip ==
  ASSUME TripAssumption, TripInv, [Next]_vars
  PROVE  TripInv'
<1>1. CASE Next
  BY <1>1, NextServer, NextStore, NextBuy, NextDevice, NextWorld DEF Next
<1>2. CASE UNCHANGED vars
  <2> USE <1>2 DEF vars, requestVars, storeVars, serverVars, worldVars
  <2>1. Shape' /\ Numbered' /\ Signed' /\ SignedFirst'
    BY DEF TripInv, Shape, Numbered, Sold, Signed, SignedFirst
  <2>2. JobsOK' /\ RowsOK' /\ Durable'
    BY DEF TripInv, JobsOK, Settling, Sold, RowsOK, Owned, Durable
  <2> QED BY <2>1, <2>2 DEF TripInv
<1> QED BY <1>1, <1>2

THEOREM TripCorrect == ASSUME TripAssumption PROVE Spec => []TripInv
<1>1. Init => TripInv
  BY InitTrip
<1>2. TripInv /\ [Next]_vars => TripInv'
  BY NextTrip
<1> QED BY <1>1, <1>2, PTL DEF Spec

-----------------------------------------------------------------------------
(* The kinds of step, for what the rows and the slots of groups keep *)

(* Nothing new is known of a pass that has a row, and no slot is freed. *)
Known(p) == \A kind \in Kind : Seen(p, kind, accepted)' = Seen(p, kind, accepted)
Quiet ==
  /\ rows' = rows /\ lapsed' >= lapsed
  /\ \A p \in Pass : rows[p] # NoRow => Known(p)
  /\ \A g \in Groups : promo[g] \in {"active", "lapsed"} =>
                         promo'[g] \in {"active", "lapsed"}

(* The server takes back, or not, a pass of one group, and refreshes it. *)
Lessened(table, g) ==
  /\ table \in [Pass -> Row]
  /\ \A p \in Pass :
       /\ table[p].group = rows[p].group
       /\ table[p] = rows[p] \/ (table[p].group = g /\ table[p].status # "active")
       /\ (table[p] = rows[p] /\ rows[p].status = "active") =>
            Known(p) \/ Revocation(p, accepted') = "none"
Refresh(g) ==
  /\ UNCHANGED <<notes, lapsed>>
  /\ \E table : Lessened(table, g) /\ rows' = Fresh(table, g, accepted')
  /\ \A p \in Pass : (rows[p] # NoRow /\ rows[p].group # g) => Known(p)
  /\ promo' \in {FreshPromo(g), [promo EXCEPT ![g] = "active"]}

(* It refreshes a group and gives its slot to a pass. *)
Grant(p, g, a) ==
  /\ UNCHANGED <<notes, lapsed, accepted>>
  /\ Fresh(rows, g, accepted)[p] = NoRow
  /\ Revocation(p, accepted) = "none"
  /\ rows' = [Fresh(rows, g, accepted) EXCEPT ![p] = Added(p, g, a)]
  /\ promo' = FreshPromo(g)

Kinds ==
  \/ Quiet \/ \E g \in Groups : Refresh(g)
  \/ \E p \in Pass, g \in Groups, a \in Accounts : Grant(p, g, a)

LEMMA StoreKinds == ASSUME TripAssumption, TripInv, Store PROVE Kinds
<1>1. CASE Lapse
  <2>1. \A p \in Pass : Known(p)
    BY <1>1 DEF Lapse, Known, Seen
  <2>2. lapsed' >= lapsed
    BY <1>1 DEF Lapse, TripInv, Shape, TripAssumption
  <2>3. \A g \in Groups : promo[g] \in {"active", "lapsed"} =>
                            promo'[g] \in {"active", "lapsed"}
    BY <1>1 DEF Lapse, TripInv, Shape
  <2> QED BY <1>1, <2>1, <2>2, <2>3 DEF Lapse, Quiet, Kinds
<1>2. ASSUME NEW p \in Pass, NEW kind \in Kind, Sign(p, kind)
      PROVE  Kinds
  <2>1. /\ notes' = [notes EXCEPT ![p] = Append(notes[p], kind)]
        /\ UNCHANGED <<rows, lapsed, promo, accepted>>
    BY <1>2 DEF Sign, serverVars
  <2>2. ASSUME NEW q \in Pass
        PROVE  Known(q)
    <3>1. CASE q # p
      BY <2>1, <3>1 DEF Known, Seen, TripInv, Shape
    <3>2. CASE q = p
      <4>1. notes[p] \in Seq(Kind) /\ notes'[p] = Append(notes[p], kind)
        BY <2>1 DEF TripInv, Shape
      <4>2. \A i \in DOMAIN notes[p] : i \in DOMAIN notes'[p]
                                       /\ notes'[p][i] = notes[p][i]
        BY <4>1, AppendProperties
      <4>3. \A i \in DOMAIN notes'[p] : <<p, i>> \in accepted =>
                                          i \in DOMAIN notes[p]
        BY <4>1, AppendProperties DEF TripInv, SignedFirst
      <4> QED BY <2>1, <3>2, <4>2, <4>3 DEF Known, Seen
    <3> QED BY <3>1, <3>2
  <2>3. lapsed' >= lapsed
    BY <2>1 DEF TripInv, Shape, TripAssumption
  <2> QED BY <2>1, <2>2, <2>3 DEF Quiet, Kinds
<1> QED BY <1>1, <1>2 DEF Store, Kind

(* Rows as they are make a lessened table when nothing new is accepted. *)
LEMMA SameTable ==
  ASSUME TripInv, UNCHANGED <<notes, accepted>>, NEW g
  PROVE  Lessened(rows, g) /\ \A p \in Pass : Known(p)
<1>1. \A p \in Pass : Known(p)
  BY DEF Known, Seen
<1> QED BY <1>1 DEF Lessened, TripInv, Shape

LEMMA ServeKinds ==
  ASSUME TripAssumption, TripInv, NEW p \in Pass, NEW request,
         request.group \in Groups, request.who \in Accounts, Serve(p, request),
         UNCHANGED <<notes, lapsed, accepted>>
  PROVE  Kinds
<1>1. \A q \in Pass : Known(q)
  BY SameTable
<1>2. CASE TokenIsOf(p, request.who) /\ request.good
  <2> DEFINE g == request.group
             a == request.who
  <2>1. /\ rows' = Granted(p, g, a) /\ promo' = FreshPromo(g)
        /\ sold[p] = a
    BY <1>2 DEF Serve, TokenIsOf
  <2>2. CASE Granted(p, g, a) = Fresh(rows, g, accepted)
    <3>1. rows' = Fresh(rows, g, accepted')
      BY <2>1, <2>2
    <3>2. Lessened(rows, g)
      BY SameTable
    <3> HIDE DEF g
    <3>3. Refresh(g)
      BY <1>1, <2>1, <3>1, <3>2 DEF Refresh
    <3> QED BY <3>3 DEF Kinds, g
  <2>3. CASE Granted(p, g, a) # Fresh(rows, g, accepted)
    <3>1. Grant(p, g, a)
      BY <2>1, <2>3, GrantedRows DEF Grant, TripInv
    <3> QED BY <3>1 DEF Kinds
  <2> QED BY <2>2, <2>3
<1>3. CASE ~(TokenIsOf(p, request.who) /\ request.good)
  <2>1. UNCHANGED <<rows, promo>>
    BY <1>3 DEF Serve
  <2>2. lapsed' >= lapsed
    BY DEF TripInv, Shape, TripAssumption
  <2> QED BY <1>1, <2>1, <2>2 DEF Quiet, Kinds
<1> QED BY <1>2, <1>3

LEMMA ServerKinds == ASSUME TripAssumption, TripInv, Server PROVE Kinds
<1>1. ASSUME NEW p \in Pass, NEW i \in DOMAIN notes[p], Accept(p, i)
      PROVE  Kinds
  <2>1. UNCHANGED <<notes, lapsed>> /\ accepted' = accepted \cup {<<p, i>>}
    BY <1>1 DEF Accept, storeVars
  <2>2. \A q \in Pass : q # p => Known(q)
    BY <2>1 DEF Known, Seen
  <2>3. CASE rows[p] = NoRow
    <3>1. UNCHANGED <<rows, promo>>
      BY <1>1, <2>3 DEF Accept
    <3>2. lapsed' >= lapsed
      BY <2>1 DEF TripInv, Shape, TripAssumption
    <3> QED BY <2>2, <2>3, <3>1, <3>2 DEF Quiet, Kinds
  <2>4. CASE rows[p] # NoRow
    <3> DEFINE g == rows[p].group
               table == Withdrawn(rows, p, accepted')
    <3>1. g \in Groups
      BY <2>4 DEF TripInv, RowsOK, Owned
    <3>2. rows' = Fresh(table, g, accepted') /\ promo' = FreshPromo(g)
      BY <1>1, <2>4 DEF Accept
    <3>3. Revocation(p, accepted') \in {"none", "revoked", "refunded"}
      BY DEF Revocation
    <3>4. \/ table = rows /\ (Revocation(p, accepted') = "none"
                              \/ rows[p].status # "active")
          \/ /\ table = [rows EXCEPT ![p].status = Revocation(p, accepted')]
             /\ Revocation(p, accepted') # "none"
      BY DEF Withdrawn
    <3> HIDE DEF table
    <3>5. Lessened(table, g)
      <4>1. rows \in [Pass -> Row]
        BY DEF TripInv, Shape
      <4>2. CASE table = rows
        <5>1. rows[p].status = "active" => Revocation(p, accepted') = "none"
          BY <3>3, <3>4, <4>1, <4>2 DEF Row
        <5> QED BY <2>2, <4>1, <4>2, <5>1 DEF Lessened
      <4>3. CASE table # rows
        <5>1. PICK status \in {"revoked", "refunded"} :
                table = [rows EXCEPT ![p].status = status]
          BY <3>3, <3>4, <4>3
        <5>2. table \in [Pass -> Row] /\ table[p].group = g
              /\ table[p].status = status
          BY <4>1, <5>1 DEF Row, Status
        <5>3. \A q \in Pass : q # p => table[q] = rows[q]
          BY <4>1, <5>1
        <5>4. table[p] # rows[p]
          BY <4>1, <4>3, <5>2, <5>3
        <5> QED BY <2>2, <5>2, <5>3, <5>4 DEF Lessened
      <4> QED BY <4>2, <4>3
    <3>6. \A q \in Pass : (rows[q] # NoRow /\ rows[q].group # g) => Known(q)
      BY <2>2
    <3> HIDE DEF g
    <3>7. Refresh(g)
      BY <2>1, <3>2, <3>5, <3>6 DEF Refresh
    <3> QED BY <3>1, <3>7 DEF Kinds
  <2> QED BY <2>3, <2>4
<1>2. ASSUME NEW p \in Pass, NEW reason \in Reason, Revoke(p, reason)
      PROVE  Kinds
  <2> DEFINE g == rows[p].group
             table == [rows EXCEPT ![p].status = reason]
  <2>1. g \in Groups
    BY <1>2 DEF Revoke, TripInv, RowsOK, Owned, NoRow
  <2>2. /\ rows' = Fresh(table, g, accepted') /\ promo' = FreshPromo(g)
        /\ UNCHANGED <<notes, lapsed, accepted>>
    BY <1>2 DEF Revoke, storeVars
  <2>3. \A q \in Pass : Known(q)
    BY <2>2, SameTable
  <2>4. Lessened(table, g)
    BY <2>3 DEF Lessened, TripInv, Shape, Row, Status, Reason
  <2> HIDE DEF table, g
  <2>5. Refresh(g)
    BY <2>2, <2>3, <2>4 DEF Refresh
  <2> QED BY <2>1, <2>5 DEF Kinds
<1>3. ASSUME NEW g \in Groups, Redeem(g) \/ Read(g)
      PROVE  Kinds
  <2>1. /\ rows' = Fresh(rows, g, accepted')
        /\ promo' \in {FreshPromo(g), [promo EXCEPT ![g] = "active"]}
        /\ UNCHANGED <<notes, lapsed, accepted>>
    BY <1>3 DEF Redeem, Read, storeVars
  <2>2. Lessened(rows, g) /\ \A p \in Pass : Known(p)
    BY <2>1, SameTable
  <2>3. Refresh(g)
    BY <2>1, <2>2 DEF Refresh
  <2> QED BY <2>3 DEF Kinds
<1> QED BY <1>1, <1>2, <1>3 DEF Server, Notify

LEMMA NextKinds ==
  ASSUME TripAssumption, TripInv, [Next]_vars
  PROVE  Kinds
<1>1. ASSUME UNCHANGED <<storeVars, serverVars>> \/ Buy
             \/ \E p \in Pass : Finish(p)
      PROVE  Kinds
  <2>1. UNCHANGED <<notes, lapsed, rows, promo, accepted>>
    BY <1>1 DEF storeVars, serverVars, Buy, Finish
  <2>2. lapsed' >= lapsed /\ \A p \in Pass : Known(p)
    BY <2>1, SameTable DEF TripInv, Shape, TripAssumption
  <2> QED BY <2>1, <2>2 DEF Quiet, Kinds
<1>2. CASE Server \/ Store
  BY <1>2, ServerKinds, StoreKinds
<1>3. ASSUME NEW p \in Pass, Execute(p)
      PROVE  Kinds
  <2>1. jobs[p].group \in Groups /\ jobs[p].who \in Accounts
    BY <1>3 DEF Execute, TripInv, JobsOK, Settling, NoJob
  <2> QED BY <1>3, <2>1, ServeKinds DEF Execute, storeVars
<1>4. CASE ExecuteLate
  <2>1. PICK request \in late :
          /\ Serve(request[1], request[2])
          /\ UNCHANGED <<storeVars, accepted>>
    BY <1>4 DEF ExecuteLate
  <2>2. /\ request[1] \in Pass /\ request[2].group \in Groups
        /\ request[2].who \in Accounts
    BY DEF TripInv, Shape, JobsOK
  <2> QED BY <2>1, <2>2, ServeKinds DEF storeVars
<1>5. CASE UNCHANGED vars
  BY <1>1, <1>5 DEF vars
<1>6. ASSUME NEW p \in Pass, Recover(p) \/ Send(p) \/ Finish(p) \/ Lose(p)
      PROVE  Kinds
  BY <1>1, <1>6 DEF Recover, Send, Lose
<1>7. CASE Kill \/ Move
  BY <1>1, <1>7 DEF Kill, Move
<1>8. CASE Next
  BY <1>1, <1>2, <1>3, <1>4, <1>6, <1>7, <1>8 DEF Next, Work
<1> QED BY <1>5, <1>8

-----------------------------------------------------------------------------
(* The properties *)

(* What is accepted of a pass decides whether it is taken back. *)
LEMMA SameKnowledge ==
  ASSUME NEW p, Known(p)
  PROVE  /\ Revocation(p, accepted)' = Revocation(p, accepted)
         /\ GivenBack(p, accepted)' = GivenBack(p, accepted)
BY DEF Known, Kind, Revocation, GivenBack, InForce, Refunds

(* Notes that are unchanged say the same, of whatever is seen of them. *)
LEMMA SameNotes ==
  ASSUME NEW p, UNCHANGED notes
  PROVE  /\ Revocation(p, accepted)' = Revocation(p, accepted')
         /\ GivenBack(p, accepted)' = GivenBack(p, accepted')
BY DEF Revocation, GivenBack, InForce, Refunds, Seen

LEMMA RefundStep ==
  ASSUME TripAssumption, TripInv, RefundHolds, [Next]_vars
  PROVE  RefundHolds'
<1>1. CASE Quiet
  <2> SUFFICES ASSUME NEW p \in Pass, rows[p].status = "active"
               PROVE  (Revocation(p, accepted) = "none")'
    BY <1>1 DEF Quiet, RefundHolds
  <2>1. Known(p)
    BY <1>1 DEF Quiet, NoRow
  <2> QED BY <2>1, SameKnowledge DEF RefundHolds
<1>2. ASSUME NEW g \in Groups, Refresh(g)
      PROVE  RefundHolds'
  <2> PICK table : Lessened(table, g) /\ rows' = Fresh(table, g, accepted')
    BY <1>2 DEF Refresh
  <2> SUFFICES ASSUME NEW p \in Pass, rows'[p].status = "active"
               PROVE  Revocation(p, accepted)' = "none"
    BY DEF RefundHolds
  <2>1. Revocation(p, accepted)' = Revocation(p, accepted')
    BY <1>2, SameNotes DEF Refresh
  <2>2. Refreshed(p, g, accepted', table[p], rows'[p])
    BY FreshRows DEF Lessened
  <2>3. CASE rows'[p] = table[p]
    <3>1. table[p] = rows[p] /\ rows[p].status = "active"
      BY <2>3 DEF Lessened
    <3>2. Known(p) \/ Revocation(p, accepted') = "none"
      BY <3>1 DEF Lessened
    <3> QED BY <2>1, <3>1, <3>2, SameKnowledge DEF RefundHolds
  <2>4. CASE rows'[p] # table[p]
    BY <2>1, <2>2, <2>4 DEF Refreshed, GivenBack
  <2> QED BY <2>3, <2>4
<1>3. ASSUME NEW p \in Pass, NEW g \in Groups, NEW a \in Accounts, Grant(p, g, a)
      PROVE  RefundHolds'
  <2> SUFFICES ASSUME NEW q \in Pass, rows'[q].status = "active"
               PROVE  Revocation(q, accepted) = "none"
    BY <1>3, SameNotes DEF RefundHolds, Grant
  <2> DEFINE fresh == Fresh(rows, g, accepted)
  <2>1. /\ fresh \in [Pass -> Row]
        /\ Refreshed(q, g, accepted, rows[q], fresh[q])
    BY FreshRows DEF TripInv, Shape
  <2>2. rows' = [fresh EXCEPT ![p] = Added(p, g, a)]
    BY <1>3 DEF Grant
  <2> HIDE DEF fresh
  <2>3. CASE q = p
    BY <1>3, <2>3 DEF Grant
  <2>4. CASE q # p
    <3>1. rows'[q] = fresh[q]
      BY <2>1, <2>2, <2>4
    <3> QED BY <2>1, <3>1 DEF Refreshed, GivenBack, RefundHolds
  <2> QED BY <2>3, <2>4
<1> QED BY <1>1, <1>2, <1>3, NextKinds DEF Kinds

(* A pass that the notifications accepted so far take back never serves a  *)
(* group, for any number of notifications in any order.                    *)
THEOREM RefundsHold == ASSUME TripAssumption PROVE Spec => []RefundHolds
<1>1. Init => RefundHolds
  BY DEF Init, RefundHolds, NoRow
<1>2. TripInv /\ RefundHolds /\ [Next]_vars => RefundHolds'
  BY RefundStep
<1> QED BY <1>1, <1>2, TripCorrect, PTL DEF Spec

(* What is finished at the store has its row, for the account that paid. *)
THEOREM FinishedGranted == ASSUME TripAssumption PROVE Spec => []FinishedIsGranted
<1>1. TripInv => FinishedIsGranted
  BY DEF TripInv, Shape, Durable, RowsOK, Owned, FinishedIsGranted
<1> QED BY <1>1, TripCorrect, PTL

(* A group that is not refreshed keeps its slot and those who wait for it. *)
Waits(p, table, seen) ==
  table[p].status = "refunded" /\ GivenBack(p, seen) /\ p > lapsed
SlotHeld(table, slots, g) ==
  ActiveIn(table, g) # {} \/ slots[g] \in {"active", "lapsed"}

LEMMA ReversalStep ==
  ASSUME TripAssumption, TripInv, ReversalKept, [Next]_vars
  PROVE  ReversalKept'
<1>0. TripInv'
  BY NextTrip
<1> SUFFICES ASSUME NEW p \in Pass, Waits(p, rows, accepted)'
             PROVE  SlotHeld(rows', promo', rows'[p].group)
  BY DEF ReversalKept, Waits, SlotHeld, ActiveIn
<1>1. rows'[p] # NoRow /\ rows'[p].group \in Groups
  BY <1>0 DEF Waits, TripInv, RowsOK, Owned, NoRow
<1>2. CASE Quiet
  <2>0. lapsed' \in Nat /\ lapsed \in Nat
    BY <1>0 DEF TripInv, Shape, TripAssumption
  <2>1. Known(p) /\ p > lapsed
    BY <1>1, <1>2, <2>0 DEF Quiet, Waits, Pass, TripAssumption
  <2>2. Waits(p, rows, accepted)
    BY <1>2, <2>1, SameKnowledge DEF Quiet, Waits
  <2>3. SlotHeld(rows, promo, rows[p].group)
    BY <2>2 DEF ReversalKept, Waits, SlotHeld
  <2> QED BY <1>1, <1>2, <2>3 DEF Quiet, SlotHeld, ActiveIn
<1>3. ASSUME NEW g \in Groups, Refresh(g)
      PROVE  SlotHeld(rows', promo', rows'[p].group)
  <2> PICK table : Lessened(table, g) /\ rows' = Fresh(table, g, accepted')
    BY <1>3 DEF Refresh
  <2>1. \A q \in Pass : Refreshed(q, g, accepted', table[q], rows'[q])
    BY FreshRows DEF Lessened
  <2>2. GivenBack(p, accepted') /\ p > lapsed /\ rows'[p].status = "refunded"
    BY <1>3, SameNotes DEF Waits, Refresh
  <2>3. CASE rows'[p].group = g
    <3>1. ActiveIn(rows', g) # {} \/ promo[g] = "active"
      BY <2>2, <2>3, FreshKeeps DEF Lessened
    <3>2. promo[g] = "active" => promo'[g] = "active"
      BY <1>3 DEF Refresh, FreshPromo, TripInv, Shape
    <3> QED BY <2>3, <3>1, <3>2 DEF SlotHeld
  <2>4. CASE rows'[p].group # g
    <3> DEFINE h == rows'[p].group
    <3>1. \A q \in Pass : (rows'[q].group = h \/ rows[q].group = h) =>
                            rows'[q] = rows[q]
      BY <2>1, <2>4 DEF Refreshed, Lessened
    <3>2. Known(p) /\ rows'[p] = rows[p]
      BY <1>1, <1>3, <2>4, <3>1 DEF Refresh
    <3>3. Waits(p, rows, accepted)
      BY <2>2, <3>2, SameKnowledge DEF Waits
    <3>4. SlotHeld(rows, promo, h)
      BY <3>2, <3>3 DEF ReversalKept, Waits, SlotHeld
    <3>5. promo'[h] = promo[h]
      BY <1>1, <1>3, <2>4 DEF Refresh, FreshPromo, TripInv, Shape
    <3>6. ActiveIn(rows', h) = ActiveIn(rows, h)
      BY <3>1 DEF ActiveIn
    <3> QED BY <3>4, <3>5, <3>6 DEF SlotHeld
  <2> QED BY <2>3, <2>4
<1>4. ASSUME NEW r \in Pass, NEW g \in Groups, NEW a \in Accounts, Grant(r, g, a)
      PROVE  SlotHeld(rows', promo', rows'[p].group)
  <2> DEFINE fresh == Fresh(rows, g, accepted)
  <2>1. /\ fresh \in [Pass -> Row]
        /\ \A q \in Pass : Refreshed(q, g, accepted, rows[q], fresh[q])
    BY FreshRows DEF TripInv, Shape
  <2>2. rows' = [fresh EXCEPT ![r] = Added(r, g, a)] /\ fresh[r] = NoRow
    BY <1>4 DEF Grant
  <2> HIDE DEF fresh
  <2>3. CASE rows'[p].group = g
    <3>1. r \in ActiveIn(rows', g)
      BY <2>1, <2>2 DEF ActiveIn, Added
    <3> QED BY <2>3, <3>1 DEF SlotHeld
  <2>4. CASE rows'[p].group # g
    <3> DEFINE h == rows'[p].group
    <3>0. rows[r].group # h /\ rows'[r].group = g
      BY <1>1, <2>1, <2>2 DEF Refreshed, NoRow, Added, TripAssumption
    <3>1. \A q \in Pass : (rows'[q].group = h \/ rows[q].group = h) =>
                            rows'[q] = rows[q]
      BY <2>1, <2>2, <2>4, <3>0 DEF Refreshed
    <3>2. rows'[p] = rows[p] /\ UNCHANGED <<notes, lapsed, accepted>>
      BY <1>4, <3>1 DEF Grant
    <3>3. Waits(p, rows, accepted)
      BY <3>2, SameNotes DEF Waits
    <3>4. SlotHeld(rows, promo, h)
      BY <3>2, <3>3 DEF ReversalKept, Waits, SlotHeld
    <3>5. promo'[h] = promo[h]
      BY <1>1, <1>4, <2>4 DEF Grant, FreshPromo, TripInv, Shape
    <3>6. ActiveIn(rows', h) = ActiveIn(rows, h)
      BY <3>1 DEF ActiveIn
    <3> QED BY <3>4, <3>5, <3>6 DEF SlotHeld
  <2> QED BY <2>3, <2>4
<1> QED BY <1>2, <1>3, <1>4, NextKinds DEF Kinds

(* A pass the store gave back, and which still runs, waits only for a slot *)
(* that is taken, whatever freed it.                                       *)
THEOREM ReversalsKept == ASSUME TripAssumption PROVE Spec => []ReversalKept
<1>1. Init => ReversalKept
  BY DEF Init, ReversalKept, NoRow
<1>2. TripInv /\ ReversalKept /\ [Next]_vars => ReversalKept'
  BY ReversalStep
<1> QED BY <1>1, <1>2, TripCorrect, PTL DEF Spec

(* The types, with what is finished among what was sold. *)
THEOREM TripTypes == ASSUME TripAssumption PROVE Spec => []TypeOK
<1>1. ASSUME TripInv
      PROVE  TypeOK
  <2>1. finished \subseteq Sold
    BY <1>1 DEF TripInv, Shape, Durable, RowsOK, Owned, Sold, TripAssumption
  <2>2. ASSUME NEW p \in Pass, jobs[p] # NoJob
        PROVE  /\ p \in Sold /\ jobs[p].group \in Groups \cup {NoGroup}
               /\ jobs[p].phase \in {"ask", "sent", "answer"}
    BY <1>1, <2>2 DEF TripInv, Shape, JobsOK, Settling, Job
  <2>3. \A p \in Pass : rows[p].status \in Status
    BY <1>1 DEF TripInv, Shape, Row
  <2>4. accepted \subseteq Note
    <3> SUFFICES ASSUME NEW p \in Pass, NEW i \in Nat, <<p, i>> \in accepted
                 PROVE  i \in 1..MaxNotes
      BY <1>1 DEF TripInv, Shape, Note
    <3> QED BY <1>1 DEF TripInv, Shape, Signed, SignedFirst, TripAssumption
  <2> QED BY <1>1, <2>1, <2>2, <2>3, <2>4 DEF TripInv, Shape, TypeOK
<1> QED BY <1>1, TripCorrect, PTL

=============================================================================
