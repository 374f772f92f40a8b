-------------------- MODULE InstallationCapabilitiesProofs --------------------
(***************************************************************************)
(* What InstallationCapabilities keeps for any number of accounts, tokens, *)
(* sessions, writes and faults: no registration for an account that signed *)
(* out, and a gate that says what the server has.                          *)
(***************************************************************************)
EXTENDS InstallationCapabilities, SequenceTheorems, TLAPS

-----------------------------------------------------------------------------
(* The inductive invariant *)

(* What was sent is refused, or belongs to the session there is now, or to *)
(* an account whose session was lost.                                      *)
SentOK(w) ==
  /\ w.sid <= sid
  /\ \/ w.sid \in revoked \/ w.key.who \in orphaned
     \/ w.sid = sid /\ w.key.who = session
SentBy == /\ \A i \in DOMAIN writes : writes[i].sent => SentOK(writes[i])
          /\ \A w \in late : SentOK(w)

(* A session that is about to be replaced is revoked, and what is revoked  *)
(* holds no registration and gets none.                                    *)
SessionOK ==
  /\ sid <= switches /\ revoked \subseteq 0 .. sid
  /\ auth.phase # "idle" => sid < switches
  /\ auth.phase = "ending" => session = NoOne \/ sid \in revoked
  /\ (sid \in revoked /\ session # NoOne) =>
       ~rows[session].held \/ session \in orphaned
HeldOK == \A a \in Accounts : rows[a].held => a \in orphaned \cup {session}

(* The gate skips what the server has; at rest it skips for a reason.      *)
RowOf(k) ==
  [token |-> k.token, enabled |-> k.enabled /\ k.token # NoToken, held |-> TRUE]
GateOK ==
  (gate.success # NoKey /\ ~excused) =>
     rows[gate.success.who] = RowOf(gate.success)
NoteOK == ~ready => gate.permanent \in {NoKey, disk}
Asking == writes # <<>> /\ writes[Len(writes)].key = Wanted
Asked == writes = <<>>
    /\ (gate.waiting \/ Wanted \in {gate.permanent, gate.success})
WantedOK == (session # NoOne /\ ~excused /\ sid \notin revoked) => Asking \/ Asked

CapabilitiesInv ==
  /\ TypeOK /\ SentBy /\ SessionOK /\ HeldOK
  /\ GateOK /\ NoteOK /\ WantedOK

-----------------------------------------------------------------------------
(* The chain of writes *)

LEMMA Appended ==
  ASSUME NEW q \in Seq(Request), NEW r \in Request
  PROVE  LET p == Append(q, r)
         IN /\ p \in Seq(Request) /\ p # <<>> /\ p[Len(p)] = r
            /\ \A i \in DOMAIN p : (i \in DOMAIN q /\ p[i] = q[i]) \/ p[i] = r
OBVIOUS

LEMMA Tailed ==
  ASSUME NEW q \in Seq(Request), q # <<>>
  PROVE  LET p == Tail(q)
         IN /\ p \in Seq(Request) /\ Head(q) \in Request /\ Head(q) = q[1]
            /\ 1 \in DOMAIN q
            /\ \A i \in DOMAIN p : i + 1 \in DOMAIN q /\ p[i] = q[i + 1]
            /\ p # <<>> => p[Len(p)] = q[Len(q)]
            /\ p = <<>> => Len(q) = 1
            /\ Len(q) = 1 => p = <<>>
<1> DEFINE p == Tail(q)
<1>1. /\ p \in Seq(Request) /\ Len(p) = Len(q) - 1
      /\ Head(q) \in Request /\ Head(q) = q[1] /\ 1 \in DOMAIN q
      /\ \A i \in DOMAIN p : i + 1 \in DOMAIN q /\ p[i] = q[i + 1]
  OBVIOUS
<1>2. Len(q) \in Nat /\ Len(q) > 0
  OBVIOUS
<1> HIDE DEF p
<1>3. p = <<>> <=> Len(p) = 0
  BY <1>1
<1>4. p # <<>> => Len(p) \in DOMAIN p
  BY <1>1, <1>3
<1>5. p # <<>> => p[Len(p)] = q[Len(q)]
  BY <1>1, <1>2, <1>4
<1> QED BY <1>1, <1>2, <1>3, <1>5 DEF p

LEMMA Joined ==
  ASSUME NEW q \in Seq(Request), NEW r \in Request
  PROVE  LET p == <<r>> \o q
         IN /\ p \in Seq(Request) /\ p # <<>> /\ Len(p) = Len(q) + 1 /\ p[1] = r
            /\ \A i \in DOMAIN p : i # 1 => i - 1 \in DOMAIN q /\ p[i] = q[i - 1]
OBVIOUS

(* The head is replaced by a request with the same key. *)
LEMMA Marked ==
  ASSUME NEW q \in Seq(Request), q # <<>>, NEW r \in Request,
         r.key = Head(q).key
  PROVE  LET p == <<r>> \o Tail(q)
         IN /\ p \in Seq(Request) /\ p # <<>>
            /\ p[Len(p)].key = q[Len(q)].key
            /\ \A i \in DOMAIN p : (i \in DOMAIN q /\ p[i] = q[i]) \/ p[i] = r
<1> DEFINE rest == Tail(q)
           p == <<r>> \o rest
<1>1. /\ rest \in Seq(Request) /\ Len(rest) = Len(q) - 1 /\ Head(q) = q[1]
      /\ \A i \in DOMAIN rest : i + 1 \in DOMAIN q /\ rest[i] = q[i + 1]
  OBVIOUS
<1> HIDE DEF rest
<1>2. /\ p \in Seq(Request) /\ p # <<>> /\ Len(p) = Len(rest) + 1 /\ p[1] = r
      /\ \A i \in DOMAIN p : i # 1 => i - 1 \in DOMAIN rest /\ p[i] = rest[i - 1]
  BY <1>1, Joined
<1> HIDE DEF p
<1>3. Len(p) = Len(q) /\ Len(q) \in Nat /\ Len(q) > 0
  BY <1>1, <1>2
<1>4. \A i \in DOMAIN p : i # 1 => i \in DOMAIN q /\ p[i] = q[i]
  BY <1>1, <1>2, <1>3
<1>5. p[Len(p)].key = q[Len(q)].key
  <2>1. CASE Len(q) = 1
    BY <1>1, <1>2, <1>3, <2>1
  <2>2. CASE Len(q) # 1
    <3>1. Len(p) \in DOMAIN p
      BY <1>2, <1>3
    <3> QED BY <1>3, <1>4, <2>2, <3>1
  <2> QED BY <2>1, <2>2
<1>6. \A i \in DOMAIN p : (i \in DOMAIN q /\ p[i] = q[i]) \/ p[i] = r
  BY <1>2, <1>4
<1> QED BY <1>2, <1>5, <1>6 DEF p, rest

LEMMA Constants ==
  ASSUME InstallationAssumption
  PROVE  /\ \A k \in Key : k.who \in Accounts /\ k.who # NoOne /\ k # NoKey
         /\ NoRow \in Row /\ NoKey.who = NoOne /\ 0 \in Sid /\ Sid \subseteq Nat
         /\ FreshGate \in [success : Key \cup {NoKey}, permanent : Key \cup {NoKey},
                           attempt : Key \cup {NoKey}, waiting : BOOLEAN]
         /\ FreshGate.success = NoKey /\ FreshGate.permanent = NoKey
         /\ ~NoRow.held
<1>1. NoKey.who = NoOne /\ ~NoRow.held /\ NoRow \in Row
  BY DEF NoKey, NoRow, Row
<1>2. \A k \in Key : k.who \in Accounts /\ k.who # NoOne
  BY DEF Key, InstallationAssumption
<1>3. \A k \in Key : k # NoKey
  BY <1>1, <1>2
<1>4. 0 \in Sid /\ Sid \subseteq Nat
  BY DEF Sid, InstallationAssumption
<1>5. /\ FreshGate.success = NoKey /\ FreshGate.permanent = NoKey
      /\ FreshGate \in [success : Key \cup {NoKey}, permanent : Key \cup {NoKey},
                        attempt : Key \cup {NoKey}, waiting : BOOLEAN]
  BY DEF FreshGate
<1> QED BY <1>1, <1>2, <1>3, <1>4, <1>5

-----------------------------------------------------------------------------
(* What a step may do *)

(* Nothing is sent that was not sent, or it is sent for the session there  *)
(* is; and what was fenced stays so.                                       *)
NothingNewSent ==
  /\ \A i \in DOMAIN writes' : writes'[i].sent =>
       \/ \E j \in DOMAIN writes : /\ writes[j].sent
                                   /\ writes'[i].key = writes[j].key
                                   /\ writes'[i].sid = writes[j].sid
       \/ /\ writes'[i].sid = sid /\ writes'[i].key.who = session
          /\ session # NoOne
  /\ \A w \in late' :
       \/ w \in late
       \/ \E j \in DOMAIN writes : /\ writes[j].sent /\ w.key = writes[j].key
                                   /\ w.sid = writes[j].sid

LEMMA SentStays ==
  ASSUME InstallationAssumption, CapabilitiesInv, NothingNewSent,
         sid' \in Nat, sid' >= sid,
         revoked \subseteq revoked', orphaned \subseteq orphaned',
         \/ UNCHANGED <<sid, session>>
         \/ session = NoOne \/ sid \in revoked' \/ session \in orphaned'
  PROVE  SentBy'
<1>1. sid \in Nat /\ revoked \subseteq Nat
  BY Constants DEF CapabilitiesInv, TypeOK
<1>2. ASSUME NEW w, w.key.who \in Accounts, w.sid \in Nat,
             SentOK(w) \/ (w.sid = sid /\ w.key.who = session)
      PROVE  /\ w.sid <= sid'
             /\ \/ w.sid \in revoked' \/ w.key.who \in orphaned'
                \/ w.sid = sid' /\ w.key.who = session'
  BY <1>1, <1>2 DEF SentOK, InstallationAssumption
<1>3. \A j \in DOMAIN writes : writes[j].sent =>
        /\ SentOK(writes[j])
        /\ writes[j].key.who \in Accounts /\ writes[j].sid \in Nat
  <2>1. \A j \in DOMAIN writes : writes[j] \in Request
    BY DEF CapabilitiesInv, TypeOK
  <2>2. \A r \in Request : r.key.who \in Accounts /\ r.sid \in Nat
    BY Constants DEF Request
  <2> QED BY <2>1, <2>2 DEF CapabilitiesInv, SentBy
<1>4. \A w \in late : /\ SentOK(w)
                      /\ w.key.who \in Accounts /\ w.sid \in Nat
  BY Constants DEF CapabilitiesInv, SentBy, TypeOK
<1>5. ASSUME NEW i \in DOMAIN writes', writes'[i].sent
      PROVE  SentOK(writes[i])'
  <2>1. CASE \E j \in DOMAIN writes : /\ writes[j].sent
                                      /\ writes'[i].key = writes[j].key
                                      /\ writes'[i].sid = writes[j].sid
    <3>1. PICK j \in DOMAIN writes : /\ writes[j].sent
                                     /\ writes'[i].key = writes[j].key
                                     /\ writes'[i].sid = writes[j].sid
      BY <2>1
    <3>2. /\ writes[j].sid <= sid'
          /\ \/ writes[j].sid \in revoked' \/ writes[j].key.who \in orphaned'
             \/ writes[j].sid = sid' /\ writes[j].key.who = session'
      BY <1>2, <1>3, <3>1
    <3> QED BY <3>1, <3>2 DEF SentOK
  <2>2. CASE /\ writes'[i].sid = sid /\ writes'[i].key.who = session
             /\ session # NoOne
    BY <1>1, <2>2 DEF SentOK
  <2> QED BY <1>5, <2>1, <2>2 DEF NothingNewSent
<1>6. ASSUME NEW w \in late'
      PROVE  /\ w.sid <= sid'
             /\ \/ w.sid \in revoked' \/ w.key.who \in orphaned'
                \/ w.sid = sid' /\ w.key.who = session'
  <2>1. CASE w \in late
    BY <1>2, <1>4, <2>1
  <2>2. CASE \E j \in DOMAIN writes : /\ writes[j].sent /\ w.key = writes[j].key
                                      /\ w.sid = writes[j].sid
    <3>1. PICK j \in DOMAIN writes : /\ writes[j].sent /\ w.key = writes[j].key
                                     /\ w.sid = writes[j].sid
      BY <2>2
    <3> QED BY <1>2, <1>3, <3>1
  <2> QED BY <2>1, <2>2 DEF NothingNewSent
<1> QED BY <1>5, <1>6 DEF SentBy, SentOK

(* Steps that touch neither a registration nor a session. *)
LEMMA SessionsStay ==
  ASSUME CapabilitiesInv, UNCHANGED <<session, sid, rows, revoked, orphaned>>,
         switches' \in Nat, switches' >= switches,
         auth'.phase = "ending" => auth.phase = "ending",
         auth'.phase # "idle" => auth.phase # "idle" \/ switches' > switches
  PROVE  SessionOK' /\ HeldOK'
<1>1. sid \in Nat /\ switches \in Nat /\ sid <= switches
  BY DEF CapabilitiesInv, SessionOK, TypeOK, Sid
<1>2. HeldOK'
  BY DEF CapabilitiesInv, HeldOK
<1> QED BY <1>1, <1>2 DEF CapabilitiesInv, SessionOK

(* The listener and the policy: unless the gate skips the wish, it is the  *)
(* last in the chain; a skip at rest has its reason in the gate.           *)
LEMMA Offering ==
  ASSUME InstallationAssumption, CapabilitiesInv, NEW k, Offer(k),
         k.who # NoOne => k \in Key, generation' \in Nat
  PROVE  /\ writes' \in Seq(Request) /\ excused' \in BOOLEAN
         /\ \A i \in DOMAIN writes' : writes'[i].sent =>
              i \in DOMAIN writes /\ writes'[i] = writes[i]
         /\ ~excused' => ~excused
         /\ (k.who # NoOne /\ ~excused') =>
              \/ writes' # <<>> /\ writes'[Len(writes')].key = k
              \/ /\ writes' = <<>>
                 /\ k \in {gate.permanent, gate.success}
<1> DEFINE r == [key |-> k, epoch |-> generation', sid |-> 0, sent |-> FALSE]
           asks == k.who # NoOne /\ Registers(k)
           skips == k.who # NoOne /\ ~Registers(k)
               /\ (writes # <<>> \/ gate.waiting)
<1>1. writes \in Seq(Request) /\ excused \in BOOLEAN
  BY DEF CapabilitiesInv, TypeOK
<1>2. /\ writes' = IF asks THEN Append(writes, r) ELSE writes
      /\ excused' = (excused \/ skips)
  BY DEF Offer
<1>3. excused' \in BOOLEAN /\ (~excused' => ~excused /\ ~skips)
  <2> HIDE DEF skips
  <2> QED BY <1>1, <1>2
<1>4. CASE asks
  <2>1. r \in Request /\ ~r.sent /\ r.key = k
    BY <1>4, Constants DEF Request
  <2> HIDE DEF r
  <2>2. writes' = Append(writes, r)
    BY <1>2, <1>4
  <2>3. /\ writes' \in Seq(Request) /\ writes' # <<>>
        /\ writes'[Len(writes')] = r
        /\ \A i \in DOMAIN writes' :
             (i \in DOMAIN writes /\ writes'[i] = writes[i]) \/ writes'[i] = r
    BY <1>1, <2>1, <2>2, Appended
  <2> QED BY <1>3, <2>1, <2>3
<1>5. CASE ~asks
  <2>1. writes' = writes
    BY <1>2, <1>5
  <2>2. k.who # NoOne /\ ~excused' =>
          /\ writes = <<>> /\ ~gate.waiting /\ ~Registers(k)
    BY <1>3, <1>5
  <2>3. k.who # NoOne /\ ~excused' => k \in {gate.permanent, gate.success}
    BY <2>2 DEF Registers
  <2> QED BY <1>1, <1>3, <2>1, <2>2, <2>3
<1> QED BY <1>4, <1>5

(* The effects offer what is wanted now. *)
LEMMA OfferWanted ==
  ASSUME InstallationAssumption, CapabilitiesInv, Offer(Wanted'),
         session' \in Accounts \cup {NoOne}, token' \in Tokens \cup {NoToken},
         pref' \in BOOLEAN, generation' \in Nat, UNCHANGED <<gate, rows, late>>
  PROVE  /\ writes' \in Seq(Request) /\ excused' \in BOOLEAN
         /\ NothingNewSent /\ GateOK' /\ WantedOK'
<1> DEFINE k == Wanted'
<1>1. k.who = session'
        /\ k = [who |-> session', token |-> token', enabled |-> pref']
  BY DEF Wanted
<1>2. k.who # NoOne => k \in Key
  BY <1>1 DEF Key
<1> HIDE DEF k
<1>3. /\ writes' \in Seq(Request) /\ excused' \in BOOLEAN
      /\ \A i \in DOMAIN writes' : writes'[i].sent =>
           i \in DOMAIN writes /\ writes'[i] = writes[i]
      /\ ~excused' => ~excused
      /\ (k.who # NoOne /\ ~excused') =>
           \/ writes' # <<>> /\ writes'[Len(writes')].key = k
           \/ writes' = <<>> /\ k \in {gate.permanent, gate.success}
  BY <1>2, Offering DEF k
<1>4. NothingNewSent
  BY <1>3 DEF NothingNewSent
<1>5. GateOK'
  BY <1>3 DEF CapabilitiesInv, GateOK
<1>6. WantedOK'
  BY <1>1, <1>3 DEF WantedOK, Asking, Asked, k
<1> QED BY <1>3, <1>4, <1>5, <1>6

LEMMA StepToken ==
  ASSUME InstallationAssumption, CapabilitiesInv, NEW t \in Tokens, NativeToken(t)
  PROVE  CapabilitiesInv'
<1>1. /\ token' = t /\ UNCHANGED <<generation, session, sid, pref, gate, ready,
                          disk, blocked, auth, rows, revoked, late, orphaned,
                          switches, faults>>
      /\ changes < MaxChanges /\ changes' = changes + 1
      /\ Offer([who |-> session, token |-> t, enabled |-> pref])
  BY DEF NativeToken, gateVars, serverVars
<1>2. /\ session \in Accounts \cup {NoOne} /\ pref \in BOOLEAN
      /\ generation \in Nat /\ changes \in 0 .. MaxChanges
      /\ switches \in Nat /\ sid \in Nat
  BY DEF CapabilitiesInv, TypeOK, Sid
<1>3. Wanted' = [who |-> session, token |-> t, enabled |-> pref]
  BY <1>1 DEF Wanted
<1>4. /\ writes' \in Seq(Request) /\ excused' \in BOOLEAN
      /\ NothingNewSent /\ GateOK' /\ WantedOK'
  BY <1>1, <1>2, <1>3, OfferWanted
<1>5. changes' \in 0 .. MaxChanges
  BY <1>1, <1>2 DEF InstallationAssumption
<1>6. TypeOK'
  BY <1>1, <1>4, <1>5 DEF CapabilitiesInv, TypeOK
<1>7. SentBy'
  BY <1>1, <1>2, <1>4, SentStays
<1>8. SessionOK' /\ HeldOK'
  BY <1>1, <1>2, SessionsStay
<1>9. NoteOK'
  BY <1>1 DEF CapabilitiesInv, NoteOK
<1> QED BY <1>4, <1>6, <1>7, <1>8, <1>9 DEF CapabilitiesInv

LEMMA StepToggle ==
  ASSUME InstallationAssumption, CapabilitiesInv, TogglePolicy
  PROVE  CapabilitiesInv'
<1>1. /\ pref' = ~pref /\ UNCHANGED <<generation, session, sid, token, gate,
                          ready, disk, blocked, auth, rows, revoked, late,
                          orphaned, switches, faults>>
      /\ changes < MaxChanges /\ changes' = changes + 1
      /\ Offer([who |-> session, token |-> token, enabled |-> ~pref])
  BY DEF TogglePolicy, gateVars, serverVars
<1>2. /\ session \in Accounts \cup {NoOne} /\ token \in Tokens \cup {NoToken}
      /\ generation \in Nat /\ changes \in 0 .. MaxChanges
      /\ switches \in Nat /\ sid \in Nat
  BY DEF CapabilitiesInv, TypeOK, Sid
<1>3. pref' \in BOOLEAN
  BY <1>1
<1>4. Wanted' = [who |-> session, token |-> token, enabled |-> ~pref]
  BY <1>1 DEF Wanted
<1>5. /\ writes' \in Seq(Request) /\ excused' \in BOOLEAN
      /\ NothingNewSent /\ GateOK' /\ WantedOK'
  BY <1>1, <1>2, <1>3, <1>4, OfferWanted
<1>6. changes' \in 0 .. MaxChanges
  BY <1>1, <1>2 DEF InstallationAssumption
<1>7. TypeOK'
  BY <1>1, <1>3, <1>5, <1>6 DEF CapabilitiesInv, TypeOK
<1>8. SentBy'
  BY <1>1, <1>2, <1>5, SentStays
<1>9. SessionOK' /\ HeldOK'
  BY <1>1, <1>2, SessionsStay
<1>10. NoteOK'
  BY <1>1 DEF CapabilitiesInv, NoteOK
<1> QED BY <1>5, <1>7, <1>8, <1>9, <1>10 DEF CapabilitiesInv

LEMMA StepBackoff ==
  ASSUME InstallationAssumption, CapabilitiesInv, BackoffElapsed
  PROVE  CapabilitiesInv'
<1>1. /\ gate' = [gate EXCEPT !.waiting = FALSE] /\ excused' = TRUE
      /\ UNCHANGED <<session, sid, pref, token, ready, disk, writes, blocked,
                     generation, auth, rows, revoked, late, orphaned, changes,
                     switches, faults>>
  BY DEF BackoffElapsed, clientVars, fenceVars, serverVars, bounds
<1>2. switches \in Nat /\ sid \in Nat
  BY DEF CapabilitiesInv, TypeOK, Sid
<1>3. /\ gate' \in [success : Key \cup {NoKey}, permanent : Key \cup {NoKey},
                    attempt : Key \cup {NoKey}, waiting : BOOLEAN]
      /\ gate'.permanent = gate.permanent
  BY <1>1 DEF CapabilitiesInv, TypeOK
<1>4. TypeOK'
  BY <1>1, <1>3 DEF CapabilitiesInv, TypeOK
<1>5. NothingNewSent
  BY <1>1 DEF NothingNewSent
<1>6. SentBy' /\ SessionOK' /\ HeldOK'
  BY <1>1, <1>2, <1>5, SentStays, SessionsStay
<1>7. GateOK' /\ NoteOK' /\ WantedOK'
  BY <1>1, <1>3 DEF CapabilitiesInv, GateOK, NoteOK, WantedOK
<1> QED BY <1>4, <1>6, <1>7 DEF CapabilitiesInv

(* The result of a write: the gate remembers one reason to skip, or waits. *)
LEMMA Recorded ==
  ASSUME InstallationAssumption, CapabilitiesInv, NEW k \in Key, NEW result,
         Record(k, result), UNCHANGED ready
  PROVE  /\ gate' \in [success : Key \cup {NoKey}, permanent : Key \cup {NoKey},
                       attempt : Key \cup {NoKey}, waiting : BOOLEAN]
         /\ disk' \in Key \cup {NoKey} /\ NoteOK'
         /\ gate'.success = IF result = "upserted" THEN k ELSE NoKey
         /\ gate'.waiting \/ k \in {gate'.permanent, gate'.success}
<1>1. /\ gate \in [success : Key \cup {NoKey}, permanent : Key \cup {NoKey},
                   attempt : Key \cup {NoKey}, waiting : BOOLEAN]
      /\ disk \in Key \cup {NoKey}
  BY DEF CapabilitiesInv, TypeOK
<1>2. CASE result = "upserted"
  <2>1. /\ gate' = [success |-> k, permanent |-> NoKey, attempt |-> k,
                    waiting |-> FALSE]
        /\ disk' = NoKey
    BY <1>2 DEF Record
  <2> QED BY <1>2, <2>1 DEF NoteOK
<1>3. CASE result = "foreign"
  <2>1. /\ gate' = [success |-> NoKey, permanent |-> k, attempt |-> k,
                    waiting |-> FALSE]
        /\ disk' = k
    BY <1>3 DEF Record
  <2> QED BY <1>3, <2>1 DEF NoteOK
<1>4. CASE result # "upserted" /\ result # "foreign"
  <2>1. /\ gate' = [gate EXCEPT !.success = NoKey, !.attempt = k, !.waiting = TRUE]
        /\ disk' = disk
    BY <1>4 DEF Record
  <2>2. /\ gate' \in [success : Key \cup {NoKey}, permanent : Key \cup {NoKey},
                      attempt : Key \cup {NoKey}, waiting : BOOLEAN]
        /\ gate'.success = NoKey /\ gate'.waiting
        /\ gate'.permanent = gate.permanent
    BY <1>1, <2>1
  <2> QED BY <1>1, <1>4, <2>1, <2>2 DEF CapabilitiesInv, NoteOK
<1> QED BY <1>2, <1>3, <1>4

LEMMA Dequeued ==
  ASSUME CapabilitiesInv, writes # <<>>, Dequeue
  PROVE  /\ writes' \in Seq(Request) /\ Head(writes) \in Request
         /\ Head(writes).key \in Key /\ Head(writes) = writes[1]
         /\ 1 \in DOMAIN writes
         /\ auth' \in [phase : {"idle", "fenced", "ending"}, ahead : Nat,
                       target : Accounts \cup {NoOne}]
         /\ auth'.phase = auth.phase
         /\ \A i \in DOMAIN writes' : /\ i + 1 \in DOMAIN writes
                                      /\ writes'[i] = writes[i + 1]
         /\ writes' # <<>> => writes'[Len(writes')] = writes[Len(writes)]
         /\ writes' = <<>> => writes[Len(writes)] = Head(writes)
         /\ Len(writes) = 1 => writes' = <<>>
<1>1. writes \in Seq(Request) /\ writes' = Tail(writes)
  BY DEF CapabilitiesInv, TypeOK, Dequeue
<1>2. /\ writes' \in Seq(Request) /\ Head(writes) \in Request
      /\ Head(writes) = writes[1] /\ 1 \in DOMAIN writes
      /\ \A i \in DOMAIN writes' : /\ i + 1 \in DOMAIN writes
                                   /\ writes'[i] = writes[i + 1]
      /\ writes' # <<>> => writes'[Len(writes')] = writes[Len(writes)]
      /\ writes' = <<>> => Len(writes) = 1
      /\ Len(writes) = 1 => writes' = <<>>
  BY <1>1, Tailed
<1>3. Head(writes).key \in Key
  BY <1>2 DEF Request
<1>4. /\ auth' \in [phase : {"idle", "fenced", "ending"}, ahead : Nat,
                    target : Accounts \cup {NoOne}]
      /\ auth'.phase = auth.phase
  <2>1. auth \in [phase : {"idle", "fenced", "ending"}, ahead : Nat,
                 target : Accounts \cup {NoOne}]
    BY DEF CapabilitiesInv, TypeOK
  <2>2. CASE auth.ahead > 0
    <3>1. auth' = [auth EXCEPT !.ahead = auth.ahead - 1] /\ auth.ahead - 1 \in Nat
      BY <2>1, <2>2 DEF Dequeue
    <3> QED BY <2>1, <3>1
  <2>3. CASE ~(auth.ahead > 0)
    BY <2>1, <2>3 DEF Dequeue
  <2> QED BY <2>2, <2>3
<1> QED BY <1>2, <1>3, <1>4

(* What remains after the head of the chain is done. *)
LEMMA Done ==
  ASSUME InstallationAssumption, CapabilitiesInv, writes # <<>>, Dequeue,
         UNCHANGED <<session, sid, pref, token, ready, revoked, orphaned, switches>>,
         NEW result, Record(Head(writes).key, result),
         ~excused' => ~excused,
         \A w \in late' : \/ w \in late
                          \/ /\ Head(writes).sent /\ w.key = Head(writes).key
                             /\ w.sid = Head(writes).sid
  PROVE  SentBy' /\ WantedOK'
<1>1. /\ writes' \in Seq(Request) /\ Head(writes).key \in Key
      /\ Head(writes) = writes[1] /\ 1 \in DOMAIN writes
      /\ \A i \in DOMAIN writes' : /\ i + 1 \in DOMAIN writes
                                   /\ writes'[i] = writes[i + 1]
      /\ writes' # <<>> => writes'[Len(writes')] = writes[Len(writes)]
      /\ writes' = <<>> => writes[Len(writes)] = Head(writes)
  BY Dequeued
<1>2. gate'.waiting \/ Head(writes).key \in {gate'.permanent, gate'.success}
  BY <1>1, Recorded
<1>3. NothingNewSent
  <2>1. \A i \in DOMAIN writes' : \E j \in DOMAIN writes : writes'[i] = writes[j]
    BY <1>1
  <2>2. \A w \in late' :
          w \in late \/ (writes[1].sent /\ w.key = writes[1].key
                        /\ w.sid = writes[1].sid)
    BY <1>1
  <2>3. 1 \in DOMAIN writes
    BY <1>1
  <2> QED BY <2>1, <2>2, <2>3 DEF NothingNewSent
<1>4. SentBy'
  <2>1. sid \in Nat
    BY DEF CapabilitiesInv, TypeOK, Sid
  <2> QED BY <1>3, <2>1, SentStays
<1>5. WantedOK'
  <2>1. ASSUME session # NoOne, ~excused, sid \notin revoked
        PROVE  writes[Len(writes)].key = Wanted
    BY <2>1 DEF CapabilitiesInv, WantedOK, Asking, Asked
  <2>2. Wanted' = Wanted
    BY DEF Wanted
  <2> QED BY <1>1, <1>2, <2>1, <2>2 DEF WantedOK, Asking, Asked
<1> QED BY <1>4, <1>5

LEMMA StepStarts ==
  ASSUME InstallationAssumption, CapabilitiesInv, WriteStarts
  PROVE  CapabilitiesInv'
<1> DEFINE w == Head(writes)
<1>1. /\ writes # <<>> /\ ~w.sent
      /\ UNCHANGED <<session, sid, pref, token, blocked, generation, rows,
                     revoked, late, orphaned, excused, changes, switches, faults>>
  BY DEF WriteStarts, clientVars, serverVars, bounds
<1>2. switches \in Nat /\ sid \in Nat /\ sid \in Sid
  BY DEF CapabilitiesInv, TypeOK, Sid
<1>3. CASE /\ ~Fenced(w)
           /\ writes' = <<[w EXCEPT !.sent = TRUE, !.sid = sid]>> \o Tail(writes)
           /\ UNCHANGED <<gateVars, auth>>
  <2> DEFINE r == [w EXCEPT !.sent = TRUE, !.sid = sid]
  <2>1. writes \in Seq(Request) /\ w \in Request
    BY <1>1, Tailed DEF CapabilitiesInv, TypeOK
  <2>2. /\ r \in Request /\ r.key = w.key /\ r.sid = sid /\ w.key \in Key
    BY <1>2, <2>1 DEF Request
  <2>3. w.key.who = session /\ session # NoOne
    BY <1>3, <2>2, Constants DEF Fenced
  <2> HIDE DEF r
  <2>4. writes' = <<r>> \o Tail(writes)
    BY <1>3 DEF r
  <2>5. /\ writes' \in Seq(Request) /\ writes' # <<>>
        /\ writes'[Len(writes')].key = writes[Len(writes)].key
        /\ \A i \in DOMAIN writes' :
             (i \in DOMAIN writes /\ writes'[i] = writes[i]) \/ writes'[i] = r
    BY <1>1, <2>1, <2>2, <2>4, Marked
  <2>6. NothingNewSent
    BY <1>1, <2>2, <2>3, <2>5 DEF NothingNewSent
  <2>7. SentBy' /\ SessionOK' /\ HeldOK'
    BY <1>1, <1>2, <1>3, <2>6, SentStays, SessionsStay
  <2>8. TypeOK'
    BY <1>1, <1>3, <2>5 DEF CapabilitiesInv, TypeOK, gateVars
  <2>9. GateOK' /\ NoteOK'
    BY <1>1, <1>3 DEF CapabilitiesInv, GateOK, NoteOK, gateVars
  <2>10. WantedOK'
    <3>1. Wanted' = Wanted
      BY <1>1 DEF Wanted
    <3> QED BY <1>1, <2>5, <3>1 DEF CapabilitiesInv, WantedOK, Asking, Asked
  <2> QED BY <2>7, <2>8, <2>9, <2>10 DEF CapabilitiesInv
<1>4. CASE Dequeue /\ Record(w.key, "unknown") /\ UNCHANGED ready
  <2>1. SentBy' /\ WantedOK'
    BY <1>1, <1>4, Done
  <2>2. /\ writes' \in Seq(Request) /\ w.key \in Key
        /\ auth' \in [phase : {"idle", "fenced", "ending"}, ahead : Nat,
                      target : Accounts \cup {NoOne}]
        /\ auth'.phase = auth.phase
    BY <1>1, <1>4, Dequeued
  <2>3. /\ gate' \in [success : Key \cup {NoKey}, permanent : Key \cup {NoKey},
                      attempt : Key \cup {NoKey}, waiting : BOOLEAN]
        /\ disk' \in Key \cup {NoKey} /\ NoteOK' /\ gate'.success = NoKey
    BY <1>4, <2>2, Recorded
  <2>4. SessionOK' /\ HeldOK'
    BY <1>1, <1>2, <2>2, SessionsStay
  <2>5. TypeOK'
    BY <1>1, <1>4, <2>2, <2>3 DEF CapabilitiesInv, TypeOK
  <2>6. GateOK'
    BY <2>3 DEF GateOK
  <2> QED BY <2>1, <2>3, <2>4, <2>5, <2>6 DEF CapabilitiesInv
<1> QED BY <1>3, <1>4 DEF WriteStarts

(* Only the same installation can rebind a token: a registration goes to   *)
(* the account of the request, and only that account gains one.            *)
LEMMA Upserting ==
  ASSUME InstallationAssumption, CapabilitiesInv, NEW k \in Key, NEW s, Upsert(k, s)
  PROVE  /\ rows' \in [Accounts -> Row] /\ rows'[k.who] = RowOf(k)
         /\ \A a \in Accounts : rows'[a].held => a = k.who \/ rows[a].held
<1>1. rows \in [Accounts -> Row] /\ k.who \in Accounts
      /\ k.token \in Tokens \cup {NoToken} /\ NoRow \in Row /\ ~NoRow.held
  BY Constants DEF CapabilitiesInv, TypeOK, Key
<1> DEFINE new == [token |-> k.token, enabled |-> k.enabled /\ k.token # NoToken,
                   held |-> TRUE]
           row(a) == IF a = k.who THEN new
                     ELSE IF k.token # NoToken /\ rows[a].token = k.token THEN NoRow
                     ELSE rows[a]
<1>2. (k.enabled /\ k.token # NoToken) \in BOOLEAN
  OBVIOUS
<1>3. new \in Row
  BY <1>1, <1>2 DEF Row
<1>4. new = RowOf(k)
  BY DEF RowOf
<1>5. rows' = [a \in Accounts |-> row(a)]
  BY DEF Upsert
<1> HIDE DEF new
<1>6. \A a \in Accounts : row(a) \in Row
  BY <1>1, <1>3
<1>7. \A a \in Accounts : row(a).held => a = k.who \/ rows[a].held
  BY <1>1
<1>8. row(k.who) = RowOf(k)
  BY <1>4
<1> HIDE DEF row
<1> QED BY <1>1, <1>5, <1>6, <1>7, <1>8

(* What the server admits leaves no registration behind a revocation. *)
LEMMA Admitted ==
  ASSUME InstallationAssumption, CapabilitiesInv, NEW k \in Key, NEW s,
         s <= sid, s \notin revoked,
         k.who \in orphaned \/ (s = sid /\ k.who = session),
         Upsert(k, s), UNCHANGED <<session, sid, revoked, orphaned, switches>>,
         auth'.phase = auth.phase
  PROVE  SessionOK' /\ HeldOK'
<1>1. \A a \in Accounts : rows'[a].held => a = k.who \/ rows[a].held
  BY Upserting
<1>2. HeldOK'
  BY <1>1 DEF CapabilitiesInv, HeldOK
<1>3. (sid \in revoked /\ session # NoOne) =>
        ~rows'[session].held \/ session \in orphaned
  <2>1. SUFFICES ASSUME sid \in revoked, session # NoOne, rows'[session].held
                 PROVE  session \in orphaned
    OBVIOUS
  <2>2. session \in Accounts
    BY <2>1 DEF CapabilitiesInv, TypeOK
  <2>3. CASE k.who = session
    BY <2>1, <2>3
  <2>4. CASE k.who # session
    BY <1>1, <2>1, <2>2, <2>4 DEF CapabilitiesInv, SessionOK
  <2> QED BY <2>3, <2>4
<1> QED BY <1>2, <1>3 DEF CapabilitiesInv, SessionOK

LEMMA StepAnswered ==
  ASSUME InstallationAssumption, CapabilitiesInv, WriteAnswered
  PROVE  CapabilitiesInv'
<1> DEFINE w == Head(writes)
           k == w.key
           s == w.sid
<1>1. /\ writes # <<>> /\ w.sent /\ Dequeue /\ Record(k, Answer(k, s))
      /\ IF Admits(k, s) THEN Upsert(k, s) ELSE UNCHANGED rows
      /\ excused' = (excused /\ ~(Admits(k, s) /\ k = Wanted /\ Len(writes) = 1))
      /\ UNCHANGED <<session, sid, pref, token, ready, blocked, generation,
                     revoked, late, orphaned, changes, switches, faults>>
  BY DEF WriteAnswered, clientVars, bounds
<1>2. /\ writes' \in Seq(Request) /\ k \in Key /\ w \in Request
      /\ w = writes[1] /\ 1 \in DOMAIN writes
      /\ auth' \in [phase : {"idle", "fenced", "ending"}, ahead : Nat,
                    target : Accounts \cup {NoOne}]
      /\ auth'.phase = auth.phase
      /\ Len(writes) = 1 => writes' = <<>>
  BY <1>1, Dequeued
<1>3. SentOK(w) /\ k.who \in Accounts
  BY <1>1, <1>2, Constants DEF CapabilitiesInv, SentBy
<1> HIDE DEF k, s
<1>4. /\ gate' \in [success : Key \cup {NoKey}, permanent : Key \cup {NoKey},
                    attempt : Key \cup {NoKey}, waiting : BOOLEAN]
      /\ disk' \in Key \cup {NoKey} /\ NoteOK'
      /\ gate'.success = IF Answer(k, s) = "upserted" THEN k ELSE NoKey
  BY <1>1, <1>2, Recorded
<1>5. Answer(k, s) = "upserted" <=> Admits(k, s)
  BY DEF Answer, Admits
<1>6. switches \in Nat /\ sid \in Nat /\ excused \in BOOLEAN
  BY DEF CapabilitiesInv, TypeOK, Sid
<1>7. SessionOK' /\ HeldOK' /\ rows' \in [Accounts -> Row] /\ GateOK'
  <2>1. CASE Admits(k, s)
    <3>1. Upsert(k, s) /\ s \notin revoked /\ gate'.success = k
      BY <1>1, <1>4, <1>5, <2>1 DEF Admits
    <3>2. s <= sid /\ (k.who \in orphaned \/ (s = sid /\ k.who = session))
      BY <1>3, <3>1 DEF SentOK, k, s
    <3>3. SessionOK' /\ HeldOK'
      BY <1>1, <1>2, <3>1, <3>2, Admitted
    <3>4. rows' \in [Accounts -> Row] /\ rows'[k.who] = RowOf(k)
      BY <1>2, <3>1, Upserting
    <3> QED BY <3>1, <3>3, <3>4 DEF GateOK
  <2>2. CASE ~Admits(k, s)
    <3>1. UNCHANGED rows /\ gate'.success = NoKey
      BY <1>1, <1>4, <1>5, <2>2
    <3>2. SessionOK' /\ HeldOK'
      BY <1>1, <1>2, <1>6, <3>1, SessionsStay
    <3> QED BY <3>1, <3>2 DEF GateOK, CapabilitiesInv, TypeOK
  <2> QED BY <2>1, <2>2
<1>8. SentBy' /\ WantedOK'
  <2> DEFINE last == Admits(k, s) /\ k = Wanted /\ Len(writes) = 1
  <2>1. NothingNewSent
    <3>1. \A i \in DOMAIN writes' : \E j \in DOMAIN writes : writes'[i] = writes[j]
      BY <1>1, Dequeued
    <3> QED BY <1>1, <3>1 DEF NothingNewSent
  <2>2. SentBy'
    BY <1>1, <1>6, <2>1, SentStays
  <2>3. CASE last
    <3>1. writes' = <<>> /\ gate'.success = Wanted
      BY <1>2, <1>4, <1>5, <2>3
    <3>2. Wanted' = Wanted
      BY <1>1 DEF Wanted
    <3>3. WantedOK'
      BY <3>1, <3>2 DEF WantedOK, Asked
    <3> QED BY <2>2, <3>3
  <2>4. CASE ~last
    <3>1. excused' = excused
      <4>1. excused' = (excused /\ ~last)
        BY <1>1
      <4> HIDE DEF last
      <4> QED BY <1>6, <2>4, <4>1
    <3>2. late' = late /\ Record(Head(writes).key, Answer(k, s))
      BY <1>1 DEF k
    <3> QED BY <1>1, <3>1, <3>2, Done
  <2> QED BY <2>3, <2>4
<1>9. TypeOK'
  <2>1. excused' \in BOOLEAN
    <3> DEFINE last == Admits(k, s) /\ k = Wanted /\ Len(writes) = 1
    <3>1. excused' = (excused /\ ~last)
      BY <1>1
    <3> HIDE DEF last
    <3> QED BY <1>6, <3>1
  <2> QED BY <1>1, <1>2, <1>4, <1>7, <2>1 DEF CapabilitiesInv, TypeOK
<1> QED BY <1>4, <1>7, <1>8, <1>9 DEF CapabilitiesInv

LEMMA StepTimesOut ==
  ASSUME InstallationAssumption, CapabilitiesInv, WriteTimesOut
  PROVE  CapabilitiesInv'
<1> DEFINE w == Head(writes)
<1>1. /\ writes # <<>> /\ w.sent /\ Dequeue /\ Record(w.key, "unknown")
      /\ late' = late \cup {[key |-> w.key, sid |-> w.sid]}
      /\ faults < MaxFaults /\ faults' = faults + 1
      /\ UNCHANGED <<session, sid, pref, token, ready, blocked, generation, rows,
                     revoked, orphaned, excused, changes, switches>>
  BY DEF WriteTimesOut, Fault, clientVars
<1>2. SentBy' /\ WantedOK'
  BY <1>1, Done
<1>3. /\ writes' \in Seq(Request) /\ w.key \in Key /\ w \in Request
      /\ auth' \in [phase : {"idle", "fenced", "ending"}, ahead : Nat,
                    target : Accounts \cup {NoOne}]
      /\ auth'.phase = auth.phase
  BY <1>1, Dequeued
<1>4. /\ gate' \in [success : Key \cup {NoKey}, permanent : Key \cup {NoKey},
                    attempt : Key \cup {NoKey}, waiting : BOOLEAN]
      /\ disk' \in Key \cup {NoKey} /\ NoteOK' /\ gate'.success = NoKey
  BY <1>1, <1>3, Recorded
<1>5. SessionOK' /\ HeldOK'
  <2>1. switches \in Nat
    BY DEF CapabilitiesInv, TypeOK
  <2> QED BY <1>1, <1>3, <2>1, SessionsStay
<1>6. late' \subseteq [key : Key, sid : Sid]
  BY <1>1, <1>3 DEF CapabilitiesInv, TypeOK, Request
<1>7. faults' \in 0 .. MaxFaults
  BY <1>1 DEF CapabilitiesInv, TypeOK, InstallationAssumption
<1>8. TypeOK'
  BY <1>1, <1>3, <1>4, <1>6, <1>7 DEF CapabilitiesInv, TypeOK
<1>9. GateOK'
  BY <1>4 DEF GateOK
<1> QED BY <1>2, <1>4, <1>5, <1>8, <1>9 DEF CapabilitiesInv

LEMMA StepLate ==
  ASSUME InstallationAssumption, CapabilitiesInv, LateExecutes
  PROVE  CapabilitiesInv'
<1>1. PICK w \in late :
        /\ late' = late \ {w}
        /\ IF Admits(w.key, w.sid)
           THEN Upsert(w.key, w.sid) /\ excused' = TRUE
           ELSE UNCHANGED <<rows, excused>>
        /\ UNCHANGED <<session, sid, pref, token, gate, ready, disk, writes,
                       blocked, generation, auth, revoked, orphaned, changes,
                       switches, faults>>
  BY DEF LateExecutes, clientVars, gateVars, fenceVars, bounds
<1>2. /\ w.key \in Key /\ w.sid \in Sid /\ SentOK(w) /\ switches \in Nat
      /\ sid \in Nat
  BY DEF CapabilitiesInv, TypeOK, SentBy, Sid
<1>3. NothingNewSent
  BY <1>1 DEF NothingNewSent
<1>4. SentBy'
  BY <1>1, <1>2, <1>3, SentStays
<1>5. NoteOK' /\ Wanted' = Wanted
  BY <1>1 DEF CapabilitiesInv, NoteOK, Wanted
<1>6. CASE Admits(w.key, w.sid)
  <2>1. Upsert(w.key, w.sid) /\ excused' = TRUE /\ w.sid \notin revoked
    BY <1>1, <1>6 DEF Admits
  <2>2. SessionOK' /\ HeldOK'
    BY <1>1, <1>2, <2>1, Admitted DEF SentOK
  <2>3. rows' \in [Accounts -> Row]
    BY <1>2, <2>1, Upserting
  <2>4. TypeOK'
    BY <1>1, <2>1, <2>3 DEF CapabilitiesInv, TypeOK
  <2>5. GateOK' /\ WantedOK'
    BY <2>1 DEF GateOK, WantedOK
  <2> QED BY <1>4, <1>5, <2>2, <2>4, <2>5 DEF CapabilitiesInv
<1>7. CASE ~Admits(w.key, w.sid)
  <2>1. UNCHANGED <<rows, excused>>
    BY <1>1, <1>7
  <2>2. SessionOK' /\ HeldOK'
    BY <1>1, <1>2, <2>1, SessionsStay
  <2>3. TypeOK'
    BY <1>1, <2>1 DEF CapabilitiesInv, TypeOK
  <2>4. GateOK'
    BY <1>1, <2>1 DEF CapabilitiesInv, GateOK
  <2>5. WantedOK'
    BY <1>1, <1>5, <2>1 DEF CapabilitiesInv, WantedOK, Asking, Asked
  <2> QED BY <1>4, <1>5, <2>2, <2>3, <2>4, <2>5 DEF CapabilitiesInv
<1> QED BY <1>6, <1>7

-----------------------------------------------------------------------------
(* Changes of account *)

LEMMA StepChange ==
  ASSUME InstallationAssumption, CapabilitiesInv,
         NEW a \in Accounts \cup {NoOne}, ChangeAccount(a)
  PROVE  CapabilitiesInv'
<1>1. /\ switches < MaxSwitches /\ switches' = switches + 1
      /\ blocked' = TRUE /\ generation' = generation + 1
      /\ auth' = [phase |-> "fenced", ahead |-> Len(writes), target |-> a]
      /\ UNCHANGED <<session, sid, pref, token, gate, ready, disk, writes, rows,
                     revoked, late, orphaned, excused, changes, faults>>
  BY DEF ChangeAccount, clientVars, gateVars, serverVars
<1>2. switches \in 0 .. MaxSwitches /\ sid \in Nat /\ MaxSwitches \in Nat
      /\ Len(writes) \in Nat
  BY DEF CapabilitiesInv, TypeOK, Sid, InstallationAssumption
<1>3. switches' \in 0 .. MaxSwitches /\ switches' >= switches /\ switches' \in Nat
  BY <1>1, <1>2
<1>4. auth'.phase = "fenced"
  BY <1>1
<1>5. auth' \in [phase : {"idle", "fenced", "ending"}, ahead : Nat,
                 target : Accounts \cup {NoOne}]
  BY <1>1, <1>2
<1>6. TypeOK'
  BY <1>1, <1>3, <1>5 DEF CapabilitiesInv, TypeOK
<1>7. NothingNewSent
  BY <1>1 DEF NothingNewSent
<1>8. SentBy' /\ SessionOK' /\ HeldOK'
  BY <1>1, <1>2, <1>3, <1>4, <1>7, SentStays, SessionsStay
<1>9. GateOK' /\ NoteOK'
  BY <1>1 DEF CapabilitiesInv, GateOK, NoteOK
<1>10. WantedOK'
  <2>1. Wanted' = Wanted
    BY <1>1 DEF Wanted
  <2> QED BY <1>1, <2>1 DEF CapabilitiesInv, WantedOK, Asking, Asked
<1> QED BY <1>6, <1>8, <1>9, <1>10 DEF CapabilitiesInv

(* The session is revoked and its registration is gone, whoever learns it. *)
LEMMA Revoked ==
  ASSUME InstallationAssumption, CapabilitiesInv, session # NoOne, RevokeAtServer,
         UNCHANGED <<session, sid, pref, token, writes, late, orphaned, switches>>,
         auth.phase # "idle"
  PROVE  /\ SentBy' /\ SessionOK' /\ HeldOK' /\ WantedOK'
         /\ rows' \in [Accounts -> Row] /\ revoked' \subseteq Sid
<1>1. /\ session \in Accounts /\ sid \in Sid /\ sid \in Nat
      /\ rows \in [Accounts -> Row] /\ revoked \subseteq Sid
  BY DEF CapabilitiesInv, TypeOK, Sid
<1>2. /\ revoked' = revoked \cup {sid} /\ rows' = [rows EXCEPT ![session] = NoRow]
  BY DEF RevokeAtServer
<1>3. /\ rows' \in [Accounts -> Row] /\ revoked' \subseteq Sid
      /\ ~rows'[session].held
      /\ \A a \in Accounts : rows'[a].held => rows[a].held
  BY <1>1, <1>2, Constants
<1>4. NothingNewSent
  BY DEF NothingNewSent
<1>5. SentBy'
  BY <1>1, <1>2, <1>4, SentStays
<1>6. HeldOK'
  BY <1>3 DEF CapabilitiesInv, HeldOK
<1>7. SessionOK'
  BY <1>1, <1>2, <1>3 DEF CapabilitiesInv, SessionOK
<1>8. WantedOK'
  BY <1>2 DEF WantedOK
<1> QED BY <1>3, <1>5, <1>6, <1>7, <1>8

LEMMA StepRevoke ==
  ASSUME InstallationAssumption, CapabilitiesInv, RevokeCapabilities
  PROVE  CapabilitiesInv'
<1>1. /\ auth.phase = "fenced"
      /\ UNCHANGED <<session, sid, pref, token, writes, blocked, generation, late,
                     orphaned, changes, switches>>
  BY DEF RevokeCapabilities, clientVars
<1>2. /\ auth \in [phase : {"idle", "fenced", "ending"}, ahead : Nat,
                   target : Accounts \cup {NoOne}]
      /\ faults \in 0 .. MaxFaults /\ switches \in Nat /\ sid \in Nat
  BY DEF CapabilitiesInv, TypeOK, Sid
<1>3. NothingNewSent
  BY <1>1 DEF NothingNewSent
<1>4. [auth EXCEPT !.phase = "ending"]
        \in [phase : {"idle", "fenced", "ending"}, ahead : Nat,
             target : Accounts \cup {NoOne}]
  BY <1>2
<1>5. Idle \in [phase : {"idle", "fenced", "ending"}, ahead : Nat,
                target : Accounts \cup {NoOne}] /\ Idle.phase = "idle"
  BY DEF Idle
<1>6. Wanted' = Wanted
  BY <1>1 DEF Wanted
<1>7. CASE /\ session = NoOne /\ auth' = [auth EXCEPT !.phase = "ending"]
           /\ UNCHANGED <<rows, revoked, gateVars, excused, faults>>
  <2>1. UNCHANGED <<rows, revoked, gate, ready, disk, excused, faults>>
    BY <1>7 DEF gateVars
  <2>2. SentBy'
    BY <1>1, <1>2, <1>3, <2>1, SentStays
  <2>3. SessionOK' /\ HeldOK'
    BY <1>1, <1>7, <2>1 DEF CapabilitiesInv, SessionOK, HeldOK
  <2>4. TypeOK'
    BY <1>1, <1>4, <1>7, <2>1 DEF CapabilitiesInv, TypeOK
  <2>5. GateOK' /\ NoteOK'
    BY <1>1, <2>1 DEF CapabilitiesInv, GateOK, NoteOK
  <2>6. WantedOK'
    BY <1>1, <1>7 DEF WantedOK
  <2> QED BY <2>2, <2>3, <2>4, <2>5, <2>6 DEF CapabilitiesInv
<1>8. CASE /\ session # NoOne /\ RevokeAtServer
           /\ auth' = [auth EXCEPT !.phase = "ending"]
           /\ gate' = FreshGate /\ disk' = NoKey
           /\ UNCHANGED <<ready, excused, faults>>
  <2>1. /\ SentBy' /\ SessionOK' /\ HeldOK' /\ WantedOK'
        /\ rows' \in [Accounts -> Row] /\ revoked' \subseteq Sid
    BY <1>1, <1>8, Revoked
  <2>2. TypeOK'
    BY <1>1, <1>4, <1>8, <2>1, Constants DEF CapabilitiesInv, TypeOK
  <2>3. GateOK' /\ NoteOK'
    BY <1>8, Constants DEF GateOK, NoteOK
  <2> QED BY <2>1, <2>2, <2>3 DEF CapabilitiesInv
<1>9. CASE /\ session # NoOne /\ Fault /\ auth' = Idle
           /\ \/ RevokeAtServer /\ excused' = TRUE
              \/ UNCHANGED <<rows, revoked, excused>>
           /\ UNCHANGED gateVars
  <2>1. UNCHANGED <<gate, ready, disk>> /\ faults' \in 0 .. MaxFaults
    BY <1>2, <1>9 DEF gateVars, Fault, InstallationAssumption
  <2>2. NoteOK'
    BY <2>1 DEF CapabilitiesInv, NoteOK
  <2>3. CASE RevokeAtServer /\ excused' = TRUE
    <3>1. /\ SentBy' /\ SessionOK' /\ HeldOK' /\ WantedOK'
          /\ rows' \in [Accounts -> Row] /\ revoked' \subseteq Sid
      BY <1>1, <1>9, <2>3, Revoked
    <3>2. TypeOK'
      BY <1>1, <1>5, <1>9, <2>1, <2>3, <3>1 DEF CapabilitiesInv, TypeOK
    <3>3. GateOK'
      BY <2>3 DEF GateOK
    <3> QED BY <2>2, <3>1, <3>2, <3>3 DEF CapabilitiesInv
  <2>4. CASE UNCHANGED <<rows, revoked, excused>>
    <3>1. SentBy' /\ SessionOK' /\ HeldOK'
      BY <1>1, <1>2, <1>3, <1>5, <1>9, <2>4, SentStays, SessionsStay
    <3>2. TypeOK'
      BY <1>1, <1>5, <1>9, <2>1, <2>4 DEF CapabilitiesInv, TypeOK
    <3>3. GateOK'
      BY <2>1, <2>4 DEF CapabilitiesInv, GateOK
    <3>4. WantedOK'
      BY <1>1, <1>6, <2>1, <2>4 DEF CapabilitiesInv, WantedOK, Asking, Asked
    <3> QED BY <2>2, <3>1, <3>2, <3>3, <3>4 DEF CapabilitiesInv
  <2> QED BY <1>9, <2>3, <2>4
<1> QED BY <1>7, <1>8, <1>9 DEF RevokeCapabilities

LEMMA StepReplaced ==
  ASSUME InstallationAssumption, CapabilitiesInv, SessionReplaced
  PROVE  CapabilitiesInv'
<1>1. /\ auth.phase = "ending" /\ auth' = Idle /\ session' = auth.target
      /\ UNCHANGED <<pref, token, gate, ready, disk, rows, revoked, late, orphaned,
                     changes, switches, faults>>
  BY DEF SessionReplaced, gateVars, serverVars, bounds
<1>2. /\ auth.target \in Accounts \cup {NoOne} /\ token \in Tokens \cup {NoToken}
      /\ pref \in BOOLEAN /\ generation \in Nat /\ sid \in Nat
      /\ switches \in 0 .. MaxSwitches
      /\ session = NoOne \/ sid \in revoked
      /\ \A a \in Accounts : rows[a].held => a \in orphaned
  <2>1. session = NoOne \/ sid \in revoked
    BY <1>1 DEF CapabilitiesInv, SessionOK
  <2>2. \A a \in Accounts : rows[a].held => a \in orphaned
    <3>1. session # NoOne => ~rows[session].held \/ session \in orphaned
      BY <2>1 DEF CapabilitiesInv, SessionOK
    <3>2. \A a \in Accounts : a # NoOne
      BY DEF InstallationAssumption
    <3> QED BY <3>1, <3>2 DEF CapabilitiesInv, HeldOK
  <2>3. /\ auth.target \in Accounts \cup {NoOne} /\ token \in Tokens \cup {NoToken}
        /\ pref \in BOOLEAN /\ generation \in Nat /\ sid \in Nat
        /\ switches \in 0 .. MaxSwitches
    BY DEF CapabilitiesInv, TypeOK, Sid
  <2> QED BY <2>1, <2>2, <2>3
<1>3. /\ Idle.phase = "idle"
      /\ Idle \in [phase : {"idle", "fenced", "ending"}, ahead : Nat,
                   target : Accounts \cup {NoOne}]
  BY DEF Idle
<1>4. HeldOK' /\ NoteOK'
  BY <1>1, <1>2 DEF CapabilitiesInv, HeldOK, NoteOK
<1>5. CASE auth.target = NoOne
  <2>1. UNCHANGED <<sid, blocked, generation, writes, excused>>
    BY <1>5 DEF SessionReplaced
  <2>2. NothingNewSent
    BY <1>1, <2>1 DEF NothingNewSent
  <2>3. SentBy'
    BY <1>1, <1>2, <2>1, <2>2, SentStays
  <2>4. SessionOK'
    BY <1>1, <1>3, <1>5, <2>1 DEF CapabilitiesInv, SessionOK
  <2>5. TypeOK'
    BY <1>1, <1>2, <1>3, <2>1 DEF CapabilitiesInv, TypeOK
  <2>6. GateOK' /\ WantedOK'
    BY <1>1, <1>5, <2>1 DEF CapabilitiesInv, GateOK, WantedOK
  <2> QED BY <1>4, <2>3, <2>4, <2>5, <2>6 DEF CapabilitiesInv
<1>6. CASE auth.target # NoOne
  <2>1. /\ sid' = sid + 1 /\ blocked' = FALSE /\ UNCHANGED generation
        /\ Offer([who |-> auth.target, token |-> token, enabled |-> pref])
    BY <1>6 DEF SessionReplaced
  <2>2. Wanted' = [who |-> auth.target, token |-> token, enabled |-> pref]
    BY <1>1 DEF Wanted
  <2>3. /\ writes' \in Seq(Request) /\ excused' \in BOOLEAN
        /\ NothingNewSent /\ GateOK' /\ WantedOK'
    BY <1>1, <1>2, <2>1, <2>2, OfferWanted
  <2>4. SentBy'
    BY <1>1, <1>2, <2>1, <2>3, SentStays
  <2>5. sid < switches /\ sid' \in Sid /\ sid' <= switches
    BY <1>1, <1>2, <2>1 DEF CapabilitiesInv, SessionOK, Sid,
      InstallationAssumption
  <2>6. SessionOK'
    <3>1. sid' \notin revoked /\ revoked \subseteq 0 .. sid'
      BY <1>2, <2>1 DEF CapabilitiesInv, SessionOK
    <3> QED BY <1>1, <1>3, <2>5, <3>1 DEF SessionOK
  <2>7. TypeOK'
    BY <1>1, <1>2, <1>3, <2>1, <2>3, <2>5 DEF CapabilitiesInv, TypeOK
  <2> QED BY <1>4, <2>3, <2>4, <2>6, <2>7 DEF CapabilitiesInv
<1> QED BY <1>5, <1>6

LEMMA StepFails ==
  ASSUME InstallationAssumption, CapabilitiesInv, ChangeFails
  PROVE  CapabilitiesInv'
<1>1. /\ auth.phase = "ending" /\ auth' = Idle
      /\ session' = (IF auth.target = NoOne THEN session ELSE NoOne)
      /\ faults < MaxFaults /\ faults' = faults + 1
      /\ UNCHANGED <<sid, pref, token, gate, ready, disk, writes, blocked,
                     generation, rows, revoked, late, orphaned, excused, changes,
                     switches>>
  BY DEF ChangeFails, Fault, gateVars, serverVars
<1>2. /\ Idle.phase = "idle"
      /\ Idle \in [phase : {"idle", "fenced", "ending"}, ahead : Nat,
                   target : Accounts \cup {NoOne}]
  BY DEF Idle
<1>3. session = NoOne \/ sid \in revoked
  BY <1>1 DEF CapabilitiesInv, SessionOK
<1>4. faults' \in 0 .. MaxFaults /\ sid \in Nat
  BY <1>1 DEF CapabilitiesInv, TypeOK, Sid, InstallationAssumption
<1>5. TypeOK'
  BY <1>1, <1>2, <1>4 DEF CapabilitiesInv, TypeOK
<1>6. NothingNewSent
  BY <1>1 DEF NothingNewSent
<1>7. SentBy'
  BY <1>1, <1>3, <1>4, <1>6, SentStays
<1>8. HeldOK'
  <2>1. session # NoOne => ~rows[session].held \/ session \in orphaned
    BY <1>3 DEF CapabilitiesInv, SessionOK
  <2>2. \A a \in Accounts : a # NoOne
    BY DEF InstallationAssumption
  <2> QED BY <1>1, <2>1, <2>2 DEF CapabilitiesInv, HeldOK
<1>9. SessionOK'
  BY <1>1, <1>2 DEF CapabilitiesInv, SessionOK
<1>10. GateOK' /\ NoteOK'
  BY <1>1 DEF CapabilitiesInv, GateOK, NoteOK
<1>11. WantedOK'
  BY <1>1, <1>3 DEF WantedOK
<1> QED BY <1>5, <1>7, <1>8, <1>9, <1>10, <1>11 DEF CapabilitiesInv

LEMMA StepRefreshed ==
  ASSUME InstallationAssumption, CapabilitiesInv, TokenRefreshed
  PROVE  CapabilitiesInv'
<1>1. /\ blocked' = FALSE /\ faults < MaxFaults /\ faults' = faults + 1
      /\ UNCHANGED <<session, sid, pref, token, gate, ready, disk, writes,
                     generation, auth, rows, revoked, late, orphaned, excused,
                     changes, switches>>
  BY DEF TokenRefreshed, Fault, clientVars, gateVars, serverVars
<1>2. faults' \in 0 .. MaxFaults /\ sid \in Nat /\ switches \in Nat
  BY <1>1 DEF CapabilitiesInv, TypeOK, Sid, InstallationAssumption
<1>3. TypeOK'
  BY <1>1, <1>2 DEF CapabilitiesInv, TypeOK
<1>4. NothingNewSent
  BY <1>1 DEF NothingNewSent
<1>5. SentBy' /\ SessionOK' /\ HeldOK'
  BY <1>1, <1>2, <1>4, SentStays, SessionsStay
<1>6. GateOK' /\ NoteOK'
  BY <1>1 DEF CapabilitiesInv, GateOK, NoteOK
<1>7. WantedOK'
  <2>1. Wanted' = Wanted
    BY <1>1 DEF Wanted
  <2> QED BY <1>1, <2>1 DEF CapabilitiesInv, WantedOK, Asking, Asked
<1> QED BY <1>3, <1>5, <1>6, <1>7 DEF CapabilitiesInv

LEMMA StepLost ==
  ASSUME InstallationAssumption, CapabilitiesInv, SessionLost
  PROVE  CapabilitiesInv'
<1>1. /\ session # NoOne /\ session' = NoOne
      /\ orphaned' = orphaned \cup {session}
      /\ switches < MaxSwitches /\ switches' = switches + 1
      /\ UNCHANGED <<sid, pref, token, gate, ready, disk, writes, blocked,
                     generation, auth, rows, revoked, late, excused, changes,
                     faults>>
  BY DEF SessionLost, gateVars, fenceVars, serverVars
<1>2. /\ session \in Accounts /\ sid \in Nat /\ switches' \in 0 .. MaxSwitches
      /\ switches \in Nat
  BY <1>1 DEF CapabilitiesInv, TypeOK, Sid, InstallationAssumption
<1>3. orphaned' \subseteq Accounts
  BY <1>1, <1>2 DEF CapabilitiesInv, TypeOK
<1>4. TypeOK'
  BY <1>1, <1>2, <1>3 DEF CapabilitiesInv, TypeOK
<1>5. NothingNewSent
  BY <1>1 DEF NothingNewSent
<1>6. SentBy'
  BY <1>1, <1>2, <1>5, SentStays
<1>7. HeldOK'
  BY <1>1 DEF CapabilitiesInv, HeldOK
<1>8. SessionOK'
  BY <1>1, <1>2 DEF CapabilitiesInv, SessionOK
<1>9. GateOK' /\ NoteOK' /\ WantedOK'
  BY <1>1 DEF CapabilitiesInv, GateOK, NoteOK, WantedOK
<1> QED BY <1>4, <1>6, <1>7, <1>8, <1>9 DEF CapabilitiesInv

LEMMA StepRestart ==
  ASSUME InstallationAssumption, CapabilitiesInv, Restart
  PROVE  CapabilitiesInv'
<1>1. /\ token' = NoToken /\ gate' = FreshGate /\ ready' = FALSE
      /\ writes' = <<>> /\ blocked' = FALSE /\ generation' = 0 /\ auth' = Idle
      /\ late' = late \cup {[key |-> w.key, sid |-> w.sid] :
                            w \in {writes[i] : i \in {j \in 1 .. Len(writes) :
                                                      writes[j].sent}}}
      /\ excused' = TRUE /\ faults < MaxFaults /\ faults' = faults + 1
      /\ UNCHANGED <<session, sid, pref, disk, rows, revoked, orphaned, changes,
                     switches>>
  BY DEF Restart, Fault
<1>2. /\ Idle.phase = "idle"
      /\ Idle \in [phase : {"idle", "fenced", "ending"}, ahead : Nat,
                   target : Accounts \cup {NoOne}]
  BY DEF Idle
<1>3. faults' \in 0 .. MaxFaults /\ sid \in Nat /\ switches \in Nat
  BY <1>1 DEF CapabilitiesInv, TypeOK, Sid, InstallationAssumption
<1>4. writes \in Seq(Request)
  BY DEF CapabilitiesInv, TypeOK
<1>5. \A w \in late' : \/ w \in late
                       \/ \E j \in DOMAIN writes :
                            w = [key |-> writes[j].key, sid |-> writes[j].sid]
                            /\ writes[j].sent
  BY <1>1, <1>4
<1>6. late' \subseteq [key : Key, sid : Sid]
  <2>1. \A j \in DOMAIN writes : writes[j] \in Request
    BY <1>4
  <2>2. \A r \in Request : r.key \in Key /\ r.sid \in Sid
    BY Zenon DEF Request
  <2> QED BY <1>5, <2>1, <2>2 DEF CapabilitiesInv, TypeOK
<1>7. writes' \in Seq(Request) /\ ~\E i \in DOMAIN writes' : TRUE
  BY <1>1
<1>8. NothingNewSent
  BY <1>5, <1>7 DEF NothingNewSent
<1>9. SentBy' /\ SessionOK' /\ HeldOK'
  BY <1>1, <1>2, <1>3, <1>8, SentStays, SessionsStay
<1>10. TypeOK'
  BY <1>1, <1>2, <1>3, <1>6, <1>7, Constants DEF CapabilitiesInv, TypeOK
<1>11. GateOK' /\ NoteOK' /\ WantedOK'
  BY <1>1, Constants DEF GateOK, NoteOK, WantedOK
<1> QED BY <1>9, <1>10, <1>11 DEF CapabilitiesInv

LEMMA StepHydrate ==
  ASSUME InstallationAssumption, CapabilitiesInv, Hydrate
  PROVE  CapabilitiesInv'
<1>1. /\ ~ready /\ ready' = TRUE
      /\ \/ gate' = [gate EXCEPT !.permanent = disk] /\ UNCHANGED disk
         \/ disk' = NoKey /\ UNCHANGED gate
      /\ UNCHANGED <<session, sid, pref, token, writes, blocked, generation, auth,
                     rows, revoked, late, orphaned, excused, changes, switches,
                     faults>>
  BY DEF Hydrate, clientVars, fenceVars, serverVars, bounds
<1>2. sid \in Nat /\ switches \in Nat /\ disk \in Key \cup {NoKey}
      /\ gate \in [success : Key \cup {NoKey}, permanent : Key \cup {NoKey},
                   attempt : Key \cup {NoKey}, waiting : BOOLEAN]
  BY DEF CapabilitiesInv, TypeOK, Sid
<1>3. /\ gate' \in [success : Key \cup {NoKey}, permanent : Key \cup {NoKey},
                    attempt : Key \cup {NoKey}, waiting : BOOLEAN]
      /\ disk' \in Key \cup {NoKey}
      /\ gate'.success = gate.success /\ gate'.waiting = gate.waiting
      /\ gate.permanent = NoKey \/ gate'.permanent = gate.permanent
  BY <1>1, <1>2 DEF CapabilitiesInv, NoteOK
<1>4. TypeOK'
  BY <1>1, <1>3 DEF CapabilitiesInv, TypeOK
<1>5. NothingNewSent
  BY <1>1 DEF NothingNewSent
<1>6. SentBy' /\ SessionOK' /\ HeldOK'
  BY <1>1, <1>2, <1>5, SentStays, SessionsStay
<1>7. GateOK' /\ NoteOK'
  BY <1>1, <1>3 DEF CapabilitiesInv, GateOK, NoteOK
<1>8. WantedOK'
  <2>1. Wanted' = Wanted /\ (session # NoOne => Wanted # NoKey)
    BY <1>1 DEF Wanted, NoKey
  <2> QED BY <1>1, <1>3, <2>1 DEF CapabilitiesInv, WantedOK, Asking, Asked
<1> QED BY <1>4, <1>6, <1>7, <1>8 DEF CapabilitiesInv

LEMMA StepNothing ==
  ASSUME InstallationAssumption, CapabilitiesInv, UNCHANGED vars
  PROVE  CapabilitiesInv'
<1>1. UNCHANGED <<session, sid, pref, token, gate, ready, disk, writes, blocked,
                  generation, auth, rows, revoked, late, orphaned, excused,
                  changes, switches, faults>>
  BY DEF vars, clientVars, gateVars, fenceVars, serverVars, bounds
<1>2. sid \in Nat /\ switches \in Nat
  BY DEF CapabilitiesInv, TypeOK, Sid
<1>3. TypeOK'
  BY <1>1 DEF CapabilitiesInv, TypeOK
<1>4. NothingNewSent
  BY <1>1 DEF NothingNewSent
<1>5. SentBy' /\ SessionOK' /\ HeldOK'
  BY <1>1, <1>2, <1>4, SentStays, SessionsStay
<1>6. GateOK' /\ NoteOK'
  BY <1>1 DEF CapabilitiesInv, GateOK, NoteOK
<1>7. WantedOK'
  <2>1. Wanted' = Wanted
    BY <1>1 DEF Wanted
  <2> QED BY <1>1, <2>1 DEF CapabilitiesInv, WantedOK, Asking, Asked
<1> QED BY <1>3, <1>5, <1>6, <1>7 DEF CapabilitiesInv

-----------------------------------------------------------------------------
(* The theorems *)

LEMMA InitCapabilities ==
  ASSUME InstallationAssumption, Init PROVE CapabilitiesInv
<1>1. writes \in Seq(Request) /\ ~\E i \in DOMAIN writes : TRUE
  BY DEF Init
<1>2. /\ Idle.phase = "idle"
      /\ Idle \in [phase : {"idle", "fenced", "ending"}, ahead : Nat,
                   target : Accounts \cup {NoOne}]
  BY DEF Idle
<1>3. rows \in [Accounts -> Row] /\ \A a \in Accounts : ~rows[a].held
  BY Constants DEF Init
<1>4. /\ changes \in 0 .. MaxChanges /\ switches \in 0 .. MaxSwitches
      /\ faults \in 0 .. MaxFaults
  BY DEF Init, InstallationAssumption
<1>5. TypeOK
  BY <1>1, <1>2, <1>3, <1>4, Constants DEF Init, TypeOK
<1>6. SentBy /\ SessionOK /\ HeldOK
  BY <1>1, <1>2, <1>3 DEF Init, SentBy, SessionOK, HeldOK
<1>7. GateOK /\ NoteOK /\ WantedOK
  BY Constants DEF Init, GateOK, NoteOK, WantedOK
<1> QED BY <1>5, <1>6, <1>7 DEF CapabilitiesInv

LEMMA NextCapabilities ==
  ASSUME InstallationAssumption, CapabilitiesInv, [Next]_vars
  PROVE  CapabilitiesInv'
<1>1. CASE \E t \in Tokens : NativeToken(t)
  BY <1>1, StepToken
<1>2. CASE TogglePolicy \/ BackoffElapsed \/ WriteStarts \/ WriteAnswered
  BY <1>2, StepToggle, StepBackoff, StepStarts, StepAnswered
<1>3. CASE WriteTimesOut \/ LateExecutes \/ RevokeCapabilities \/ SessionReplaced
  BY <1>3, StepTimesOut, StepLate, StepRevoke, StepReplaced
<1>4. CASE \E a \in Accounts \cup {NoOne} : ChangeAccount(a)
  BY <1>4, StepChange
<1>5. CASE ChangeFails \/ TokenRefreshed \/ SessionLost \/ Restart \/ Hydrate
  BY <1>5, StepFails, StepRefreshed, StepLost, StepRestart, StepHydrate
<1>6. CASE UNCHANGED vars
  BY <1>6, StepNothing
<1> QED BY <1>1, <1>2, <1>3, <1>4, <1>5, <1>6 DEF Next

(* The invariant holds in every state of every behaviour. *)
THEOREM CapabilitiesCorrect ==
  ASSUME InstallationAssumption PROVE Spec => []CapabilitiesInv
<1>1. Init => CapabilitiesInv
  BY InitCapabilities
<1>2. CapabilitiesInv /\ [Next]_vars => CapabilitiesInv'
  BY NextCapabilities
<1> QED BY <1>1, <1>2, PTL DEF Spec

(* Every variable keeps its type. *)
THEOREM CapabilitiesTypes == ASSUME InstallationAssumption PROVE Spec => []TypeOK
<1>1. CapabilitiesInv => TypeOK
  BY DEF CapabilitiesInv
<1> QED BY <1>1, CapabilitiesCorrect, PTL

(* changeAuthSession of installationCapabilities.ts and the guard of the   *)
(* server: an account that signed out keeps no registration, whatever is   *)
(* queued, lost or late.                                                   *)
THEOREM SignedOutIsGone ==
  ASSUME InstallationAssumption PROVE Spec => []NoneAfterSignOut
<1>1. CapabilitiesInv => NoneAfterSignOut
  BY DEF CapabilitiesInv, HeldOK, NoneAfterSignOut
<1> QED BY <1>1, CapabilitiesCorrect, PTL

(* liveActivityTokenGate.ts: what it skips, the server has, or one of the  *)
(* named exceptions applies.                                               *)
THEOREM RestIsRegistered ==
  ASSUME InstallationAssumption PROVE Spec => []Registered
<1>1. ASSUME CapabilitiesInv, session # NoOne, ready, writes = <<>>, auth = Idle,
             ~blocked, gate.permanent # Wanted, ~gate.waiting, ~excused,
             sid \notin revoked
      PROVE  rows[session] = [token |-> token, enabled |-> pref /\ token # NoToken,
                              held |-> TRUE]
  <2>1. gate.success = Wanted
    BY <1>1 DEF CapabilitiesInv, WantedOK, Asking, Asked
  <2>2. Wanted # NoKey
    BY <1>1 DEF Wanted, NoKey
  <2>3. rows[Wanted.who] = RowOf(Wanted)
    BY <1>1, <2>1, <2>2 DEF CapabilitiesInv, GateOK
  <2> QED BY <1>1, <2>3 DEF RowOf, Wanted
<1>2. CapabilitiesInv => Registered
  BY <1>1, Zenon DEF Registered
<1> QED BY <1>2, CapabilitiesCorrect, PTL

=============================================================================
