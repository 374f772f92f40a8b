---------------------- MODULE InstallationCapabilities ----------------------
(***************************************************************************)
(* What one installation may receive: its push-to-start token is           *)
(* registered for the account that is signed in, and must not stay         *)
(* registered for one that signed out.  Registrations go through a gate    *)
(* that avoids needless ones and through one chain of writes; a change of  *)
(* account fences the chain, revokes what the session registered and only  *)
(* then replaces the session.  The server refuses what a revoked session   *)
(* sends late.                                                             *)
(*                                                                         *)
(* One device; tokens held by a foreign installation are a constant.  The  *)
(* gate's durable note is written with the decision it records.            *)
(***************************************************************************)
EXTENDS Naturals, Sequences

CONSTANTS
  Accounts, Tokens,
  Foreign,      \* tokens that another installation holds
  NoOne, NoToken,
  MaxChanges,   \* bound: toggles of the preference and native tokens
  MaxSwitches,  \* bound: sign-ins, sign-outs and lost sessions
  MaxFaults     \* bound: restarts, lost answers, failures, token refreshes

InstallationAssumption ==
  /\ Foreign \subseteq Tokens /\ NoOne \notin Accounts /\ NoToken \notin Tokens
  /\ MaxChanges \in Nat /\ MaxSwitches \in Nat /\ MaxFaults \in Nat

VARIABLES
  session, sid,            \* account and number of the auth session
  pref, token,             \* liveActivitiesEnabled, the latest native token
  gate, ready, disk,       \* the gate, whether it is hydrated, its note
  writes,                  \* the chain of writeInstallationCapability
  blocked, generation,
  auth,                    \* changeAuthSession
  rows, revoked, late,     \* server: registrations, revoked sessions, and
                           \* requests the client gave up waiting for
  orphaned, excused,       \* history, see the properties
  changes, switches, faults

clientVars == <<session, sid, pref, token>>
gateVars == <<gate, ready, disk>>
fenceVars == <<blocked, generation, auth>>
serverVars == <<rows, revoked, late>>
bounds == <<changes, switches, faults>>
vars == <<clientVars, gateVars, writes, fenceVars, serverVars, orphaned,
          excused, bounds>>

Key == [who : Accounts, token : Tokens \cup {NoToken}, enabled : BOOLEAN]
NoKey == [who |-> NoOne, token |-> NoToken, enabled |-> FALSE]
NoRow == [token |-> NoToken, enabled |-> FALSE, held |-> FALSE]
Row == [token : Tokens \cup {NoToken}, enabled : BOOLEAN, held : BOOLEAN]
FreshGate == [success |-> NoKey, permanent |-> NoKey, attempt |-> NoKey,
              waiting |-> FALSE]
Sid == 0 .. MaxSwitches
Request == [key : Key, epoch : Nat, sid : Sid, sent : BOOLEAN]

TypeOK ==
  /\ session \in Accounts \cup {NoOne} /\ sid \in Sid
  /\ pref \in BOOLEAN /\ token \in Tokens \cup {NoToken}
  /\ gate \in [success : Key \cup {NoKey}, permanent : Key \cup {NoKey},
               attempt : Key \cup {NoKey}, waiting : BOOLEAN]
  /\ ready \in BOOLEAN /\ disk \in Key \cup {NoKey}
  /\ writes \in Seq(Request)
  /\ blocked \in BOOLEAN /\ generation \in Nat
  /\ auth \in [phase : {"idle", "fenced", "ending"}, ahead : Nat,
               target : Accounts \cup {NoOne}]
  /\ rows \in [Accounts -> Row] /\ revoked \subseteq Sid
  /\ late \subseteq [key : Key, sid : Sid]
  /\ orphaned \subseteq Accounts /\ excused \in BOOLEAN
  /\ changes \in 0 .. MaxChanges /\ switches \in 0 .. MaxSwitches
  /\ faults \in 0 .. MaxFaults

Idle == [phase |-> "idle", ahead |-> 0, target |-> NoOne]

(* A device nobody is signed in on. *)
Init ==
  /\ session = NoOne /\ sid = 0 /\ pref = TRUE /\ token = NoToken
  /\ gate = FreshGate /\ ready = TRUE /\ disk = NoKey
  /\ writes = <<>> /\ blocked = FALSE /\ generation = 0 /\ auth = Idle
  /\ rows = [a \in Accounts |-> NoRow] /\ revoked = {} /\ late = {}
  /\ orphaned = {} /\ excused = FALSE
  /\ changes = 0 /\ switches = 0 /\ faults = 0

Fault == faults < MaxFaults /\ faults' = faults + 1

-----------------------------------------------------------------------------
(* The gate. *)

(* shouldRegister. *)
Registers(k) ==
  /\ gate.success # k
  /\ gate.permanent # k
  /\ ~(gate.attempt = k /\ gate.waiting)

(* Mutant: every answer counts as a registration. *)
RecordOptimistic(k, result) ==
  /\ gate' = [success |-> k, permanent |-> NoKey, attempt |-> k,
              waiting |-> FALSE]
  /\ disk' = NoKey

(* recordResult. *)
Record(k, result) ==
  /\ gate' =
       CASE result = "upserted" ->
              [success |-> k, permanent |-> NoKey, attempt |-> k,
               waiting |-> FALSE]
         [] result = "foreign" ->
              [success |-> NoKey, permanent |-> k, attempt |-> k,
               waiting |-> FALSE]
         [] OTHER ->
              [gate EXCEPT !.success = NoKey, !.attempt = k, !.waiting = TRUE]
  /\ disk' = CASE result = "upserted" -> NoKey
               [] result = "foreign" -> k
               [] OTHER -> disk

(* The token listener and the token policy offer the identity they see to  *)
(* the gate and, unless it skips it, to the chain of writes.               *)
Offer(k) ==
  /\ writes' = IF k.who # NoOne /\ Registers(k)
               THEN Append(writes, [key |-> k, epoch |-> generation',
                                    sid |-> 0, sent |-> FALSE])
               ELSE writes
  /\ excused' = (excused \/ (k.who # NoOne /\ ~Registers(k)
                             /\ (writes # <<>> \/ gate.waiting)))

NativeToken(t) ==
  /\ ready /\ token # t
  /\ changes < MaxChanges /\ changes' = changes + 1
  /\ token' = t
  /\ UNCHANGED generation
  /\ Offer([who |-> session, token |-> t, enabled |-> pref])
  /\ UNCHANGED <<session, sid, pref, gateVars, blocked, auth, serverVars,
                 orphaned, switches, faults>>

TogglePolicy ==
  /\ ready
  /\ changes < MaxChanges /\ changes' = changes + 1
  /\ pref' = ~pref
  /\ UNCHANGED generation
  /\ Offer([who |-> session, token |-> token, enabled |-> ~pref])
  /\ UNCHANGED <<session, sid, token, gateVars, blocked, auth, serverVars,
                 orphaned, switches, faults>>

BackoffElapsed ==
  /\ gate.waiting /\ gate' = [gate EXCEPT !.waiting = FALSE]
  /\ excused' = TRUE    \* nobody asks again until the identity changes
  /\ UNCHANGED <<clientVars, ready, disk, writes, fenceVars, serverVars,
                 orphaned, bounds>>

-----------------------------------------------------------------------------
(* The chain of writes, and the server's guard. *)

(* The identity the effects see now. *)
Wanted == [who |-> session, token |-> token, enabled |-> pref]

(* Mutant: a change of account counts the writes that came after it too. *)
DequeueCounted ==
  writes' = Tail(writes) /\ auth' = [auth EXCEPT !.ahead = auth.ahead - 1]

Dequeue ==
  /\ writes' = Tail(writes)
  /\ auth' = IF auth.ahead > 0 THEN [auth EXCEPT !.ahead = auth.ahead - 1]
             ELSE auth

Fenced(w) ==
  blocked \/ w.epoch # generation \/ session # w.key.who

WriteStarts ==
  /\ writes # <<>> /\ ~Head(writes).sent
  /\ LET w == Head(writes) IN
       \/ /\ ~Fenced(w)
          /\ writes' = <<[w EXCEPT !.sent = TRUE, !.sid = sid]>> \o Tail(writes)
          /\ UNCHANGED <<gateVars, auth>>
       \/ /\ Fenced(w)
          /\ Dequeue /\ Record(w.key, "unknown") /\ UNCHANGED ready
  /\ UNCHANGED <<clientVars, blocked, generation, serverVars, orphaned,
                 excused, bounds>>

(* guard_installation_capability and the upsert: only the same             *)
(* installation can rebind a token after switching accounts.               *)
Upsert(k, s) ==
  rows' = [a \in Accounts |->
             IF a = k.who
             THEN [token |-> k.token, enabled |-> k.enabled /\ k.token # NoToken,
                   held |-> TRUE]
             ELSE IF k.token # NoToken /\ rows[a].token = k.token THEN NoRow
             ELSE rows[a]]

(* Mutant: the server takes what a revoked session sends. *)
AdmitsRevoked(k, s) == k.token \notin Foreign

Admits(k, s) == s \notin revoked /\ k.token \notin Foreign

Answer(k, s) ==
  IF s \in revoked THEN "refused"
  ELSE IF k.token \in Foreign THEN "foreign" ELSE "upserted"

WriteAnswered ==
  /\ writes # <<>> /\ Head(writes).sent
  /\ LET w == Head(writes) IN
       /\ Dequeue /\ Record(w.key, Answer(w.key, w.sid))
       /\ IF Admits(w.key, w.sid) THEN Upsert(w.key, w.sid) ELSE UNCHANGED rows
       /\ excused' = (excused /\ ~(Admits(w.key, w.sid) /\ w.key = Wanted
                                  /\ Len(writes) = 1))
  /\ UNCHANGED <<clientVars, ready, blocked, generation, revoked, late,
                 orphaned, bounds>>

(* The request deadline passes; the server may still execute it. *)
WriteTimesOut ==
  /\ writes # <<>> /\ Head(writes).sent
  /\ Fault
  /\ LET w == Head(writes) IN
       /\ Dequeue /\ Record(w.key, "unknown")
       /\ late' = late \cup {[key |-> w.key, sid |-> w.sid]}
  /\ UNCHANGED <<clientVars, ready, blocked, generation, rows, revoked,
                 orphaned, excused, changes, switches>>

LateExecutes ==
  \E w \in late :
    /\ late' = late \ {w}
    /\ IF Admits(w.key, w.sid)
       THEN Upsert(w.key, w.sid) /\ excused' = TRUE
       ELSE UNCHANGED <<rows, excused>>
    /\ UNCHANGED <<clientVars, gateVars, writes, fenceVars, revoked, orphaned,
                   bounds>>

-----------------------------------------------------------------------------
(* changeAuthSession: fence, revoke, then the sign-in or the sign-out. *)

ChangeAccount(a) ==
  /\ auth.phase = "idle" /\ a # session
  /\ switches < MaxSwitches /\ switches' = switches + 1
  /\ blocked' = TRUE /\ generation' = generation + 1
  /\ auth' = [phase |-> "fenced", ahead |-> Len(writes), target |-> a]
  /\ UNCHANGED <<clientVars, gateVars, writes, serverVars, orphaned, excused,
                 changes, faults>>

(* revoke_installation_capabilities on the server. *)
RevokeAtServer ==
  /\ revoked' = revoked \cup {sid}
  /\ rows' = [rows EXCEPT ![session] = NoRow]

(* Without a session there is nothing to revoke.  An error ends the change *)
(* of account, whether or not the server had executed the request; the     *)
(* gate goes on saying that the account is registered.                     *)
RevokeCapabilities ==
  /\ auth.phase = "fenced" /\ auth.ahead = 0
  /\ \/ /\ session = NoOne
        /\ auth' = [auth EXCEPT !.phase = "ending"]
        /\ UNCHANGED <<rows, revoked, gateVars, excused, faults>>
     \/ /\ session # NoOne /\ RevokeAtServer
        /\ auth' = [auth EXCEPT !.phase = "ending"]
        /\ gate' = FreshGate /\ disk' = NoKey
        /\ UNCHANGED <<ready, excused, faults>>
     \/ /\ session # NoOne /\ Fault /\ auth' = Idle
        /\ \/ RevokeAtServer /\ excused' = TRUE
           \/ UNCHANGED <<rows, revoked, excused>>
        /\ UNCHANGED gateVars
  /\ UNCHANGED <<clientVars, writes, blocked, generation, late, orphaned,
                 changes, switches>>

(* The session is replaced: the SIGNED_IN event lifts the fence and the    *)
(* token policy offers the new account.                                    *)
SessionReplaced ==
  /\ auth.phase = "ending" /\ auth' = Idle
  /\ session' = auth.target
  /\ IF auth.target = NoOne
     THEN UNCHANGED <<sid, blocked, generation, writes, excused>>
     ELSE /\ sid' = sid + 1 /\ blocked' = FALSE /\ UNCHANGED generation
          /\ Offer([who |-> auth.target, token |-> token, enabled |-> pref])
  /\ UNCHANGED <<pref, token, gateVars, serverVars, orphaned, bounds>>

(* The sign-in fails, and the revoked session is ended locally; a failed   *)
(* sign-out keeps it.                                                      *)
ChangeFails ==
  /\ auth.phase = "ending" /\ Fault /\ auth' = Idle
  /\ session' = IF auth.target = NoOne THEN session ELSE NoOne
  /\ UNCHANGED <<sid, pref, token, gateVars, writes, blocked, generation,
                 serverVars, orphaned, excused, changes, switches>>

(* onAuthStateChange(TOKEN_REFRESHED) lifts the fence, whoever put it up. *)
TokenRefreshed ==
  /\ session # NoOne /\ blocked /\ Fault
  /\ blocked' = FALSE
  /\ UNCHANGED <<clientVars, gateVars, writes, generation, auth, serverVars,
                 orphaned, excused, changes, switches>>

(* A terminal refresh error ends the session without a revocation. *)
SessionLost ==
  /\ session # NoOne
  /\ switches < MaxSwitches /\ switches' = switches + 1
  /\ session' = NoOne /\ orphaned' = orphaned \cup {session}
  /\ UNCHANGED <<sid, pref, token, gateVars, writes, fenceVars, serverVars,
                 excused, changes, faults>>

(* A restart: the gate hydrates from its note, which may have expired. *)
Restart ==
  /\ Fault
  /\ token' = NoToken /\ gate' = FreshGate /\ ready' = FALSE
  /\ writes' = <<>> /\ blocked' = FALSE /\ generation' = 0 /\ auth' = Idle
  /\ late' = late \cup {[key |-> w.key, sid |-> w.sid] :
                        w \in {writes[i] : i \in {j \in 1 .. Len(writes) :
                                                  writes[j].sent}}}
  /\ excused' = TRUE
  /\ UNCHANGED <<session, sid, pref, disk, rows, revoked, orphaned, changes,
                 switches>>

Hydrate ==
  /\ ~ready /\ ready' = TRUE
  /\ \/ gate' = [gate EXCEPT !.permanent = disk] /\ UNCHANGED disk
     \/ disk' = NoKey /\ UNCHANGED gate
  /\ UNCHANGED <<clientVars, writes, fenceVars, serverVars, orphaned, excused,
                 bounds>>

Next ==
  \/ \E t \in Tokens : NativeToken(t)
  \/ TogglePolicy \/ BackoffElapsed
  \/ WriteStarts \/ WriteAnswered \/ WriteTimesOut \/ LateExecutes
  \/ \E a \in Accounts \cup {NoOne} : ChangeAccount(a)
  \/ RevokeCapabilities \/ SessionReplaced \/ ChangeFails
  \/ TokenRefreshed \/ SessionLost \/ Restart \/ Hydrate

Spec == Init /\ [][Next]_vars

-----------------------------------------------------------------------------
(* An account that signed out keeps no registration on this installation,  *)
(* whatever was under way: the fence holds back what is queued, the server *)
(* refuses what arrives late.  The exception is a session that was lost    *)
(* without a sign-out.                                                     *)
NoneAfterSignOut ==
  \A a \in Accounts \ (orphaned \cup {session}) : ~rows[a].held

(* At rest the server says what the preference says.  The exceptions are   *)
(* named: a conflict with a foreign installation, a failure that waits for *)
(* its backoff, a session that a failed sign-out left revoked; and, until  *)
(* the wish is registered by the last write there is (excused): a failure  *)
(* that was not asked again, a late request, a revocation whose answer was *)
(* lost, and a wish the gate skipped while another one was under way,      *)
(* which then had the last word.                                           *)
Registered ==
  (session # NoOne /\ ready /\ writes = <<>> /\ auth = Idle /\ ~blocked) =>
    \/ rows[session] = [token |-> token, enabled |-> pref /\ token # NoToken,
                        held |-> TRUE]
    \/ gate.permanent = Wanted \/ gate.waiting \/ excused
    \/ sid \in revoked
=============================================================================
