------------------------ MODULE CoordinationRequests ------------------------
(***************************************************************************)
(* Questions a leader puts to a group, with a deadline and a policy: the   *)
(* procedures of the database that record votes and close a request once,  *)
(* by a leader or by the scheduler after the deadline                      *)
(* (20260725090000_coordination_requests.sql and what replaced parts of it *)
(* later), as transactions that take locks one at a time.                  *)
(*                                                                         *)
(* A transaction writes when it commits, which nobody can tell from        *)
(* writing under the locks it holds until then.  One list of one group,    *)
(* and one stop; an option is named for what its application does: keep    *)
(* the itinerary, set the time of the stop, update it otherwise, or fail   *)
(* (on its payload, or on the triggers of the itinerary, before it locks). *)
(***************************************************************************)
EXTENDS Naturals, Sequences, FiniteSets, SequencesExt

CONSTANTS
  Requests,
  Members,     \* accounts; those in Leaders lead the group while in it
  Leaders,
  Options, NoOption,
  Policy, Default,   \* of each request, chosen by the leader who creates it
  NoOne,
  MaxClaim,    \* the LIMIT of the scheduler
  MaxCalls     \* bound: calls of members, edits, changes of membership,
               \* runs of the scheduler that die

CoordinationAssumption ==
  /\ Leaders \subseteq Members /\ IsFiniteSet(Members)
  /\ NoOne \notin Members /\ {"cron", "editor"} \cap (Members \cup {NoOne}) = {}
  /\ Options \subseteq {"keep", "meet", "place", "bad"} /\ NoOption \notin Options
  /\ Policy \in [Requests -> {"unanimity", "majority", "timeout_default",
                              "organizer_override"}]
  /\ Default \in [Requests -> Options]
  /\ MaxClaim \in Nat \ {0} /\ MaxCalls \in Nat

VARIABLES
  status, outcome, source,
  votes,                  \* coordination_responses
  log,                    \* itinerary_operations, its length is the version
  members,                \* memberships with active access
  overdue,                \* requests past their deadline, earliest first
  locks,                  \* who holds a row, the group, a stop, the versions
  tx,                     \* the transaction of each connection
  voters,                 \* history: who could vote when a request was closed
  calls

requestVars == <<status, outcome, source, log, voters>>
vars == <<requestVars, votes, members, overdue, locks, tx, calls>>

Actor == Members \cup {"cron", "editor"}
Lock == Requests \cup {"group", "item", "version"}
NoTx == [call |-> "none", req |-> NoOne, option |-> NoOption, pc |-> "idle",
         due |-> {}, need |-> <<>>, todo |-> {}, done |-> <<>>,
         kept |-> {}]

TypeOK ==
  /\ status \in [Requests -> {"none", "open", "resolved", "expired", "cancelled"}]
  /\ outcome \in [Requests -> Options \cup {NoOption}]
  /\ votes \in [Requests -> [Members -> Options \cup {NoOption}]]
  /\ members \subseteq Members /\ Range(overdue) \subseteq Requests
  /\ locks \in [Lock -> Actor \cup {NoOne}]
  /\ calls \in 0 .. MaxCalls

Init ==
  /\ status = [r \in Requests |-> "none"]
  /\ outcome = [r \in Requests |-> NoOption]
  /\ source = [r \in Requests |-> "none"]
  /\ votes = [r \in Requests |-> [m \in Members |-> NoOption]]
  /\ log = <<>> /\ members = Members /\ overdue = <<>>
  /\ locks = [l \in Lock |-> NoOne] /\ tx = [a \in Actor |-> NoTx]
  /\ voters = [r \in Requests |-> {}] /\ calls = 0

Call == calls < MaxCalls /\ calls' = calls + 1

-----------------------------------------------------------------------------
(* The outcome (coordination_compute_outcome): silence is neither consent  *)
(* nor refusal, and only members of now are counted. *)

Ballots(r, who) == {m \in who : votes[r][m] # NoOption}
For(r, who, o) == {m \in who : votes[r][m] = o}

Winners(r, who) ==
  CASE Policy[r] = "unanimity" ->
         {o \in Options : Ballots(r, who) # {} /\ For(r, who, o) = who}
    [] Policy[r] = "majority" ->
         {o \in Options : 2 * Cardinality(For(r, who, o))
                            > Cardinality(Ballots(r, who))}
    [] OTHER -> {}

Chosen(r, who) ==
  IF Winners(r, who) = {} THEN Default[r] ELSE CHOOSE o \in Winners(r, who) : TRUE
Source(r, who) ==
  IF Winners(r, who) = {} THEN "timeout_default" ELSE Policy[r]

(* coordination_apply_outcome: the locks it takes, in this order.  An       *)
(* update of a stop ends in a trigger that locks the group.                *)
Path(option) ==
  CASE option = "keep" -> <<"version">>
    [] option = "meet" -> <<"item", "group", "version">>
    [] OTHER -> <<"group", "item", "version">>

-----------------------------------------------------------------------------
(* Locks and the end of a transaction *)

Release(a, kept) ==
  locks' = [l \in Lock |-> IF locks[l] = a /\ l \notin kept THEN NoOne ELSE locks[l]]

End(a) == Release(a, {}) /\ tx' = [tx EXCEPT ![a] = NoTx]

Acquire(a) ==
  /\ tx[a].need # <<>> /\ locks[Head(tx[a].need)] \in {NoOne, a}
  /\ locks' = [locks EXCEPT ![Head(tx[a].need)] = a]
  /\ tx' = [tx EXCEPT ![a].need = Tail(@)]
  /\ UNCHANGED <<requestVars, votes, members, overdue, calls>>

At(a, pc) == tx[a].pc = pc /\ tx[a].need = <<>>

(* Whoever waits for a lock that is held waits for its holder; the         *)
(* database notices a cycle and fails one of its transactions.             *)
WaitsFor(a) == IF tx[a].need = <<>> THEN NoOne
               ELSE locks[Head(tx[a].need)]
InCycle(a) ==
  LET chain[n \in 0 .. Cardinality(Actor)] ==
        IF n = 0 THEN a
        ELSE IF chain[n - 1] = NoOne \/ WaitsFor(chain[n - 1]) = chain[n - 1]
             THEN NoOne ELSE WaitsFor(chain[n - 1])
  IN \E n \in 1 .. Cardinality(Actor) : chain[n] = a

(* The scheduler loses the request it is at, and what its block locked;    *)
(* the others fail as a whole.                                             *)
Victim(a) ==
  /\ tx[a].need # <<>> /\ InCycle(a)
  /\ IF a = "cron"
     THEN /\ Release(a, tx[a].kept)
          /\ tx' = [tx EXCEPT ![a].need = <<>>, ![a].pc = "next",
                              ![a].done = Front(@)]
     ELSE End(a)
  /\ UNCHANGED <<requestVars, votes, members, overdue, calls>>

-----------------------------------------------------------------------------
(* Calls of members *)

Create(a, r) ==
  /\ a \in Leaders \cap members /\ status[r] = "none"
  /\ status' = [status EXCEPT ![r] = "open"]
  /\ UNCHANGED <<outcome, source, log, voters, votes, members, overdue, locks,
                 tx, calls>>

Begin(a, what, r, o) ==
  /\ Call /\ tx[a] = NoTx /\ status[r] # "none"
  /\ tx' = [tx EXCEPT ![a] = [NoTx EXCEPT !.call = what, !.req = r, !.option = o,
                                !.pc = "judge", !.need = <<r>>,
                                !.due = {r} \cap Range(overdue)]]
  /\ UNCHANGED <<requestVars, votes, members, overdue, locks>>

Refuse(a) == End(a) /\ UNCHANGED <<requestVars, votes>>

(* Mutant: the status is not asked again once the row is locked. *)
UndecidedBefore(r) == status[r] # "none"
Undecided(r) == status[r] = "open"

(* respond_to_coordination_request.  Too late, it closes the request and   *)
(* then raises, which undoes the closing; it has its locks until then.     *)
Respond(a) ==
  LET r == tx[a].req  o == Chosen(r, members)
  IN /\ At(a, "judge") /\ tx[a].call = "respond"
     /\ IF ~Undecided(r) \/ a \notin members THEN Refuse(a)
        ELSE IF r \in tx[a].due
        THEN IF o = "bad" THEN Refuse(a)
             ELSE /\ tx' = [tx EXCEPT ![a].pc = "raise", ![a].need = Path(o)]
                  /\ UNCHANGED <<requestVars, votes, locks>>
        ELSE /\ votes' = [votes EXCEPT ![r][a] = tx[a].option]
             /\ End(a) /\ UNCHANGED requestVars
     /\ UNCHANGED <<members, overdue, calls>>

Raise(a) ==
  /\ At(a, "raise") /\ Refuse(a)
  /\ UNCHANGED <<members, overdue, calls>>

(* override_coordination_request, up to coordination_close_request. *)
Override(a) ==
  /\ At(a, "judge") /\ tx[a].call = "override"
  /\ IF ~Undecided(tx[a].req) \/ a \notin Leaders \cap members \/ tx[a].option = "bad"
     THEN Refuse(a)
     ELSE /\ tx' = [tx EXCEPT ![a].pc = "close", ![a].need = Path(tx[a].option)]
          /\ UNCHANGED <<requestVars, votes, locks>>
  /\ UNCHANGED <<members, overdue, calls>>

Closed(r, o, how) == [request |-> r, option |-> o, source |-> how, voters |-> members]

(* The last decision about r: each one overwrites what is recorded. *)
Final(decisions, r) ==
  decisions[CHOOSE i \in DOMAIN decisions :
              /\ decisions[i].request = r
              /\ \A j \in DOMAIN decisions : decisions[j].request = r => j <= i]

(* coordination_close_request for a list of decisions, at commit. *)
Apply(decisions) ==
  LET made == {decisions[i].request : i \in DOMAIN decisions}
  IN /\ status' = [r \in Requests |->
           IF r \notin made THEN status[r]
           ELSE IF Final(decisions, r).source = "timeout_default" THEN "expired"
           ELSE "resolved"]
     /\ outcome' = [r \in Requests |->
           IF r \in made THEN Final(decisions, r).option ELSE outcome[r]]
     /\ source' = [r \in Requests |->
           IF r \in made THEN Final(decisions, r).source ELSE source[r]]
     /\ voters' = [r \in Requests |->
           IF r \in made THEN Final(decisions, r).voters ELSE voters[r]]
     /\ log' = log \o [i \in DOMAIN decisions |->
           [request |-> decisions[i].request, option |-> decisions[i].option]]

Close(a) ==
  /\ At(a, "close")
  /\ Apply(<<Closed(tx[a].req, tx[a].option, "organizer_override")>>)
  /\ End(a)
  /\ UNCHANGED <<votes, members, overdue, calls>>

(* cancel_coordination_request: no option is decided, nothing applied. *)
Cancel(a) ==
  /\ At(a, "judge") /\ tx[a].call = "cancel"
  /\ status' = IF Undecided(tx[a].req) /\ a \in Leaders \cap members
               THEN [status EXCEPT ![tx[a].req] = "cancelled"] ELSE status
  /\ End(a)
  /\ UNCHANGED <<outcome, source, log, voters, votes, members, overdue, calls>>

-----------------------------------------------------------------------------
(* The scheduler (process_due_coordination_requests) *)

(* The requests whose deadline is before that of r. *)
Ahead(r) ==
  {overdue[i] : i \in {j \in DOMAIN overdue :
                          \E k \in DOMAIN overdue : overdue[k] = r /\ j < k}}

Due == {r \in Range(overdue) : status[r] = "open" /\ locks[r] = NoOne}

(* FOR UPDATE SKIP LOCKED, the earliest deadlines up to the limit. *)
Run ==
  LET claimed == {r \in Due : Cardinality(Ahead(r) \cap Due) < MaxClaim}
  IN /\ tx["cron"] = NoTx /\ claimed # {}
     /\ locks' = [l \in Lock |-> IF l \in claimed THEN "cron" ELSE locks[l]]
     /\ tx' = [tx EXCEPT !["cron"] = [NoTx EXCEPT !.call = "run", !.pc = "next",
                                                  !.todo = claimed]]
     /\ UNCHANGED <<requestVars, votes, members, overdue, calls>>

IsNext(r) == r \in tx["cron"].todo /\ Ahead(r) \cap tx["cron"].todo = {}

(* The request the loop is at, decided on the votes there are. *)
Decide(r, o) ==
  tx' = [tx EXCEPT !["cron"].pc = "settle", !["cron"].need = Path(o),
           !["cron"].todo = @ \ {r},
           !["cron"].done = Append(@, Closed(r, o, Source(r, members))),
           !["cron"].kept = {l \in Lock : locks[l] = "cron"}]

(* Mutant: without the block a failure ends the run. *)
ResolveOrFail(r) ==
  LET o == Chosen(r, members)
  IN /\ At("cron", "next") /\ IsNext(r)
     /\ IF o = "bad" THEN End("cron") ELSE Decide(r, o) /\ UNCHANGED locks
     /\ UNCHANGED <<requestVars, votes, members, overdue, calls>>

(* resolve_coordination_request_deadline in a block of its own. *)
Resolve(r) ==
  LET o == Chosen(r, members)
  IN /\ At("cron", "next") /\ IsNext(r)
     /\ IF o = "bad" THEN tx' = [tx EXCEPT !["cron"].todo = @ \ {r}]
        ELSE Decide(r, o)
     /\ UNCHANGED <<requestVars, votes, members, overdue, locks, calls>>

Settle ==
  /\ At("cron", "settle")
  /\ tx' = [tx EXCEPT !["cron"].pc = "next"]
  /\ UNCHANGED <<requestVars, votes, members, overdue, locks, calls>>

Commit ==
  /\ At("cron", "next") /\ tx["cron"].todo = {}
  /\ Apply(tx["cron"].done) /\ End("cron")
  /\ UNCHANGED <<votes, members, overdue, calls>>

(* The run dies before its commit. *)
Die ==
  /\ Call /\ tx["cron"] # NoTx /\ End("cron")
  /\ UNCHANGED <<requestVars, votes, members, overdue>>

-----------------------------------------------------------------------------
(* The world: the RPCs that edit the itinerary lock the group and then its *)
(* stops; members leave and join; deadlines pass.                          *)

Edit ==
  /\ Call /\ tx["editor"] = NoTx
  /\ tx' = [tx EXCEPT !["editor"] = [NoTx EXCEPT !.call = "edit", !.pc = "edit",
                                                 !.need = <<"group", "item">>]]
  /\ UNCHANGED <<requestVars, votes, members, overdue, locks>>

Edited ==
  /\ At("editor", "edit") /\ End("editor")
  /\ UNCHANGED <<requestVars, votes, members, overdue, calls>>

Move ==
  /\ Call
  /\ \E m \in Members : members' = IF m \in members THEN members \ {m}
                                   ELSE members \cup {m}
  /\ UNCHANGED <<requestVars, votes, overdue, locks, tx>>

Passes(r) ==
  /\ status[r] # "none" /\ r \notin Range(overdue)
  /\ overdue' = Append(overdue, r)
  /\ UNCHANGED <<requestVars, votes, members, locks, tx, calls>>

Client(a) == Respond(a) \/ Raise(a) \/ Override(a) \/ Close(a) \/ Cancel(a)
Scheduler == Run \/ (\E r \in Requests : Resolve(r)) \/ Settle \/ Commit
Waiting == \E a \in Actor : Acquire(a) \/ Victim(a)

Next ==
  \/ \E a \in Members, r \in Requests : Create(a, r)
  \/ \E a \in Members, r \in Requests :
       \/ \E o \in Options, what \in {"respond", "override"} : Begin(a, what, r, o)
       \/ Begin(a, "cancel", r, NoOption)
  \/ \E a \in Members : Client(a)
  \/ Scheduler \/ Die \/ Waiting
  \/ Edit \/ Edited \/ Move
  \/ \E r \in Requests : Passes(r)

Spec == Init /\ [][Next]_vars

(* Transactions go on, cycles are noticed, the job starts every minute.    *)
Fairness ==
  /\ \A a \in Actor : WF_vars(Acquire(a) \/ Victim(a))
  /\ \A a \in Members : WF_vars(Client(a))
  /\ WF_vars(Scheduler) /\ WF_vars(Edited)

FairSpec == Spec /\ Fairness

-----------------------------------------------------------------------------
Agreed(r, o, who) ==
  /\ For(r, who, o) # {}
  /\ CASE Policy[r] = "unanimity" -> \A m \in who : votes[r][m] = o
       [] Policy[r] = "majority" ->
            Cardinality(For(r, who, o))
              > Cardinality(Ballots(r, who) \ For(r, who, o))
       [] OTHER -> FALSE

(* Option o closes r in the way `how`: a leader says so, or the votes of   *)
(* the members `who` do, or they decide nothing.                           *)
Justified(r, o, how, who) ==
  \/ how = "organizer_override"
  \/ how = Policy[r] /\ Agreed(r, o, who)
  \/ /\ how = "timeout_default" /\ o = Default[r]
     /\ \A p \in Options : ~Agreed(r, p, who)

(* A request is decided once, whatever votes, leaders and the scheduler do *)
(* at the same time: one operation, of the outcome recorded; and what the  *)
(* deadline decided is what the members of that moment had voted for.      *)
DecidedOnce ==
  \A r \in Requests :
    LET made == {i \in DOMAIN log : log[i].request = r}
    IN IF status[r] \notin {"resolved", "expired"}
       THEN made = {} /\ outcome[r] = NoOption
       ELSE /\ \E i \in made : made = {i} /\ log[i].option = outcome[r]
            /\ Justified(r, outcome[r], source[r], voters[r])

Stuck(r) == status[r] = "open" /\ Chosen(r, members) = "bad"

(* A request past its deadline is closed in the end, whatever dies, fails  *)
(* or waits in a circle.  The exceptions: its own outcome cannot be        *)
(* applied, or the scheduler's limit is used up by earlier ones like that. *)
DueIsClosed ==
  []<>(\A r \in Range(overdue) :
         \/ status[r] # "open" \/ Stuck(r)
         \/ Cardinality({q \in Ahead(r) : Stuck(q)}) >= MaxClaim)
=============================================================================
