---------------------------- MODULE AuthSession ----------------------------
(***************************************************************************)
(* The session of the signed-in account: credentials that rotate with every *)
(* refresh, the storage that keeps the newest one readable while the device *)
(* key store fails, and the recovery that refreshes once for all callers   *)
(* and signs out only on a refusal of the credential it refreshed.         *)
(*                                                                         *)
(* Storage is one serial queue over one physical slot; sign-out publishes  *)
(* its tombstone at once.  The SDK is external: it holds its lock from     *)
(* reading a credential until the answer is stored, and sign-in and        *)
(* sign-out wait for that lock.  Recovery does not take it.                *)
(***************************************************************************)
EXTENDS Naturals, Sequences, FiniteSets

CONSTANTS
  Accounts, NoOne,
  MaxIssued,    \* bound: credentials the server issues
  MaxFaults,    \* bound: failures of the key store or network, crashes,
                \* sessions ended elsewhere
  MaxWorks      \* bound: authenticated operations

AuthAssumption ==
  /\ NoOne \notin Accounts /\ "unknown" \notin Accounts \cup {NoOne}
  /\ MaxIssued \in Nat /\ MaxFaults \in Nat /\ MaxWorks \in Nat

VARIABLES
  issued, valid,             \* server: serials issued, and those still good
  slot, latest, pending, generation, persisted, queue,   \* authStorage
  sdk,                       \* holder of the SDK lock and its credential
  flight,                    \* refreshFlight
  work, used,                \* withAuthenticatedOperation, accounts it used
  user,                      \* account the interface shows
  refused, removed, lost,    \* history, see the properties
  works, faults

serverVars == <<issued, valid>>
slotVars == <<slot, persisted>>
storageVars == <<slotVars, latest, pending, generation, queue>>
history == <<refused, removed, lost>>
vars == <<serverVars, storageVars, sdk, flight, work, used, user, history,
          works, faults>>

Serial == 0 .. MaxIssued
None == [who |-> NoOne, n |-> 0]
Credential == [who : Accounts, n : Serial]
Unread == [who |-> NoOne, n |-> MaxIssued + 1]    \* latest, before any read
Stored == Credential \cup {None}
Reader == {"restore", "before", "look", "sdk", "current", "check", "after"}
Writer == {"signin", "rotation"}
Eraser == {"forget", "drop"}      \* sign-out, and a refused credential
Task == [op : Reader \cup Writer \cup Eraser, cred : Stored, gen : Nat,
         cleared : BOOLEAN]

TypeOK ==
  /\ issued \in Serial /\ valid \subseteq 1 .. issued
  /\ slot \in Stored /\ latest \in Stored \cup {Unread} /\ pending \in BOOLEAN
  /\ generation \in Nat /\ persisted \in Accounts \cup {NoOne, "unknown"}
  /\ queue \in Seq(Task)
  /\ sdk \in [phase : {"idle", "read", "sent", "save"},
              by : {"timer", "flight", "user"}, cred : Stored]
  /\ flight \in [phase : {"idle", "wait"} \cup Reader, before : Stored,
                 seen : Stored, gone : BOOLEAN]
  /\ work \in [phase : {"idle", "try", "refresh", "retry"}, cred : Stored]
  /\ used \subseteq Accounts /\ user \in Accounts \cup {NoOne}
  /\ refused \subseteq Serial /\ removed \subseteq Serial /\ lost \in BOOLEAN
  /\ works \in 0 .. MaxWorks /\ faults \in 0 .. MaxFaults

Unlocked == [phase |-> "idle", by |-> "user", cred |-> None]
Landed == [phase |-> "idle", before |-> None, seen |-> None, gone |-> FALSE]
NoWork == [phase |-> "idle", cred |-> None]

Init ==
  /\ issued = 0 /\ valid = {}
  /\ slot = None /\ latest = Unread /\ pending = FALSE /\ generation = 0
  /\ persisted = "unknown" /\ queue = <<>>
  /\ sdk = Unlocked /\ flight = Landed /\ work = NoWork /\ used = {}
  /\ user = NoOne
  /\ refused = {} /\ removed = {} /\ lost = FALSE
  /\ works = 0 /\ faults = 0

Fault == faults < MaxFaults /\ faults' = faults + 1
Ask(op) == [op |-> op, cred |-> None, gen |-> 0, cleared |-> FALSE]
IsRead == latest # Unread

(* Mutant: credentials of one account are taken for the same. *)
SameAccount(c, d) == c.who = d.who

(* The comparison of refresh token, access token and account. *)
Same(c, d) == c = d

-----------------------------------------------------------------------------
(* authStorage: the head of the queue. *)

AtHead(ops) == queue # <<>> /\ Head(queue).op \in ops

(* Mutant: a write that fails falls back to what is in the slot. *)
FlushedOrReverted(g) ==
  IF generation = g /\ pending
  THEN \/ /\ slot' = latest /\ persisted' = latest.who /\ pending' = FALSE
          /\ UNCHANGED <<latest, faults>>
       \/ Fault /\ latest' = slot /\ UNCHANGED <<slotVars, pending>>
  ELSE UNCHANGED <<slotVars, pending, latest, faults>>

(* flush(): write what is pending of this generation; a failure keeps it   *)
(* pending and readable.                                                   *)
Flushed(g) ==
  IF generation = g /\ pending
  THEN \/ /\ slot' = latest /\ persisted' = latest.who /\ pending' = FALSE
          /\ UNCHANGED <<latest, faults>>
       \/ Fault /\ UNCHANGED <<slotVars, pending, latest>>
  ELSE UNCHANGED <<slotVars, pending, latest, faults>>

(* getItem: known values come from the process, unknown from the slot. *)
Loaded ==
  IF IsRead THEN Flushed(generation)
  ELSE /\ persisted' = slot.who /\ latest' = slot
       /\ UNCHANGED <<slot, pending, faults>>

Enqueued(tasks) == queue' = Tail(queue) \o tasks

(* removeItem: the tombstone is published before any await. *)
Tombstone(op) ==
  /\ generation' = generation + 1 /\ pending' = TRUE /\ latest' = None
  /\ queue' = (IF op = "drop" THEN Tail(queue) ELSE queue)
               \o <<[op |-> op, cred |-> None, gen |-> generation + 1,
                     cleared |-> FALSE]>>

(* Mutant: a waiting operation is retried under whatever account it gets. *)
JoinedAnyway(s) ==
  /\ flight' = Landed
  /\ work' = IF work.phase # "refresh" THEN work
             ELSE IF s = None THEN NoWork
             ELSE [phase |-> "retry", cred |-> s]

(* A flight ends with a session, or with None for an error; an operation   *)
(* that waits for it goes on only under its own account.                   *)
Joined(s) ==
  /\ flight' = Landed
  /\ work' = IF work.phase # "refresh" THEN work
             ELSE IF s.who # work.cred.who THEN NoWork
             ELSE [phase |-> "retry", cred |-> s]

(* refreshSession returned c: it must belong to the account of before. *)
Returns(c) ==
  Joined(IF flight.before # None /\ c.who # flight.before.who THEN None ELSE c)

EraseTask ==
  /\ AtHead(Eraser)
  /\ Flushed(Head(queue).gen)
  /\ IF Head(queue).op = "forget"
     THEN user' = NoOne /\ sdk' = Unlocked /\ Enqueued(<<>>)
     ELSE Enqueued(<<Ask("after")>>) /\ UNCHANGED <<user, sdk>>
  /\ UNCHANGED <<serverVars, generation, flight, work, used, history, works>>

(* Mutant: the account that is replaced stays in the slot. *)
MustClearNever(t) == FALSE

(* A replacement retires the old account before it publishes the new one. *)
MustClear(t) ==
  ~t.cleared /\ persisted # NoOne /\ persisted # t.cred.who

(* setItem is over: the SDK announces the session it stored, whatever the  *)
(* storage made of it, and the flight that asked for a rotation gets it.   *)
Announced(t) ==
  /\ Enqueued(<<>>) /\ user' = t.cred.who /\ sdk' = Unlocked
  /\ IF sdk.by = "flight" THEN Returns(t.cred) ELSE UNCHANGED <<flight, work>>

Rejected(t) ==
  /\ Enqueued(<<>>) /\ sdk' = Unlocked /\ UNCHANGED user
  /\ IF sdk.by = "flight" THEN Joined(None) ELSE UNCHANGED <<flight, work>>

SetTask ==
  /\ AtHead(Writer)
  /\ LET t == Head(queue) IN
       \/ /\ generation # t.gen       \* fenced by a later removal
          /\ Announced(t) /\ UNCHANGED <<slotVars, latest, pending, faults>>
       \/ /\ generation = t.gen /\ MustClear(t)
          /\ slot' = None /\ persisted' = NoOne
          /\ queue' = <<[t EXCEPT !.cleared = TRUE]>> \o Tail(queue)
          /\ UNCHANGED <<latest, pending, sdk, user, flight, work, faults>>
       \/ /\ generation = t.gen /\ MustClear(t) /\ Fault
          /\ Rejected(t) /\ UNCHANGED <<slotVars, latest, pending>>
       \/ /\ generation = t.gen /\ ~MustClear(t)
          /\ latest' = t.cred /\ Announced(t)
          /\ \/ /\ slot' = t.cred /\ persisted' = t.cred.who
                /\ pending' = FALSE /\ UNCHANGED faults
             \/ Fault /\ pending' = TRUE /\ UNCHANGED slotVars
  /\ UNCHANGED <<serverVars, generation, used, history, works>>

-----------------------------------------------------------------------------
(* The SDK and the server. *)

Issue(a) == [who |-> a, n |-> issued + 1]

Store(op, c) ==
  /\ generation' = generation + 1
  /\ queue' = Append(queue, [op |-> op, cred |-> c, gen |-> generation + 1,
                             cleared |-> FALSE])

SignIn(a) ==
  /\ sdk.phase = "idle" /\ issued < MaxIssued
  /\ issued' = issued + 1 /\ valid' = valid \cup {issued + 1}
  /\ sdk' = [phase |-> "save", by |-> "user", cred |-> Issue(a)]
  /\ Store("signin", Issue(a))
  /\ UNCHANGED <<slotVars, latest, pending, flight, work, used, user, history,
                 works, faults>>

SignOut ==
  /\ sdk.phase = "idle" /\ user # NoOne /\ IsRead
  /\ sdk' = [phase |-> "save", by |-> "user", cred |-> None]
  /\ valid' = valid \ {latest.n}
  /\ Tombstone("forget")
  /\ UNCHANGED <<issued, slotVars, flight, work, used, user, history, works,
                 faults>>

(* The SDK's own refresh timer. *)
AutoRefresh ==
  /\ sdk.phase = "idle" /\ IsRead /\ latest # None
  /\ sdk' = [phase |-> "sent", by |-> "timer", cred |-> latest]
  /\ UNCHANGED <<serverVars, storageVars, flight, work, used, user, history,
                 works, faults>>

Rotate ==
  /\ sdk.cred.n \in valid /\ issued < MaxIssued
  /\ issued' = issued + 1
  /\ valid' = (valid \ {sdk.cred.n}) \cup {issued + 1}

Granted ==
  /\ sdk.phase = "sent" /\ Rotate
  /\ sdk' = [sdk EXCEPT !.phase = "save", !.cred = Issue(sdk.cred.who)]
  /\ Store("rotation", Issue(sdk.cred.who))
  /\ UNCHANGED <<slotVars, latest, pending, flight, work, used, user, history,
                 works, faults>>

(* A terminal error; a flight goes on to examine it. *)
Examine ==
  IF sdk.by = "flight"
  THEN /\ queue' = Append(queue, Ask("current"))
       /\ flight' = [flight EXCEPT !.phase = "current"]
  ELSE UNCHANGED <<queue, flight>>

Refused ==
  /\ sdk.phase = "sent" /\ sdk.cred.n \notin valid
  /\ refused' = refused \cup {sdk.cred.n}
  /\ sdk' = Unlocked /\ Examine
  /\ UNCHANGED <<serverVars, slotVars, latest, pending, generation, work, used,
                 user, removed, lost, works, faults>>

(* The answer is lost; the server may have rotated the credential. *)
Unanswered ==
  /\ sdk.phase = "sent" /\ Fault
  /\ Rotate \/ UNCHANGED serverVars
  /\ sdk' = Unlocked
  /\ IF sdk.by = "flight" THEN Joined(None) ELSE UNCHANGED <<flight, work>>
  /\ UNCHANGED <<storageVars, used, user, history, works>>

(* The session is ended on another device, or the account is banned. *)
EndedElsewhere ==
  /\ Fault
  /\ \E n \in valid : valid' = valid \ {n}
  /\ UNCHANGED <<issued, storageVars, sdk, flight, work, used, user, history,
                 works>>

-----------------------------------------------------------------------------
(* refreshSessionOnce and its adapter.  A read is taken from the queue     *)
(* with what its caller does next, up to the caller's next await.          *)

Reads(op) == AtHead({op}) /\ Loaded

ReadBefore ==
  /\ Reads("before")
  /\ flight' = [flight EXCEPT !.phase = "look", !.before = latest']
  /\ Enqueued(<<Ask("look")>>)
  /\ UNCHANGED <<serverVars, generation, sdk, work, used, user, history, works>>

ReadLook ==
  /\ Reads("look")
  /\ flight' = [flight EXCEPT !.phase = "wait", !.seen = latest']
  /\ Enqueued(<<>>)
  /\ UNCHANGED <<serverVars, generation, sdk, work, used, user, history, works>>

(* The SDK's lock is taken and the credential to refresh is read. *)
Consult ==
  /\ flight.phase = "wait" /\ sdk.phase = "idle"
  /\ sdk' = [phase |-> "read", by |-> "flight", cred |-> None]
  /\ flight' = [flight EXCEPT !.phase = "sdk"]
  /\ queue' = Append(queue, Ask("sdk"))
  /\ UNCHANGED <<serverVars, slotVars, latest, pending, generation, work, used,
                 user, history, works, faults>>

(* A rotation made meanwhile is reused; no session is a terminal error. *)
ReadSdk ==
  /\ Reads("sdk")
  /\ LET c == latest' IN
       CASE c = None ->
              /\ sdk' = Unlocked /\ UNCHANGED work
              /\ flight' = [flight EXCEPT !.phase = "current"]
              /\ Enqueued(<<Ask("current")>>)
         [] c # None /\ flight.seen # None /\ c # flight.seen ->
              sdk' = Unlocked /\ Returns(c) /\ Enqueued(<<>>)
         [] OTHER ->
              /\ sdk' = [sdk EXCEPT !.phase = "sent", !.cred = c]
              /\ Enqueued(<<>>) /\ UNCHANGED <<flight, work>>
  /\ UNCHANGED <<serverVars, generation, used, user, history, works>>

Moved(c) == c # None /\ ~Same(c, flight.before)

ReadCurrent ==
  /\ Reads("current")
  /\ IF Moved(latest')
     THEN Joined(latest') /\ Enqueued(<<>>)
     ELSE /\ flight' = [flight EXCEPT !.phase = "check"]
          /\ Enqueued(<<Ask("check")>>) /\ UNCHANGED work
  /\ UNCHANGED <<serverVars, generation, sdk, used, user, history, works>>

(* invalidateSession: what sign-in has queued is fenced with the rest. *)
ReadCheck ==
  /\ AtHead({"check"})
  /\ \/ /\ Moved(latest) /\ Loaded
        /\ flight' = [flight EXCEPT !.phase = "after"]
        /\ Enqueued(<<Ask("after")>>)
        /\ UNCHANGED <<generation, removed, lost>>
     \/ /\ ~Moved(latest)
        /\ flight' = [flight EXCEPT !.phase = "after", !.gone = TRUE]
        /\ Tombstone("drop")
        /\ removed' = removed \cup ({latest.n} \ {0})
        /\ lost' = (lost \/ \E i \in 2 .. Len(queue) : queue[i].op \in Writer)
        /\ UNCHANGED <<slotVars, faults>>
  /\ UNCHANGED <<serverVars, sdk, work, used, user, refused, works>>

(* emitTerminal *)
Told == user' = (IF flight.gone THEN NoOne ELSE user)

(* Nothing newer has come: the interface learns that the session is over. *)
ReadAfter ==
  /\ Reads("after") /\ Enqueued(<<>>)
  /\ IF Moved(latest') THEN Joined(latest') /\ UNCHANGED user
     ELSE Joined(None) /\ Told
  /\ UNCHANGED <<serverVars, generation, sdk, used, history, works>>

(* restoreSession after a start: show who is stored, then refresh. *)
Restore ==
  /\ ~IsRead /\ queue = <<>> /\ queue' = <<Ask("restore")>>
  /\ UNCHANGED <<serverVars, slotVars, latest, pending, generation, sdk, flight,
                 work, used, user, history, works, faults>>

ReadRestore ==
  /\ Reads("restore")
  /\ user' = latest.who'
  /\ IF latest' = None THEN Enqueued(<<>>) /\ UNCHANGED flight
     ELSE /\ Enqueued(<<Ask("before")>>)
          /\ flight' = [Landed EXCEPT !.phase = "before"]
  /\ UNCHANGED <<serverVars, generation, sdk, work, used, history, works>>

-----------------------------------------------------------------------------
(* withAuthenticatedOperation: one refresh and one retry. *)

StartWork ==
  /\ work.phase = "idle" /\ works < MaxWorks /\ works' = works + 1
  /\ sdk.phase = "idle" /\ IsRead /\ latest # None
  /\ work' = [phase |-> "try", cred |-> latest] /\ used' = {}
  /\ UNCHANGED <<serverVars, storageVars, sdk, flight, user, history, faults>>

WorkSettles ==
  /\ work.phase \in {"try", "retry"}
  /\ used' = used \cup {work.cred.who} /\ work' = NoWork
  /\ UNCHANGED <<serverVars, storageVars, sdk, flight, user, history, works,
                 faults>>

WorkRefused ==
  /\ work.phase = "try"
  /\ used' = used \cup {work.cred.who}
  /\ work' = [work EXCEPT !.phase = "refresh"]
  /\ IF flight.phase # "idle" THEN UNCHANGED <<flight, queue>>
     ELSE /\ flight' = [Landed EXCEPT !.phase = "before"]
          /\ queue' = Append(queue, Ask("before"))
  /\ UNCHANGED <<serverVars, slotVars, latest, pending, generation, sdk, user,
                 history, works, faults>>

Crash ==
  /\ Fault
  /\ latest' = Unread /\ pending' = FALSE /\ generation' = 0
  /\ persisted' = "unknown" /\ queue' = <<>>
  /\ sdk' = Unlocked /\ flight' = Landed /\ work' = NoWork /\ used' = {}
  /\ user' = NoOne
  /\ UNCHANGED <<serverVars, slot, history, works>>

Recovery == \/ ReadBefore \/ ReadLook \/ Consult \/ ReadSdk
            \/ ReadCurrent \/ ReadCheck \/ ReadAfter
Next == \/ Recovery \/ SetTask \/ EraseTask \/ Restore \/ ReadRestore
        \/ \E a \in Accounts : SignIn(a)
        \/ SignOut \/ AutoRefresh \/ Granted \/ Refused \/ Unanswered
        \/ EndedElsewhere \/ StartWork \/ WorkSettles \/ WorkRefused \/ Crash

Spec == Init /\ [][Next]_vars

-----------------------------------------------------------------------------
(* Once an account is signed in, the slot never holds another one: a       *)
(* process that dies at any point may lose the new credential and cannot   *)
(* bring the previous account back.                                        *)
PreviousAccountGone ==
  latest \in Credential => slot = None \/ slot.who = latest.who

(* A failed write never makes an older credential readable: what a process *)
(* reads is the newest one it was given for that account.                  *)
NeverOlder ==
  [][{latest, latest'} \subseteq Credential => latest.n' >= latest.n]_latest

(* Recovery removes only a credential that the server refused, whatever    *)
(* was rotated or signed in between the request and the removal.           *)
RemovedWereRefused == removed \subseteq refused

(* An operation is never sent under two accounts. *)
OneAccount == Cardinality(used) <= 1

(* authRecovery.ts:76: "A stale refresh rejection must not invalidate a    *)
(* newly rotated token or a different account that signed in while the     *)
(* request was pending."                                                   *)
SignInKept == ~lost
=============================================================================
