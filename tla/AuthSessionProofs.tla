-------------------------- MODULE AuthSessionProofs --------------------------
(***************************************************************************)
(* What AuthSession keeps for any number of accounts, credentials, faults  *)
(* and operations: the slot of another account, the credential recovery    *)
(* removes, the account of an operation, and the order of what is read.    *)
(***************************************************************************)
EXTENDS AuthSession, FiniteSetTheorems, SequenceTheorems, TLAPS

-----------------------------------------------------------------------------
(* The inductive invariant *)

Sdk == [phase : {"idle", "read", "sent", "save"},
        by : {"timer", "flight", "user"}, cred : Stored]
Flight == [phase : {"idle", "wait"} \cup Reader, before : Stored,
           seen : Stored, gone : BOOLEAN]
Work == [phase : {"idle", "try", "refresh", "retry"}, cred : Stored]

Shape ==
  /\ issued \in Serial /\ slot \in Stored /\ latest \in Stored \cup {Unread}
  /\ generation \in Nat /\ queue \in Seq(Task)
  /\ sdk \in Sdk /\ flight \in Flight /\ work \in Work

(* The queue holds at most one task of the flight, which is at that point, *)
(* and one of the holder of the SDK's lock; what is written is the newest  *)
(* credential there is.                                                    *)
FlightOp == {"before", "look", "sdk", "current", "check", "after", "drop"}
LockOp == Writer \cup {"forget"}

TaskOK(i, t) ==
  /\ t.op = "restore" => i = 1 /\ latest = Unread
  /\ t.op \in FlightOp =>
       flight.phase = (IF t.op = "drop" THEN "after" ELSE t.op)
  /\ t.op = "sdk" => sdk.phase = "read"
  /\ t.op \in LockOp => sdk.phase = "save"
  /\ t.op \in Writer => t.cred \in Credential /\ t.cred.n = issued /\ issued > 0
  /\ t.cleared => i = 1 /\ t.op \in Writer /\ slot = None /\ persisted = NoOne
Alike(t, u) == \/ t.op \in FlightOp /\ u.op \in FlightOp
               \/ t.op \in LockOp /\ u.op \in LockOp
QueueOK ==
  /\ \A i \in DOMAIN queue : TaskOK(i, queue[i])
  /\ \A i, j \in DOMAIN queue : Alike(queue[i], queue[j]) => i = j

(* What is kept anywhere is older than what is about to be written. *)
Writing == \E i \in DOMAIN queue : queue[i].op \in Writer
Old(c) == c.n <= issued /\ (Writing => c.n < issued)
FreshOK == Old(slot) /\ Old(flight.before) /\ (latest # Unread => Old(latest))

(* Before the first read nothing runs that needs one. *)
UnreadOK ==
  latest = Unread => flight.phase = "idle" /\ work.phase = "idle" /\ ~pending

SlotOK ==
  /\ persisted = "unknown" \/ persisted = slot.who
  /\ latest \in Credential => slot = None \/ slot.who = latest.who

(* The SDK works for the flight only while the flight waits for it.  What  *)
(* it sends for the flight, and what was refused when the flight goes on,  *)
(* is the credential of before, or that one is no longer the latest.       *)
FlightOK ==
  /\ (sdk.phase # "idle" /\ sdk.by = "flight") => flight.phase = "sdk"
  /\ sdk.phase = "sent" => sdk.cred \in Credential
  /\ (sdk.phase = "sent" /\ sdk.by = "flight" /\ flight.before # None) =>
       sdk.cred = flight.before \/ latest # flight.before
  /\ (flight.phase \in {"current", "check"} /\ flight.before # None) =>
       flight.before.n \in refused \/ latest # flight.before

WorkOK ==
  /\ work.phase = "try" => used = {}
  /\ work.phase \in {"refresh", "retry"} => used = {work.cred.who}
  /\ used = {} \/ \E a : used = {a}

AuthInv ==
  /\ Shape /\ QueueOK /\ FreshOK /\ UnreadOK /\ SlotOK /\ FlightOK /\ WorkOK
  /\ RemovedWereRefused

-----------------------------------------------------------------------------
(* How the queue changes *)

(* The first d tasks go; in the second form one task comes to the end. *)
Shifted(d) ==
  /\ queue' \in Seq(Task)
  /\ \A i \in DOMAIN queue' :
       i + d \in DOMAIN queue /\ queue'[i] = queue[i + d]
Extended(d, t) ==
  /\ queue' \in Seq(Task)
  /\ \A i \in DOMAIN queue' :
       \/ i + d \in DOMAIN queue /\ queue'[i] = queue[i + d]
       \/ i = Len(queue) - d + 1 /\ queue'[i] = t

LEMMA HeadOf ==
  ASSUME queue \in Seq(Task), queue # <<>>
  PROVE  1 \in DOMAIN queue /\ Head(queue) = queue[1] /\ Head(queue) \in Task
OBVIOUS

LEMMA TailOf ==
  ASSUME queue \in Seq(Task), queue # <<>>
  PROVE  /\ Tail(queue) \in Seq(Task) /\ Len(Tail(queue)) = Len(queue) - 1
         /\ \A i \in DOMAIN Tail(queue) : /\ i + 1 \in DOMAIN queue
                                          /\ Tail(queue)[i] = queue[i + 1]
OBVIOUS

LEMMA Taken ==
  ASSUME queue \in Seq(Task), queue # <<>>, queue' = Tail(queue) \o <<>>
  PROVE  Shifted(1)
<1>1. Tail(queue) \o <<>> = Tail(queue)
  BY TailOf
<1> QED BY <1>1, TailOf DEF Shifted

LEMMA Replaced ==
  ASSUME queue \in Seq(Task), queue # <<>>, NEW t \in Task,
         queue' = Tail(queue) \o <<t>>
  PROVE  Extended(1, t)
<1> DEFINE rest == Tail(queue)
<1>1. /\ rest \in Seq(Task) /\ Len(rest) = Len(queue) - 1
      /\ \A i \in DOMAIN rest : i + 1 \in DOMAIN queue /\ rest[i] = queue[i + 1]
  BY TailOf
<1> HIDE DEF rest
<1>2. /\ rest \o <<t>> \in Seq(Task)
      /\ \A i \in DOMAIN (rest \o <<t>>) :
           \/ i \in DOMAIN rest /\ (rest \o <<t>>)[i] = rest[i]
           \/ i = Len(rest) + 1 /\ (rest \o <<t>>)[i] = t
  BY <1>1
<1> QED BY <1>1, <1>2 DEF Extended, rest

LEMMA Appended ==
  ASSUME queue \in Seq(Task), NEW t \in Task,
         queue' = Append(queue, t) \/ queue' = queue \o <<t>>
  PROVE  Extended(0, t)
<1>1. /\ queue' \in Seq(Task)
      /\ \A i \in DOMAIN queue' : \/ i \in DOMAIN queue /\ queue'[i] = queue[i]
                                  \/ i = Len(queue) + 1 /\ queue'[i] = t
  OBVIOUS
<1>2. \A i \in DOMAIN queue' : i + 0 = i
  BY <1>1
<1>3. Len(queue) - 0 + 1 = Len(queue) + 1
  OBVIOUS
<1> QED BY <1>1, <1>2, <1>3 DEF Extended

LEMMA Unmoved ==
  ASSUME queue \in Seq(Task), UNCHANGED queue
  PROVE  Shifted(0)
BY DEF Shifted

LEMMA Pushed ==
  ASSUME NEW t \in Task, NEW rest \in Seq(Task)
  PROVE  LET all == <<t>> \o rest
         IN /\ all \in Seq(Task) /\ Len(all) = Len(rest) + 1 /\ all[1] = t
            /\ \A i \in DOMAIN all : i # 1 => /\ i - 1 \in DOMAIN rest
                                             /\ all[i] = rest[i - 1]
OBVIOUS

LEMMA ShiftKeeps ==
  ASSUME QueueOK, queue \in Seq(Task), NEW d \in {0, 1}, Shifted(d),
         \A i \in DOMAIN queue' : TaskOK(i, queue[i])'
  PROVE  QueueOK' /\ (Writing' => Writing)
<1>1. ASSUME NEW i \in DOMAIN queue', NEW j \in DOMAIN queue',
             Alike(queue'[i], queue'[j])
      PROVE  i = j
  <2>1. i + d = j + d
    BY <1>1 DEF Shifted, QueueOK
  <2> QED BY <2>1 DEF Shifted
<1>2. Writing' => Writing
  BY DEF Writing, Shifted
<1> QED BY <1>1, <1>2 DEF QueueOK, Alike

LEMMA ExtendKeeps ==
  ASSUME QueueOK, queue \in Seq(Task), NEW d \in {0, 1}, NEW u \in Task,
         Extended(d, u), Len(queue) >= d,
         \A i \in DOMAIN queue : i > d => ~Alike(queue[i], u),
         \A i \in DOMAIN queue' : TaskOK(i, queue[i])'
  PROVE  QueueOK' /\ (Writing' => Writing \/ u.op \in Writer)
<1> DEFINE Mine(i) == /\ i + d \in DOMAIN queue /\ i + d > d
                      /\ queue'[i] = queue[i + d]
           New(i) == i = Len(queue) - d + 1 /\ queue'[i] = u
<1>1. \A i \in DOMAIN queue' : Mine(i) \/ New(i)
  BY DEF Extended
<1>2. ASSUME NEW i \in DOMAIN queue', NEW j \in DOMAIN queue',
             Alike(queue'[i], queue'[j])
      PROVE  i = j
  <2>1. CASE Mine(i) /\ Mine(j)
    <3>1. i + d = j + d
      BY <1>2, <2>1 DEF QueueOK
    <3> QED BY <2>1, <3>1 DEF Extended
  <2>2. CASE Mine(i) /\ New(j)
    BY <1>2, <2>2 DEF Alike
  <2>3. CASE New(i) /\ Mine(j)
    BY <1>2, <2>3 DEF Alike
  <2>4. CASE New(i) /\ New(j)
    BY <2>4
  <2> QED BY <1>1, <2>1, <2>2, <2>3, <2>4
<1>3. Writing' => Writing \/ u.op \in Writer
  BY <1>1 DEF Writing
<1> QED BY <1>2, <1>3 DEF QueueOK, Alike

-----------------------------------------------------------------------------
(* Storage *)

LEMMA Constants ==
  ASSUME AuthAssumption
  PROVE  /\ None \in Stored /\ None \notin Credential /\ Unread \notin Stored
         /\ Serial \subseteq Nat /\ \A c \in Stored : c.n \in Nat
         /\ \A c \in Stored : c.who = NoOne => c = None
         /\ \A c \in Credential : c.who \in Accounts /\ c.who # NoOne
         /\ Credential \subseteq Stored
         /\ Landed \in Flight /\ Unlocked \in Sdk /\ NoWork \in Work
<1>1. /\ None \in Stored /\ Serial \subseteq Nat /\ Credential \subseteq Stored
      /\ 0 \in Serial
  BY DEF AuthAssumption, Serial, Stored
<1>2. \A c \in Credential : c.who \in Accounts /\ c.who # NoOne /\ c.n \in Serial
  BY DEF AuthAssumption, Credential
<1>3. None.who = NoOne /\ None.n = 0 /\ Unread.who = NoOne
      /\ Unread.n = MaxIssued + 1
  BY DEF None, Unread
<1>4. Unread \notin Stored
  BY <1>2, <1>3 DEF Stored, AuthAssumption
<1>5. None \notin Credential
  BY <1>2, <1>3
<1>6. \A c \in Stored : c.n \in Nat /\ (c.who = NoOne => c = None)
  BY <1>1, <1>2, <1>3 DEF Stored
<1>7. Landed \in Flight /\ Unlocked \in Sdk /\ NoWork \in Work
  BY <1>1 DEF Landed, Flight, Unlocked, Sdk, NoWork, Work
<1> QED BY <1>1, <1>2, <1>4, <1>5, <1>6, <1>7

LEMMA Flushing ==
  ASSUME AuthAssumption, AuthInv, NEW g, Flushed(g)
  PROVE  /\ slot' \in Stored /\ latest' = latest /\ Old(slot') /\ SlotOK'
         /\ UNCHANGED <<slot, persisted>> \/ latest # Unread
         /\ latest = Unread => ~pending'
<1>1. CASE UNCHANGED <<slot, persisted, latest>> /\ (pending' => pending)
  BY <1>1 DEF AuthInv, Shape, SlotOK, FreshOK, UnreadOK
<1>2. CASE /\ pending /\ slot' = latest /\ persisted' = latest.who
           /\ UNCHANGED latest
  <2>1. latest # Unread /\ latest \in Stored
    BY <1>2 DEF AuthInv, UnreadOK, Shape
  <2> QED BY <1>2, <2>1 DEF AuthInv, FreshOK, SlotOK
<1> QED BY <1>1, <1>2 DEF Flushed, slotVars

LEMMA Reading ==
  ASSUME AuthAssumption, AuthInv, Loaded
  PROVE  /\ slot' \in Stored /\ latest' \in Stored /\ latest' # Unread
         /\ Old(slot') /\ Old(latest') /\ SlotOK'
         /\ latest # Unread => latest' = latest
<1>1. CASE latest # Unread
  <2>1. Flushed(generation)
    BY <1>1 DEF Loaded, IsRead
  <2>2. latest \in Stored /\ Old(latest)
    BY <1>1 DEF AuthInv, Shape, FreshOK
  <2> QED BY <1>1, <2>1, <2>2, Flushing
<1>2. CASE latest = Unread
  <2>1. persisted' = slot.who /\ latest' = slot /\ slot' = slot
    BY <1>2 DEF Loaded, IsRead
  <2>2. slot \in Stored /\ Old(slot) /\ slot # Unread
    BY Constants DEF AuthInv, Shape, FreshOK
  <2> QED BY <1>2, <2>1, <2>2 DEF SlotOK
<1> QED BY <1>1, <1>2

(* A step that reads leaves the rest to the flight and its caller. *)
LEMMA ReadStep ==
  ASSUME AuthAssumption, AuthInv, Loaded, UNCHANGED <<issued, generation>>,
         QueueOK', queue' \in Seq(Task), Writing' => Writing,
         sdk' \in Sdk, flight' \in Flight, work' \in Work, Old(flight'.before),
         FlightOK', WorkOK', RemovedWereRefused'
  PROVE  AuthInv'
<1>1. Shape'
  BY Reading DEF AuthInv, Shape
<1>2. FreshOK'
  BY Reading DEF FreshOK, Old
<1>3. UnreadOK' /\ SlotOK'
  BY Reading DEF UnreadOK
<1> QED BY <1>1, <1>2, <1>3 DEF AuthInv

(* When a flight ends the operation that waits goes on under its account. *)
LEMMA Joining ==
  ASSUME AuthAssumption, AuthInv, NEW s \in Stored, Joined(s), UNCHANGED used
  PROVE  /\ flight' = Landed /\ work' \in Work /\ WorkOK'
         /\ flight' \in Flight /\ Old(flight'.before)
         /\ work.phase = "idle" => work'.phase = "idle"
<1>1. flight' = Landed /\ Landed \in Flight
  BY Constants DEF Joined
<1>2. Old(Landed.before)
  <2>1. Writing => issued > 0
    BY DEF AuthInv, QueueOK, TaskOK, Writing
  <2>2. issued \in Nat
    BY Constants DEF AuthInv, Shape
  <2> QED BY <2>1, <2>2 DEF Old, Landed, None
<1>3. CASE work.phase # "refresh"
  BY <1>1, <1>2, <1>3 DEF Joined, AuthInv, Shape, WorkOK
<1>4. CASE work.phase = "refresh" /\ s.who # work.cred.who
  BY <1>1, <1>2, <1>4, Constants DEF Joined, AuthInv, WorkOK, NoWork
<1>5. CASE work.phase = "refresh" /\ s.who = work.cred.who
  <2>1. work' = [phase |-> "retry", cred |-> s]
    BY <1>5 DEF Joined
  <2>2. work' \in Work
    BY <2>1 DEF Work
  <2>3. used = {s.who}
    BY <1>5 DEF AuthInv, WorkOK
  <2> QED BY <1>1, <1>2, <1>5, <2>1, <2>2, <2>3 DEF WorkOK
<1> QED BY <1>3, <1>4, <1>5

-----------------------------------------------------------------------------
(* Recovery *)

(* A task of the flight at the head of the queue is the only one. *)
LEMMA AtTheHead ==
  ASSUME AuthInv, NEW ops, AtHead(ops)
  PROVE  /\ queue # <<>> /\ queue \in Seq(Task) /\ Len(queue) >= 1
         /\ 1 \in DOMAIN queue /\ Head(queue) = queue[1] /\ queue[1] \in Task
         /\ queue[1].op \in ops /\ TaskOK(1, queue[1])
         /\ \A i \in DOMAIN queue : i > 1 => ~Alike(queue[1], queue[i])
<1>1. queue # <<>> /\ queue \in Seq(Task) /\ Head(queue).op \in ops
  BY DEF AtHead, AuthInv, Shape
<1>2. 1 \in DOMAIN queue /\ Head(queue) = queue[1] /\ queue[1] \in Task
  BY <1>1, HeadOf
<1>3. Len(queue) >= 1
  BY <1>1
<1>4. TaskOK(1, queue[1])
  BY <1>2 DEF AuthInv, QueueOK
<1>5. \A i \in DOMAIN queue : i > 1 => ~Alike(queue[1], queue[i])
  BY <1>2 DEF AuthInv, QueueOK
<1> QED BY <1>1, <1>2, <1>3, <1>4, <1>5

LEMMA Asked ==
  ASSUME AuthAssumption, NEW op \in Reader
  PROVE  Ask(op) \in Task /\ Ask(op).op = op /\ ~Ask(op).cleared
BY Constants DEF Ask, Task

LEMMA StepBefore == ASSUME AuthAssumption, AuthInv, ReadBefore PROVE AuthInv'
<1>1. AtHead({"before"}) /\ Loaded
  BY DEF ReadBefore, Reads
<1>2. /\ queue' = Tail(queue) \o <<Ask("look")>>
      /\ flight' = [flight EXCEPT !.phase = "look", !.before = latest']
      /\ UNCHANGED <<issued, generation, sdk, work, used, refused, removed>>
  BY DEF ReadBefore, Enqueued, serverVars, history
<1>3. Ask("look") \in Task /\ Ask("look").op = "look" /\ ~Ask("look").cleared
  BY Asked DEF Reader
<1>4. Extended(1, Ask("look"))
  BY <1>1, <1>2, <1>3, AtTheHead, Replaced
<1>5. latest' \in Stored /\ Old(latest') /\ (latest # Unread => latest' = latest)
  BY <1>1, Reading
<1>6. flight' \in Flight /\ flight'.before = latest' /\ flight'.phase = "look"
  BY <1>2, <1>5 DEF AuthInv, Shape, Flight, Reader
<1>7. flight.phase = "before" /\ queue[1].op = "before"
  BY <1>1, AtTheHead DEF TaskOK, FlightOp
<1>8. \A i \in DOMAIN queue : i > 1 => queue[i].op \notin FlightOp
  BY <1>1, <1>7, AtTheHead DEF Alike, FlightOp
<1>9. \A i \in DOMAIN queue' : TaskOK(i, queue[i])'
  BY <1>2, <1>3, <1>4, <1>6, <1>8
  DEF AuthInv, QueueOK, TaskOK, Extended, FlightOp, LockOp, Writer
<1>10. QueueOK' /\ (Writing' => Writing)
  BY <1>1, <1>3, <1>4, <1>8, <1>9, AtTheHead, ExtendKeeps
  DEF AuthInv, Alike, LockOp, Writer
<1>11. FlightOK' /\ WorkOK' /\ RemovedWereRefused'
  BY <1>2, <1>6, <1>7 DEF AuthInv, FlightOK, WorkOK, RemovedWereRefused
<1> QED BY <1>1, <1>2, <1>4, <1>5, <1>6, <1>10, <1>11, ReadStep
        DEF AuthInv, Shape, Extended

(* The flight's task is taken from the queue and nothing is added. *)
LEMMA Last ==
  ASSUME AuthInv, NEW op \in FlightOp, AtHead({op}), Enqueued(<<>>),
         UNCHANGED issued, latest' # Unread,
         sdk' = sdk \/ (sdk.phase = "read" /\ op = "sdk")
  PROVE  /\ QueueOK' /\ (Writing' => Writing) /\ queue' \in Seq(Task)
         /\ \A i \in DOMAIN queue' : queue'[i].op \notin FlightOp
<1>1. Shifted(1)
  BY AtTheHead, Taken DEF Enqueued
<1>2. \A i \in DOMAIN queue : i > 1 => queue[i].op \notin FlightOp
  BY AtTheHead DEF Alike, FlightOp
<1>3. \A i \in DOMAIN queue' : i + 1 \in DOMAIN queue /\ i + 1 > 1
                               /\ queue'[i] = queue[i + 1]
  BY <1>1 DEF Shifted
<1>4. op = "sdk" => sdk.phase = "read"
  BY AtTheHead DEF TaskOK
<1>5. \A i \in DOMAIN queue' : queue'[i].op \in LockOp => sdk'.phase = "save"
  BY <1>3 DEF AuthInv, QueueOK, TaskOK
<1>6. \A i \in DOMAIN queue' : TaskOK(i, queue[i])'
  BY <1>2, <1>3, <1>5
  DEF AuthInv, QueueOK, TaskOK, FlightOp, LockOp, Writer
<1> QED BY <1>1, <1>2, <1>3, <1>6, AtTheHead, ShiftKeeps DEF AuthInv, Shifted

(* It makes way for another task of the flight. *)
LEMMA Follows ==
  ASSUME AuthInv, NEW op \in FlightOp, AtHead({op}), NEW u \in Task,
         queue' = Tail(queue) \o <<u>>, u.op \in FlightOp \ {"sdk"}, ~u.cleared,
         UNCHANGED issued, latest' # Unread,
         flight'.phase = (IF u.op = "drop" THEN "after" ELSE u.op),
         sdk' = sdk \/ (sdk.phase = "read" /\ op = "sdk")
  PROVE  QueueOK' /\ (Writing' => Writing) /\ queue' \in Seq(Task)
<1>1. Extended(1, u)
  BY AtTheHead, Replaced
<1>2. \A i \in DOMAIN queue : i > 1 => queue[i].op \notin FlightOp
  BY AtTheHead DEF Alike, FlightOp
<1>3. \A i \in DOMAIN queue' : \/ /\ i + 1 \in DOMAIN queue /\ i + 1 > 1
                                  /\ queue'[i] = queue[i + 1]
                               \/ queue'[i] = u
  BY <1>1 DEF Extended
<1>4. u.op \notin LockOp /\ u.op # "restore" /\ u.op \notin Writer
  BY DEF FlightOp, LockOp, Writer
<1>5. \A i \in DOMAIN queue' : queue'[i].op \in LockOp => sdk'.phase = "save"
  BY <1>3, <1>4 DEF AuthInv, QueueOK, TaskOK
<1>6. \A i \in DOMAIN queue' : TaskOK(i, queue[i])'
  BY <1>2, <1>3, <1>4, <1>5
  DEF AuthInv, QueueOK, TaskOK, FlightOp, LockOp, Writer
<1>7. \A i \in DOMAIN queue : i > 1 => ~Alike(queue[i], u)
  BY <1>2, <1>4 DEF Alike
<1> QED BY <1>1, <1>4, <1>6, <1>7, AtTheHead, ExtendKeeps DEF AuthInv, Extended

LEMMA StepLook == ASSUME AuthAssumption, AuthInv, ReadLook PROVE AuthInv'
<1>1. AtHead({"look"}) /\ Loaded
  BY DEF ReadLook, Reads
<1>2. /\ Enqueued(<<>>)
      /\ flight' = [flight EXCEPT !.phase = "wait", !.seen = latest']
      /\ UNCHANGED <<issued, generation, sdk, work, used, refused, removed>>
  BY DEF ReadLook, serverVars, history
<1>3. latest' \in Stored /\ latest' # Unread
  BY <1>1, Reading
<1>4. /\ flight' \in Flight /\ flight'.before = flight.before
      /\ flight'.phase = "wait"
  BY <1>2, <1>3 DEF AuthInv, Shape, Flight
<1>5. flight.phase = "look"
  BY <1>1, AtTheHead DEF TaskOK, FlightOp
<1>6. QueueOK' /\ (Writing' => Writing) /\ queue' \in Seq(Task)
  BY <1>1, <1>2, <1>3, Last DEF FlightOp
<1>7. FlightOK' /\ WorkOK' /\ RemovedWereRefused'
  BY <1>2, <1>4, <1>5 DEF AuthInv, FlightOK, WorkOK, RemovedWereRefused
<1> QED BY <1>1, <1>2, <1>4, <1>6, <1>7, ReadStep DEF AuthInv, Shape, FreshOK

(* A flight that ends leaves no claim on the SDK. *)
LEMMA Lands ==
  ASSUME AuthInv, flight' = Landed,
         sdk' \in {sdk, Unlocked}, sdk'.phase = "idle" \/ flight.phase # "sdk",
         UNCHANGED refused
  PROVE  FlightOK'
BY DEF AuthInv, FlightOK, Landed, Unlocked

LEMMA StepSdk == ASSUME AuthAssumption, AuthInv, ReadSdk PROVE AuthInv'
<1>1. AtHead({"sdk"}) /\ Loaded
  BY DEF ReadSdk, Reads
<1>2. UNCHANGED <<issued, generation, used, refused, removed>>
  BY DEF ReadSdk, serverVars, history
<1>3. latest' \in Stored /\ latest' # Unread
  BY <1>1, Reading
<1>4. flight.phase = "sdk" /\ sdk.phase = "read"
  BY <1>1, AtTheHead DEF TaskOK, FlightOp
<1>5. RemovedWereRefused'
  BY <1>2 DEF AuthInv, RemovedWereRefused
<1>6. Unlocked \in Sdk /\ sdk \in Sdk /\ flight \in Flight /\ work \in Work
      /\ Old(flight.before) /\ None \in Stored
  BY Constants DEF AuthInv, Shape, FreshOK
<1>7. CASE latest' = None
  <2>1. /\ sdk' = Unlocked /\ UNCHANGED work
        /\ flight' = [flight EXCEPT !.phase = "current"]
        /\ queue' = Tail(queue) \o <<Ask("current")>>
    BY <1>7 DEF ReadSdk, Enqueued
  <2>2. /\ flight' \in Flight /\ flight'.phase = "current"
        /\ flight'.before = flight.before
    BY <1>6, <2>1 DEF Flight, Reader
  <2>3. /\ Ask("current") \in Task /\ Ask("current").op = "current"
        /\ ~Ask("current").cleared
    BY Asked DEF Reader
  <2>4. QueueOK' /\ (Writing' => Writing) /\ queue' \in Seq(Task)
    BY <1>1, <1>2, <1>3, <1>4, <2>1, <2>2, <2>3, Follows DEF FlightOp
  <2>5. FlightOK' /\ WorkOK'
    BY <1>2, <1>7, <2>1, <2>2 DEF AuthInv, FlightOK, WorkOK, Unlocked
  <2> QED BY <1>1, <1>2, <1>5, <1>6, <2>1, <2>2, <2>4, <2>5, ReadStep
<1>8. CASE latest' # None /\ flight.seen # None /\ latest' # flight.seen
  <2>1. sdk' = Unlocked /\ Returns(latest') /\ Enqueued(<<>>)
    BY <1>8 DEF ReadSdk
  <2> DEFINE s == IF flight.before # None /\ latest'.who # flight.before.who
                  THEN None ELSE latest'
  <2>2. s \in Stored
    BY <1>3, <1>6
  <2>3. Joined(s)
    BY <2>1 DEF Returns
  <2> HIDE DEF s
  <2>4. /\ flight' = Landed /\ work' \in Work /\ WorkOK'
        /\ flight' \in Flight /\ Old(flight'.before)
    BY <1>2, <2>2, <2>3, Joining
  <2>5. QueueOK' /\ (Writing' => Writing) /\ queue' \in Seq(Task)
    BY <1>1, <1>2, <1>3, <1>4, <2>1, Last DEF FlightOp
  <2>6. FlightOK'
    BY <1>2, <2>1, <2>4, Lands DEF Unlocked
  <2> QED BY <1>1, <1>2, <1>5, <1>6, <2>1, <2>4, <2>5, <2>6, ReadStep
<1>9. CASE ~(latest' = None) /\ ~(flight.seen # None /\ latest' # flight.seen)
  <2>1. /\ sdk' = [sdk EXCEPT !.phase = "sent", !.cred = latest']
        /\ Enqueued(<<>>) /\ UNCHANGED <<flight, work>>
    BY <1>9 DEF ReadSdk
  <2>2. sdk' \in Sdk /\ sdk'.cred = latest' /\ sdk'.by = sdk.by
    BY <1>3, <1>6, <2>1 DEF Sdk
  <2>3. QueueOK' /\ (Writing' => Writing) /\ queue' \in Seq(Task)
    BY <1>1, <1>2, <1>3, <1>4, <2>1, Last DEF FlightOp
  <2>4. latest' \in Credential
    BY <1>3, <1>9 DEF Stored
  <2>5. FlightOK' /\ WorkOK'
    BY <1>2, <1>4, <1>9, <2>1, <2>2, <2>4 DEF AuthInv, FlightOK, WorkOK
  <2> QED BY <1>1, <1>2, <1>5, <1>6, <2>1, <2>2, <2>3, <2>5, ReadStep
<1> QED BY <1>7, <1>8, <1>9

LEMMA StepCurrent == ASSUME AuthAssumption, AuthInv, ReadCurrent PROVE AuthInv'
<1>1. AtHead({"current"}) /\ Loaded
  BY DEF ReadCurrent, Reads
<1>2. UNCHANGED <<issued, generation, sdk, used, refused, removed>>
  BY DEF ReadCurrent, serverVars, history
<1>3. /\ latest' \in Stored /\ latest' # Unread
      /\ latest # Unread => latest' = latest
  BY <1>1, Reading
<1>4. flight.phase = "current"
  BY <1>1, AtTheHead DEF TaskOK, FlightOp
<1>5. RemovedWereRefused'
  BY <1>2 DEF AuthInv, RemovedWereRefused
<1>6. sdk \in Sdk /\ flight \in Flight /\ work \in Work /\ Old(flight.before)
  BY DEF AuthInv, Shape, FreshOK
<1>7. CASE Moved(latest')
  <2>1. Joined(latest') /\ Enqueued(<<>>)
    BY <1>7 DEF ReadCurrent
  <2>2. /\ flight' = Landed /\ work' \in Work /\ WorkOK'
        /\ flight' \in Flight /\ Old(flight'.before)
    BY <1>2, <1>3, <2>1, Joining
  <2>3. QueueOK' /\ (Writing' => Writing) /\ queue' \in Seq(Task)
    BY <1>1, <1>2, <1>3, <2>1, Last DEF FlightOp
  <2>4. FlightOK'
    BY <1>2, <1>4, <2>2, Lands
  <2> QED BY <1>1, <1>2, <1>5, <1>6, <2>2, <2>3, <2>4, ReadStep
<1>8. CASE ~Moved(latest')
  <2>1. /\ flight' = [flight EXCEPT !.phase = "check"]
        /\ queue' = Tail(queue) \o <<Ask("check")>> /\ UNCHANGED work
    BY <1>8 DEF ReadCurrent, Enqueued
  <2>2. /\ flight' \in Flight /\ flight'.phase = "check"
        /\ flight'.before = flight.before
    BY <1>6, <2>1 DEF Flight, Reader
  <2>3. Ask("check") \in Task /\ Ask("check").op = "check" /\ ~Ask("check").cleared
    BY Asked DEF Reader
  <2>4. QueueOK' /\ (Writing' => Writing) /\ queue' \in Seq(Task)
    BY <1>1, <1>2, <1>3, <2>1, <2>2, <2>3, Follows DEF FlightOp
  <2>5. latest' = latest
    BY <1>3, <1>4 DEF AuthInv, UnreadOK
  <2>6. FlightOK'
    BY <1>2, <1>4, <2>2, <2>5 DEF AuthInv, FlightOK
  <2>7. WorkOK'
    BY <1>2, <2>1 DEF AuthInv, WorkOK
  <2> QED BY <1>1, <1>2, <1>5, <1>6, <2>1, <2>2, <2>4, <2>6, <2>7, ReadStep
<1> QED BY <1>7, <1>8

LEMMA StepAfter == ASSUME AuthAssumption, AuthInv, ReadAfter PROVE AuthInv'
<1>1. AtHead({"after"}) /\ Loaded
  BY DEF ReadAfter, Reads
<1>2. Enqueued(<<>>) /\ UNCHANGED <<issued, generation, sdk, used, refused, removed>>
  BY DEF ReadAfter, serverVars, history
<1>3. latest' \in Stored /\ latest' # Unread
  BY <1>1, Reading
<1>4. flight.phase = "after"
  BY <1>1, AtTheHead DEF TaskOK, FlightOp
<1>5. Joined(latest') \/ Joined(None)
  BY DEF ReadAfter
<1>6. /\ flight' = Landed /\ work' \in Work /\ WorkOK'
      /\ flight' \in Flight /\ Old(flight'.before)
  BY <1>2, <1>3, <1>5, Joining, Constants
<1>7. QueueOK' /\ (Writing' => Writing) /\ queue' \in Seq(Task)
  BY <1>1, <1>2, <1>3, Last DEF FlightOp
<1>8. FlightOK' /\ RemovedWereRefused'
  BY <1>2, <1>4, <1>6, Lands DEF AuthInv, RemovedWereRefused
<1> QED BY <1>1, <1>2, <1>6, <1>7, <1>8, ReadStep DEF AuthInv, Shape

(* The credential that is removed is none, or that of before, which was    *)
(* refused: FlightOK leaves no third case.                                 *)
LEMMA StepCheck == ASSUME AuthAssumption, AuthInv, ReadCheck PROVE AuthInv'
<1>1. AtHead({"check"}) /\ flight.phase = "check"
  BY AtTheHead DEF ReadCheck, TaskOK, FlightOp
<1>2. UNCHANGED <<issued, sdk, work, used, refused>>
  BY DEF ReadCheck, serverVars
<1>3. sdk \in Sdk /\ flight \in Flight /\ work \in Work /\ Old(flight.before)
  BY DEF AuthInv, Shape, FreshOK
<1>4. WorkOK'
  BY <1>2 DEF AuthInv, WorkOK
<1>5. CASE Moved(latest) /\ Loaded /\ flight' = [flight EXCEPT !.phase = "after"]
           /\ Enqueued(<<Ask("after")>>) /\ UNCHANGED <<generation, removed>>
  <2>1. /\ flight' \in Flight /\ flight'.phase = "after"
        /\ flight'.before = flight.before
    BY <1>3, <1>5 DEF Flight, Reader
  <2>2. Ask("after") \in Task /\ Ask("after").op = "after" /\ ~Ask("after").cleared
    BY Asked DEF Reader
  <2>3. latest' # Unread
    BY <1>5, Reading
  <2>4. QueueOK' /\ (Writing' => Writing) /\ queue' \in Seq(Task)
    BY <1>1, <1>2, <1>5, <2>1, <2>2, <2>3, Follows DEF FlightOp, Enqueued
  <2>5. FlightOK' /\ RemovedWereRefused'
    BY <1>1, <1>2, <1>5, <2>1 DEF AuthInv, FlightOK, RemovedWereRefused
  <2> QED BY <1>2, <1>3, <1>4, <1>5, <2>1, <2>4, <2>5, ReadStep
<1>6. CASE /\ ~Moved(latest)
           /\ flight' = [flight EXCEPT !.phase = "after", !.gone = TRUE]
           /\ Tombstone("drop")
           /\ removed' = removed \cup ({latest.n} \ {0})
           /\ UNCHANGED slotVars
  <2> DEFINE drop == [op |-> "drop", cred |-> None, gen |-> generation + 1,
                      cleared |-> FALSE]
  <2>1. /\ generation' = generation + 1 /\ pending' = TRUE /\ latest' = None
        /\ queue' = Tail(queue) \o <<drop>>
    BY <1>6 DEF Tombstone
  <2>2. drop \in Task /\ drop.op = "drop" /\ ~drop.cleared
    BY Constants DEF Task, Eraser, AuthInv, Shape
  <2> HIDE DEF drop
  <2>3. /\ flight' \in Flight /\ flight'.phase = "after"
        /\ flight'.before = flight.before
    BY <1>3, <1>6 DEF Flight, Reader
  <2>4. latest' # Unread /\ latest' \in Stored /\ latest' \notin Credential
    BY <2>1, Constants
  <2>5. QueueOK' /\ (Writing' => Writing) /\ queue' \in Seq(Task)
    BY <1>1, <1>2, <2>1, <2>2, <2>3, <2>4, Follows DEF FlightOp
  <2>6. FlightOK'
    BY <1>1, <1>2, <2>3 DEF AuthInv, FlightOK
  <2>7. RemovedWereRefused'
    <3>1. latest # Unread
      BY <1>1 DEF AuthInv, UnreadOK
    <3>2. latest = None \/ latest = flight.before
      BY <1>6 DEF Moved, Same
    <3>3. latest.n = 0 \/ latest.n \in refused
      BY <1>1, <3>2 DEF AuthInv, FlightOK, None
    <3> QED BY <1>2, <1>6, <3>3 DEF AuthInv, RemovedWereRefused
  <2>8. Shape' /\ UnreadOK' /\ SlotOK'
    BY <1>2, <1>3, <1>6, <2>1, <2>3, <2>4, <2>5
    DEF AuthInv, Shape, UnreadOK, SlotOK, slotVars
  <2>9. FreshOK'
    <3>1. Old(None)
      <4>1. Writing => issued > 0
        BY DEF AuthInv, QueueOK, TaskOK, Writing
      <4> QED BY <4>1, Constants DEF Old, None, AuthInv, Shape
    <3> QED BY <1>2, <1>3, <1>6, <2>1, <2>3, <2>5, <3>1
            DEF AuthInv, FreshOK, Old, slotVars
  <2> QED BY <1>4, <2>5, <2>6, <2>7, <2>8, <2>9 DEF AuthInv
<1> QED BY <1>5, <1>6 DEF ReadCheck

LEMMA StepRestore == ASSUME AuthAssumption, AuthInv, ReadRestore PROVE AuthInv'
<1>1. AtHead({"restore"}) /\ Loaded
  BY DEF ReadRestore, Reads
<1>2. UNCHANGED <<issued, generation, sdk, work, used, refused, removed>>
  BY DEF ReadRestore, serverVars, history
<1>3. latest' \in Stored /\ latest' # Unread
  BY <1>1, Reading
<1>4. latest = Unread /\ flight.phase = "idle"
  BY <1>1, AtTheHead DEF TaskOK, AuthInv, UnreadOK
<1>5. \A i \in DOMAIN queue : queue[i].op \notin FlightOp
  BY <1>4 DEF AuthInv, QueueOK, TaskOK, FlightOp
<1>6. sdk \in Sdk /\ flight \in Flight /\ work \in Work /\ Old(flight.before)
  BY DEF AuthInv, Shape, FreshOK
<1>7. WorkOK' /\ RemovedWereRefused'
  BY <1>2 DEF AuthInv, WorkOK, RemovedWereRefused
<1>8. CASE latest' = None
  <2>1. Enqueued(<<>>) /\ UNCHANGED flight
    BY <1>8 DEF ReadRestore
  <2>2. Shifted(1)
    BY <1>1, <2>1, AtTheHead, Taken DEF Enqueued
  <2>3. \A i \in DOMAIN queue' : /\ i + 1 \in DOMAIN queue /\ i + 1 > 1
                                 /\ queue'[i] = queue[i + 1]
    BY <2>2 DEF Shifted
  <2>4. \A i \in DOMAIN queue' : TaskOK(i, queue[i])'
    BY <1>2, <1>5, <2>3 DEF AuthInv, QueueOK, TaskOK, FlightOp
  <2>5. QueueOK' /\ (Writing' => Writing) /\ queue' \in Seq(Task)
    BY <1>1, <2>2, <2>4, AtTheHead, ShiftKeeps DEF AuthInv, Shifted
  <2>6. FlightOK'
    BY <1>2, <1>4, <2>1 DEF AuthInv, FlightOK
  <2> QED BY <1>1, <1>2, <1>6, <1>7, <2>1, <2>5, <2>6, ReadStep
<1>9. CASE latest' # None
  <2>1. /\ queue' = Tail(queue) \o <<Ask("before")>>
        /\ flight' = [Landed EXCEPT !.phase = "before"]
    BY <1>9 DEF ReadRestore, Enqueued
  <2>2. /\ flight' \in Flight /\ flight'.phase = "before"
        /\ flight'.before = None
    BY <2>1, Constants DEF Flight, Reader, Landed
  <2>3. /\ Ask("before") \in Task /\ Ask("before").op = "before"
        /\ ~Ask("before").cleared
    BY Asked DEF Reader
  <2>4. Extended(1, Ask("before"))
    BY <1>1, <2>1, <2>3, AtTheHead, Replaced
  <2>5. \A i \in DOMAIN queue' : \/ /\ i + 1 \in DOMAIN queue /\ i + 1 > 1
                                    /\ queue'[i] = queue[i + 1]
                                 \/ queue'[i] = Ask("before")
    BY <2>4 DEF Extended
  <2>6. \A i \in DOMAIN queue' : TaskOK(i, queue[i])'
    BY <1>2, <1>5, <2>2, <2>3, <2>5
    DEF AuthInv, QueueOK, TaskOK, FlightOp, LockOp, Writer
  <2>7. \A i \in DOMAIN queue : i > 1 => ~Alike(queue[i], Ask("before"))
    BY <1>5, <2>3 DEF Alike, LockOp, Writer
  <2>8. QueueOK' /\ (Writing' => Writing) /\ queue' \in Seq(Task)
    BY <1>1, <2>3, <2>4, <2>6, <2>7, AtTheHead, ExtendKeeps
    DEF AuthInv, Extended, Writer
  <2>9. FlightOK'
    BY <1>2, <1>4, <2>2 DEF AuthInv, FlightOK
  <2>10. Old(flight'.before)
    <3>1. Writing => issued > 0
      BY DEF AuthInv, QueueOK, TaskOK, Writing
    <3> QED BY <2>2, <3>1, Constants DEF Old, None, AuthInv, Shape
  <2> QED BY <1>1, <1>2, <1>6, <1>7, <2>2, <2>8, <2>9, <2>10, ReadStep
<1> QED BY <1>8, <1>9

-----------------------------------------------------------------------------
(* Storage tasks *)

LEMMA StepErase == ASSUME AuthAssumption, AuthInv, EraseTask PROVE AuthInv'
<1>1. AtHead(Eraser) /\ Flushed(Head(queue).gen)
  BY DEF EraseTask
<1>2. UNCHANGED <<issued, generation, flight, work, used, refused, removed>>
  BY DEF EraseTask, serverVars, history
<1>3. /\ slot' \in Stored /\ latest' = latest /\ Old(slot') /\ SlotOK'
      /\ latest = Unread => ~pending'
  BY <1>1, Flushing
<1>4. sdk \in Sdk /\ flight \in Flight /\ work \in Work /\ Unlocked \in Sdk
      /\ Unlocked.phase = "idle"
  BY Constants DEF AuthInv, Shape, Unlocked
<1>5. UnreadOK' /\ WorkOK' /\ RemovedWereRefused'
  BY <1>2, <1>3 DEF AuthInv, UnreadOK, WorkOK, RemovedWereRefused
<1>6. \A i \in DOMAIN queue : i > 1 => ~queue[i].cleared /\ queue[i].op # "restore"
  BY <1>1 DEF AuthInv, QueueOK, TaskOK
<1>7. SUFFICES ASSUME QueueOK', Writing' => Writing, queue' \in Seq(Task),
                      sdk' \in Sdk, FlightOK'
               PROVE  AuthInv'
  <2>1. CASE Head(queue).op = "forget"
    <3>1. sdk' = Unlocked /\ Enqueued(<<>>)
      BY <2>1 DEF EraseTask
    <3>2. queue[1].op = "forget" /\ sdk.phase = "save"
      BY <1>1, <2>1, AtTheHead DEF TaskOK, LockOp
    <3>3. Shifted(1)
      BY <1>1, <3>1, AtTheHead, Taken DEF Enqueued
    <3>4. \A i \in DOMAIN queue : i > 1 => queue[i].op \notin LockOp
      BY <1>1, <3>2, AtTheHead DEF Alike, LockOp
    <3>5. \A i \in DOMAIN queue' : /\ i + 1 \in DOMAIN queue /\ i + 1 > 1
                                   /\ queue'[i] = queue[i + 1]
      BY <3>3 DEF Shifted
    <3>6. \A i \in DOMAIN queue' : TaskOK(i, queue[i])'
      BY <1>2, <1>6, <3>2, <3>4, <3>5 DEF AuthInv, QueueOK, TaskOK, LockOp
    <3>7. QueueOK' /\ (Writing' => Writing) /\ queue' \in Seq(Task)
      BY <1>1, <3>3, <3>6, AtTheHead, ShiftKeeps DEF AuthInv, Shifted
    <3>8. FlightOK'
      BY <1>2, <1>3, <1>4, <3>1 DEF AuthInv, FlightOK
    <3> QED BY <1>4, <1>7, <3>1, <3>7, <3>8
  <2>2. CASE Head(queue).op # "forget"
    <3>1. UNCHANGED sdk /\ queue' = Tail(queue) \o <<Ask("after")>>
      BY <2>2 DEF EraseTask, Enqueued
    <3>2. queue[1].op = "drop" /\ flight.phase = "after"
      BY <1>1, <2>2, AtTheHead DEF TaskOK, FlightOp, Eraser
    <3>3. Ask("after") \in Task /\ Ask("after").op = "after"
            /\ ~Ask("after").cleared
      BY Asked DEF Reader
    <3>4. Extended(1, Ask("after"))
      BY <1>1, <3>1, <3>3, AtTheHead, Replaced
    <3>5. \A i \in DOMAIN queue : i > 1 => queue[i].op \notin FlightOp
      BY <1>1, <3>2, AtTheHead DEF Alike, FlightOp
    <3>6. \A i \in DOMAIN queue' : \/ /\ i + 1 \in DOMAIN queue /\ i + 1 > 1
                                      /\ queue'[i] = queue[i + 1]
                                   \/ queue'[i] = Ask("after")
      BY <3>4 DEF Extended
    <3>7. \A i \in DOMAIN queue' : TaskOK(i, queue[i])'
      BY <1>2, <1>6, <3>1, <3>2, <3>3, <3>5, <3>6
      DEF AuthInv, QueueOK, TaskOK, FlightOp, LockOp, Writer
    <3>8. \A i \in DOMAIN queue : i > 1 => ~Alike(queue[i], Ask("after"))
      BY <3>3, <3>5 DEF Alike, LockOp, Writer
    <3>9. QueueOK' /\ (Writing' => Writing) /\ queue' \in Seq(Task)
      BY <1>1, <3>3, <3>4, <3>7, <3>8, AtTheHead, ExtendKeeps
      DEF AuthInv, Extended, Writer
    <3>10. FlightOK'
      BY <1>2, <1>3, <3>1 DEF AuthInv, FlightOK
    <3> QED BY <1>4, <1>7, <3>1, <3>9, <3>10
  <2> QED BY <2>1, <2>2
<1>8. Shape'
  BY <1>2, <1>3, <1>7 DEF AuthInv, Shape
<1>9. FreshOK'
  BY <1>2, <1>3, <1>7 DEF AuthInv, FreshOK, Old
<1> QED BY <1>3, <1>5, <1>7, <1>8, <1>9 DEF AuthInv

(* What ends the task of a writer: the lock is free, and a flight that     *)
(* asked for the credential is over.                                       *)
LEMMA WriterEnds ==
  ASSUME AuthAssumption, AuthInv, AtHead(Writer), Announced(Head(queue))
           \/ Rejected(Head(queue)),
         UNCHANGED <<issued, used, refused>>,
         latest' = latest \/ (latest' = Head(queue).cred /\ latest' # Unread)
  PROVE  /\ QueueOK' /\ ~Writing' /\ queue' \in Seq(Task)
         /\ sdk' = Unlocked /\ flight' \in Flight /\ work' \in Work
         /\ flight'.before = None \/ flight'.before = flight.before
         /\ FlightOK' /\ WorkOK'
         /\ work.phase = "idle" => work'.phase = "idle"
         /\ flight.phase = "idle" => flight'.phase = "idle"
<1> DEFINE t == Head(queue)
<1>1. /\ t = queue[1] /\ t.op \in Writer /\ sdk.phase = "save"
      /\ t.cred \in Credential /\ t.cred.n = issued /\ Writing
  BY AtTheHead DEF TaskOK, LockOp, Writing
<1>2. Enqueued(<<>>) /\ sdk' = Unlocked
  BY DEF Announced, Rejected
<1>3. Shifted(1)
  BY <1>2, AtTheHead, Taken DEF Enqueued
<1>4. \A i \in DOMAIN queue : i > 1 => /\ queue[i].op \notin LockOp
                                       /\ ~queue[i].cleared
                                       /\ queue[i].op # "restore"
  <2>1. \A i \in DOMAIN queue : i > 1 => queue[i].op \notin LockOp
    BY <1>1, AtTheHead DEF Alike, LockOp
  <2>2. \A i \in DOMAIN queue : i > 1
          => ~queue[i].cleared /\ queue[i].op # "restore"
    BY DEF AuthInv, QueueOK, TaskOK
  <2> QED BY <2>1, <2>2
<1>5. \A i \in DOMAIN queue' : /\ i + 1 \in DOMAIN queue /\ i + 1 > 1
                               /\ queue'[i] = queue[i + 1]
  BY <1>3 DEF Shifted
<1>6. Unlocked.phase = "idle" /\ flight \in Flight /\ work \in Work
        /\ None \in Stored
      /\ Credential \subseteq Stored
  BY Constants DEF AuthInv, Shape, Unlocked
<1>7. CASE sdk.by = "flight"
  <2>1. flight.phase = "sdk"
    BY <1>1, <1>7 DEF AuthInv, FlightOK
  <2>2. \A i \in DOMAIN queue : i > 1 => queue[i].op \notin FlightOp
    BY <1>1, <2>1 DEF AuthInv, QueueOK, TaskOK, FlightOp
  <2>3. Returns(t.cred) \/ Joined(None)
    BY <1>7 DEF Announced, Rejected
  <2> DEFINE s == IF flight.before # None /\ t.cred.who # flight.before.who
                  THEN None ELSE t.cred
  <2>4. s \in Stored
    BY <1>1, <1>6
  <2>5. Joined(s) \/ Joined(None)
    BY <2>3 DEF Returns
  <2> HIDE DEF s
  <2>6. /\ flight' = Landed /\ work' \in Work /\ WorkOK' /\ flight' \in Flight
        /\ work.phase = "idle" => work'.phase = "idle"
    BY <1>6, <2>4, <2>5, Joining
  <2>7. \A i \in DOMAIN queue' : TaskOK(i, queue[i])'
    BY <1>4, <1>5, <2>2 DEF AuthInv, QueueOK, TaskOK, FlightOp, LockOp
  <2>8. FlightOK'
    BY <1>2, <2>6, Lands DEF Unlocked
  <2>9. QueueOK' /\ queue' \in Seq(Task)
    BY <1>3, <2>7, AtTheHead, ShiftKeeps DEF AuthInv, Shifted
  <2>10. ~Writing'
    BY <1>4, <1>5 DEF Writing, LockOp
  <2> QED BY <1>2, <2>1, <2>6, <2>8, <2>9, <2>10 DEF Landed
<1>8. CASE sdk.by # "flight"
  <2>1. UNCHANGED <<flight, work>>
    BY <1>8 DEF Announced, Rejected
  <2>2. \A i \in DOMAIN queue : i > 1 => queue[i].op # "sdk"
    BY <1>1 DEF AuthInv, QueueOK, TaskOK
  <2>3. \A i \in DOMAIN queue' : TaskOK(i, queue[i])'
    BY <1>4, <1>5, <2>1, <2>2 DEF AuthInv, QueueOK, TaskOK, FlightOp, LockOp
  <2>4. QueueOK' /\ queue' \in Seq(Task)
    BY <1>3, <2>3, AtTheHead, ShiftKeeps DEF AuthInv, Shifted
  <2>5. ~Writing'
    BY <1>4, <1>5 DEF Writing, LockOp
  <2>6. latest' = latest \/ latest' # flight.before
    <3>1. Old(flight.before)
      BY DEF AuthInv, FreshOK
    <3>2. flight.before.n < t.cred.n
      BY <1>1, <3>1 DEF Old
    <3>3. flight.before.n \in Nat /\ t.cred.n \in Nat
      BY <1>1, <1>6, Constants DEF Flight
    <3> QED BY <3>2, <3>3
  <2>7. FlightOK' /\ WorkOK'
    BY <1>2, <1>6, <2>1, <2>6 DEF AuthInv, FlightOK, WorkOK
  <2> QED BY <1>2, <1>6, <2>1, <2>4, <2>5, <2>7
<1> QED BY <1>7, <1>8

(* Retiring the old account leaves the same task at the head. *)
LEMMA Clearing ==
  ASSUME AuthAssumption, AuthInv, AtHead(Writer), slot' = None,
         persisted' = NoOne,
         queue' = <<[Head(queue) EXCEPT !.cleared = TRUE]>> \o Tail(queue),
         UNCHANGED <<issued, latest, generation, pending, sdk, flight, work,
                     used, refused, removed>>
  PROVE  AuthInv'
<1> DEFINE t == Head(queue)
           u == [t EXCEPT !.cleared = TRUE]
           rest == Tail(queue)
<1>1. /\ queue \in Seq(Task) /\ queue # <<>> /\ t = queue[1] /\ t \in Task
      /\ 1 \in DOMAIN queue /\ TaskOK(1, t) /\ t.op \in Writer
  BY AtTheHead
<1>2. u \in Task /\ u.op = t.op /\ u.cred = t.cred
  BY <1>1 DEF Task
<1>3. /\ rest \in Seq(Task) /\ Len(rest) = Len(queue) - 1
      /\ \A i \in DOMAIN rest : i + 1 \in DOMAIN queue /\ rest[i] = queue[i + 1]
  BY <1>1, TailOf
<1> HIDE DEF t, u, rest
<1>4. /\ queue' \in Seq(Task) /\ Len(queue') = Len(queue) /\ queue'[1] = u
      /\ \A i \in DOMAIN queue' : i # 1 => queue'[i] = rest[i - 1]
                                           /\ i - 1 \in DOMAIN rest
  <2>1. queue' = <<u>> \o rest
    BY DEF u, t, rest
  <2>2. Len(queue) \in Nat /\ Len(rest) + 1 = Len(queue)
    BY <1>1, <1>3
  <2> DEFINE all == <<u>> \o rest
  <2>3. /\ all \in Seq(Task) /\ Len(all) = Len(rest) + 1 /\ all[1] = u
        /\ \A i \in DOMAIN all : i # 1 => /\ i - 1 \in DOMAIN rest
                                         /\ all[i] = rest[i - 1]
    BY <1>2, <1>3, Pushed
  <2>4. queue' = all
    BY <2>1
  <2> HIDE DEF all
  <2> QED BY <2>2, <2>3, <2>4
<1>5. \A i \in DOMAIN queue' : /\ i \in DOMAIN queue
                               /\ i # 1 => queue'[i] = queue[i]
  BY <1>1, <1>3, <1>4
<1>6. \A i \in DOMAIN queue' : queue'[i].op = queue[i].op
                               /\ queue'[i].cred = queue[i].cred
  BY <1>1, <1>2, <1>4, <1>5
<1>7. ASSUME NEW i \in DOMAIN queue'
      PROVE  TaskOK(i, queue[i])'
  <2>1. CASE i = 1
    BY <1>1, <1>2, <1>4, <2>1 DEF TaskOK
  <2>2. CASE i # 1
    <3>1. TaskOK(i, queue[i]) /\ queue'[i] = queue[i]
      BY <1>5, <2>2 DEF AuthInv, QueueOK
    <3> QED BY <2>2, <3>1 DEF TaskOK
  <2> QED BY <2>1, <2>2
<1>8. QueueOK' /\ (Writing' => Writing)
  BY <1>5, <1>6, <1>7 DEF AuthInv, QueueOK, Alike, Writing
<1>9. Shape'
  BY <1>4, Constants DEF AuthInv, Shape
<1>10. FreshOK'
  <2>1. issued \in Nat
    BY Constants DEF AuthInv, Shape
  <2>2. Writing => issued > 0
    BY DEF AuthInv, QueueOK, TaskOK, Writing
  <2> QED BY <1>8, <2>1, <2>2 DEF AuthInv, FreshOK, Old, None
<1>11. UnreadOK' /\ SlotOK' /\ FlightOK' /\ WorkOK' /\ RemovedWereRefused'
  BY DEF AuthInv, UnreadOK, SlotOK, FlightOK, WorkOK, RemovedWereRefused, None
<1> QED BY <1>8, <1>9, <1>10, <1>11 DEF AuthInv

LEMMA StepSet == ASSUME AuthAssumption, AuthInv, SetTask PROVE AuthInv'
<1> DEFINE t == Head(queue)
<1>1. AtHead(Writer) /\ UNCHANGED <<issued, generation, used, refused, removed>>
  BY DEF SetTask, serverVars, history
<1>2. /\ t = queue[1] /\ t.cred \in Credential /\ t.cred.n = issued
      /\ t.cleared => slot = None /\ persisted = NoOne
  BY <1>1, AtTheHead DEF TaskOK
<1>3. t.cred \in Stored /\ t.cred # Unread /\ issued \in Nat
  BY <1>2, Constants DEF AuthInv, Shape
<1>4. RemovedWereRefused'
  BY <1>1 DEF AuthInv, RemovedWereRefused
<1>5. CASE /\ Announced(t) \/ Rejected(t)
           /\ UNCHANGED <<slot, persisted, latest, pending>>
  <2>1. /\ QueueOK' /\ ~Writing' /\ queue' \in Seq(Task)
        /\ sdk' = Unlocked /\ flight' \in Flight /\ work' \in Work
        /\ flight'.before = None \/ flight'.before = flight.before
        /\ FlightOK' /\ WorkOK'
        /\ work.phase = "idle" => work'.phase = "idle"
        /\ flight.phase = "idle" => flight'.phase = "idle"
    BY <1>1, <1>5, WriterEnds
  <2>2. Shape'
    BY <1>1, <1>5, <2>1, Constants DEF AuthInv, Shape
  <2>3. FreshOK'
    BY <1>1, <1>3, <1>5, <2>1 DEF AuthInv, FreshOK, Old, None
  <2>4. UnreadOK' /\ SlotOK'
    BY <1>5, <2>1 DEF AuthInv, UnreadOK, SlotOK
  <2> QED BY <1>4, <2>1, <2>2, <2>3, <2>4 DEF AuthInv
<1>6. CASE /\ slot' = None /\ persisted' = NoOne
           /\ queue' = <<[t EXCEPT !.cleared = TRUE]>> \o Tail(queue)
           /\ UNCHANGED <<latest, pending, sdk, flight, work>>
  BY <1>1, <1>6, Clearing
<1>7. CASE /\ ~MustClear(t) /\ latest' = t.cred /\ Announced(t)
           /\ \/ slot' = t.cred /\ persisted' = t.cred.who
              \/ UNCHANGED <<slot, persisted>>
  <2>1. /\ QueueOK' /\ ~Writing' /\ queue' \in Seq(Task)
        /\ sdk' = Unlocked /\ flight' \in Flight /\ work' \in Work
        /\ flight'.before = None \/ flight'.before = flight.before
        /\ FlightOK' /\ WorkOK'
    BY <1>1, <1>3, <1>7, WriterEnds
  <2>2. Shape'
    BY <1>1, <1>3, <1>7, <2>1, Constants DEF AuthInv, Shape
  <2>3. FreshOK'
    BY <1>1, <1>2, <1>3, <1>7, <2>1 DEF AuthInv, FreshOK, Old, None
  <2>4. slot = None \/ slot.who = t.cred.who
    <3>1. t.cleared \/ persisted = NoOne \/ persisted = t.cred.who
      BY <1>7 DEF MustClear
    <3>2. t.cred.who \in Accounts /\ (slot.who = NoOne => slot = None)
      BY <1>2, Constants DEF AuthInv, Shape
    <3>3. persisted = "unknown" \/ persisted = slot.who
      BY DEF AuthInv, SlotOK
    <3>4. CASE persisted = NoOne
      BY <3>2, <3>3, <3>4 DEF AuthAssumption
    <3>5. CASE persisted = t.cred.who
      BY <3>2, <3>3, <3>5 DEF AuthAssumption
    <3> QED BY <1>2, <3>1, <3>4, <3>5
  <2>5. UnreadOK' /\ SlotOK'
    BY <1>3, <1>7, <2>4 DEF AuthInv, UnreadOK, SlotOK
  <2> QED BY <1>4, <2>1, <2>2, <2>3, <2>5 DEF AuthInv
<1> QED BY <1>5, <1>6, <1>7 DEF SetTask, slotVars

-----------------------------------------------------------------------------
(* The SDK *)

(* While nobody is storing, no writer is in the queue; and nothing of the  *)
(* flight is, while the SDK's answer is out for it.                        *)
LEMMA NobodyStores ==
  ASSUME AuthInv, sdk.phase \in {"idle", "sent"}
  PROVE  /\ \A i \in DOMAIN queue : /\ queue[i].op \notin LockOp
                                    /\ queue[i].op # "sdk" /\ ~queue[i].cleared
         /\ ~Writing
         /\ (sdk.phase = "sent" /\ sdk.by = "flight") =>
              /\ flight.phase = "sdk"
              /\ \A i \in DOMAIN queue : queue[i].op \notin FlightOp
<1>1. \A i \in DOMAIN queue : /\ queue[i].op \notin LockOp
                              /\ queue[i].op # "sdk" /\ ~queue[i].cleared
  BY DEF AuthInv, QueueOK, TaskOK, LockOp
<1>2. ~Writing
  BY <1>1 DEF Writing, LockOp
<1>3. ASSUME sdk.phase = "sent" /\ sdk.by = "flight"
      PROVE  /\ flight.phase = "sdk"
             /\ \A i \in DOMAIN queue : queue[i].op \notin FlightOp
  <2>1. flight.phase = "sdk"
    BY <1>3 DEF AuthInv, FlightOK
  <2> QED BY <1>1, <2>1 DEF AuthInv, QueueOK, TaskOK, FlightOp
<1> QED BY <1>1, <1>2, <1>3

(* A step that adds one task, or none, to the queue. *)
LEMMA OldTasks ==
  ASSUME AuthInv, NEW u \in Task,
         queue' = Append(queue, u) \/ queue' = queue \o <<u>>
  PROVE  /\ Extended(0, u) /\ queue \in Seq(Task) /\ queue' \in Seq(Task)
         /\ \A i \in DOMAIN queue' :
              \/ i \in DOMAIN queue /\ queue'[i] = queue[i]
              \/ queue'[i] = u
<1>1. queue \in Seq(Task)
  BY DEF AuthInv, Shape
<1>2. Extended(0, u)
  BY <1>1, Appended
<1>3. \A i \in DOMAIN queue' : i + 0 = i
  BY <1>2 DEF Extended
<1> QED BY <1>1, <1>2, <1>3 DEF Extended

LEMMA Storing ==
  ASSUME AuthAssumption, AuthInv, sdk.phase \in {"idle", "sent"},
         issued' = issued + 1, NEW c \in Credential, c.n = issued + 1,
         NEW op \in Writer, Store(op, c),
         sdk' \in Sdk, sdk'.phase = "save",
         sdk'.by = "flight" => flight.phase = "sdk",
         UNCHANGED <<slot, persisted, latest, pending, flight, work, used,
                     refused, removed>>
  PROVE  AuthInv'
<1> DEFINE u == [op |-> op, cred |-> c, gen |-> generation + 1, cleared |-> FALSE]
<1>1. generation' = generation + 1 /\ queue' = Append(queue, u)
  BY DEF Store
<1>2. u \in Task /\ u.op = op /\ u.cred = c /\ ~u.cleared
  BY Constants DEF Task, AuthInv, Shape
<1> HIDE DEF u
<1>3. /\ Extended(0, u) /\ queue \in Seq(Task) /\ queue' \in Seq(Task)
      /\ \A i \in DOMAIN queue' :
           (i \in DOMAIN queue /\ queue'[i] = queue[i]) \/ queue'[i] = u
  BY <1>1, <1>2, OldTasks
<1>4. /\ \A i \in DOMAIN queue : /\ queue[i].op \notin LockOp
                                 /\ queue[i].op # "sdk" /\ ~queue[i].cleared
      /\ ~Writing
  BY NobodyStores
<1>5. issued \in Nat /\ issued' \in Serial
  <2>1. c.n \in Serial
    BY DEF Credential
  <2> QED BY <2>1, Constants DEF AuthInv, Shape
<1>6. u.op \in LockOp /\ u.op \notin FlightOp /\ u.op # "restore" /\ u.op # "sdk"
  BY <1>2 DEF LockOp, FlightOp, Writer
<1>7. \A i \in DOMAIN queue' : TaskOK(i, queue[i])'
  BY <1>2, <1>3, <1>4, <1>5, <1>6 DEF AuthInv, QueueOK, TaskOK, LockOp
<1>8. \A i \in DOMAIN queue : i > 0 => ~Alike(queue[i], u)
  BY <1>4, <1>6 DEF Alike
<1>9. QueueOK'
  <2>1. Len(queue) >= 0
    BY <1>3
  <2> QED BY <1>2, <1>3, <1>7, <1>8, <2>1, ExtendKeeps DEF AuthInv
<1>10. Shape'
  BY <1>1, <1>3, <1>5 DEF AuthInv, Shape
<1>11. FreshOK'
  <2>1. /\ slot.n \in Nat /\ flight.before.n \in Nat
        /\ latest # Unread => latest.n \in Nat
    BY Constants DEF AuthInv, Shape, Flight
  <2> QED BY <1>5, <2>1 DEF AuthInv, FreshOK, Old
<1>12. UnreadOK' /\ SlotOK' /\ WorkOK' /\ RemovedWereRefused'
  BY DEF AuthInv, UnreadOK, SlotOK, WorkOK, RemovedWereRefused
<1>13. FlightOK'
  BY DEF AuthInv, FlightOK
<1> QED BY <1>9, <1>10, <1>11, <1>12, <1>13 DEF AuthInv

LEMMA StepSignIn ==
  ASSUME AuthAssumption, AuthInv, NEW a \in Accounts, SignIn(a) PROVE AuthInv'
<1>1. sdk.phase = "idle" /\ issued' = issued + 1 /\ Store("signin", Issue(a))
      /\ sdk' = [phase |-> "save", by |-> "user", cred |-> Issue(a)]
      /\ UNCHANGED <<slot, persisted, latest, pending, flight, work, used,
                     refused, removed>>
  BY DEF SignIn, slotVars, history
<1>2. issued \in Serial /\ issued < MaxIssued
  BY DEF SignIn, AuthInv, Shape
<1>3. Issue(a) \in Credential /\ Issue(a).n = issued + 1
  BY <1>2 DEF Issue, Credential, Serial, AuthAssumption
<1>4. sdk' \in Sdk /\ sdk'.phase = "save" /\ sdk'.by # "flight"
  BY <1>1, <1>3 DEF Sdk, Stored
<1> QED BY <1>1, <1>3, <1>4, Storing DEF Writer

LEMMA StepGranted == ASSUME AuthAssumption, AuthInv, Granted PROVE AuthInv'
<1>1. sdk.phase = "sent" /\ issued' = issued + 1
      /\ sdk' = [sdk EXCEPT !.phase = "save", !.cred = Issue(sdk.cred.who)]
      /\ Store("rotation", Issue(sdk.cred.who))
      /\ UNCHANGED <<slot, persisted, latest, pending, flight, work, used,
                     refused, removed>>
  BY DEF Granted, Rotate, slotVars, history
<1>2. issued \in Serial /\ issued < MaxIssued
  BY DEF Granted, Rotate, AuthInv, Shape
<1>3. sdk.cred \in Credential
  BY <1>1 DEF AuthInv, FlightOK
<1>4. Issue(sdk.cred.who) \in Credential /\ Issue(sdk.cred.who).n = issued + 1
  BY <1>2, <1>3, Constants DEF Issue, Credential, Serial, AuthAssumption
<1>5. sdk' \in Sdk /\ sdk'.phase = "save" /\ sdk'.by = sdk.by
  BY <1>1, <1>4 DEF AuthInv, Shape, Sdk, Stored
<1>6. sdk'.by = "flight" => flight.phase = "sdk"
  BY <1>1, <1>5 DEF AuthInv, FlightOK
<1> QED BY <1>1, <1>4, <1>5, <1>6, Storing DEF Writer

(* None is older than everything. *)
LEMMA NoneIsOld == ASSUME AuthAssumption, AuthInv PROVE Old(None)
<1>1. Writing => issued > 0
  BY DEF AuthInv, QueueOK, TaskOK, Writing
<1> QED BY <1>1, Constants DEF Old, None, AuthInv, Shape

LEMMA StepSignOut == ASSUME AuthAssumption, AuthInv, SignOut PROVE AuthInv'
<1> DEFINE u == [op |-> "forget", cred |-> None, gen |-> generation + 1,
                 cleared |-> FALSE]
<1>1. /\ sdk.phase = "idle" /\ latest # Unread /\ latest' = None
      /\ sdk' = [phase |-> "save", by |-> "user", cred |-> None]
      /\ generation' = generation + 1 /\ queue' = queue \o <<u>>
      /\ UNCHANGED <<issued, slot, persisted, flight, work, used, refused,
                     removed>>
  BY DEF SignOut, IsRead, Tombstone, slotVars, history
<1>2. /\ u \in Task /\ u.op = "forget" /\ ~u.cleared
  BY Constants DEF Task, Eraser, AuthInv, Shape
<1> HIDE DEF u
<1>3. /\ Extended(0, u) /\ queue \in Seq(Task) /\ queue' \in Seq(Task)
      /\ \A i \in DOMAIN queue' :
           (i \in DOMAIN queue /\ queue'[i] = queue[i]) \/ queue'[i] = u
  BY <1>1, <1>2, OldTasks
<1>4. /\ \A i \in DOMAIN queue : /\ queue[i].op \notin LockOp
                                 /\ queue[i].op # "sdk" /\ ~queue[i].cleared
      /\ ~Writing
  BY <1>1, NobodyStores
<1>5. /\ u.op \in LockOp /\ u.op \notin FlightOp /\ u.op \notin Writer
      /\ u.op # "restore" /\ u.op # "sdk"
  BY <1>2 DEF LockOp, FlightOp, Writer
<1>6. \A i \in DOMAIN queue' : TaskOK(i, queue[i])'
  BY <1>1, <1>2, <1>3, <1>4, <1>5 DEF AuthInv, QueueOK, TaskOK, LockOp
<1>7. \A i \in DOMAIN queue : i > 0 => ~Alike(queue[i], u)
  BY <1>4, <1>5 DEF Alike
<1>8. QueueOK' /\ ~Writing'
  <2>1. Len(queue) >= 0
    BY <1>3
  <2> QED BY <1>2, <1>3, <1>4, <1>5, <1>6, <1>7, <2>1, ExtendKeeps DEF AuthInv
<1>9. sdk' \in Sdk /\ sdk'.phase = "save" /\ sdk'.by = "user"
  BY <1>1, Constants DEF Sdk
<1>10. latest' \in Stored /\ latest' # Unread /\ latest' \notin Credential
  BY <1>1, Constants
<1>11. Shape'
  BY <1>1, <1>3, <1>9, <1>10 DEF AuthInv, Shape
<1>12. FreshOK'
  BY <1>1, <1>8, NoneIsOld DEF AuthInv, FreshOK, Old
<1>13. UnreadOK' /\ SlotOK' /\ WorkOK' /\ RemovedWereRefused'
  BY <1>1, <1>10 DEF AuthInv, UnreadOK, SlotOK, WorkOK, RemovedWereRefused
<1>14. FlightOK'
  BY <1>1, <1>9 DEF AuthInv, FlightOK
<1> QED BY <1>8, <1>11, <1>12, <1>13, <1>14 DEF AuthInv

LEMMA StepAuto == ASSUME AuthAssumption, AuthInv, AutoRefresh PROVE AuthInv'
<1>1. /\ sdk.phase = "idle" /\ latest # Unread /\ latest # None
      /\ sdk' = [phase |-> "sent", by |-> "timer", cred |-> latest]
      /\ UNCHANGED <<issued, slot, persisted, latest, pending, generation,
                     queue, flight, work, used, refused, removed>>
  BY DEF AutoRefresh, IsRead, serverVars, storageVars, slotVars, history
<1>2. latest \in Credential /\ latest \in Stored
  BY <1>1 DEF AuthInv, Shape, Stored
<1>3. sdk' \in Sdk /\ sdk'.by = "timer" /\ sdk'.cred = latest
  BY <1>1, <1>2 DEF Sdk
<1>4. /\ \A i \in DOMAIN queue : /\ queue[i].op \notin LockOp
                                 /\ queue[i].op # "sdk" /\ ~queue[i].cleared
      /\ ~Writing
  BY <1>1, NobodyStores
<1>5. \A i \in DOMAIN queue' : TaskOK(i, queue[i])'
  BY <1>1, <1>4 DEF AuthInv, QueueOK, TaskOK, LockOp
<1>6. QueueOK' /\ (Writing' <=> Writing)
  BY <1>1, <1>5 DEF AuthInv, QueueOK, Alike, Writing
<1>7. Shape' /\ UnreadOK' /\ SlotOK' /\ WorkOK' /\ RemovedWereRefused'
  BY <1>1, <1>3
  DEF AuthInv, Shape, UnreadOK, SlotOK, WorkOK, RemovedWereRefused
<1>8. FreshOK'
  BY <1>1, <1>6 DEF AuthInv, FreshOK, Old
<1>9. FlightOK'
  BY <1>1, <1>2, <1>3 DEF AuthInv, FlightOK
<1> QED BY <1>6, <1>7, <1>8, <1>9 DEF AuthInv

LEMMA StepRefused == ASSUME AuthAssumption, AuthInv, Refused PROVE AuthInv'
<1>1. /\ sdk.phase = "sent" /\ sdk' = Unlocked /\ Examine
      /\ refused' = refused \cup {sdk.cred.n}
      /\ UNCHANGED <<issued, slot, persisted, latest, pending, generation,
                     work, used, removed>>
  BY DEF Refused, serverVars, slotVars
<1>2. /\ \A i \in DOMAIN queue : /\ queue[i].op \notin LockOp
                                 /\ queue[i].op # "sdk" /\ ~queue[i].cleared
      /\ ~Writing
      /\ sdk.by = "flight" =>
           /\ flight.phase = "sdk"
           /\ \A i \in DOMAIN queue : queue[i].op \notin FlightOp
  BY <1>1, NobodyStores
<1>3. Unlocked \in Sdk /\ Unlocked.phase = "idle"
  BY Constants DEF Unlocked
<1>4. SlotOK' /\ WorkOK' /\ RemovedWereRefused'
  BY <1>1 DEF AuthInv, SlotOK, WorkOK, RemovedWereRefused
<1>5. CASE sdk.by = "flight"
  <2> DEFINE u == Ask("current")
  <2>1. queue' = Append(queue, u) /\ flight' = [flight EXCEPT !.phase = "current"]
    BY <1>1, <1>5 DEF Examine
  <2>2. u \in Task /\ u.op = "current" /\ ~u.cleared
    BY Asked DEF Reader
  <2> HIDE DEF u
  <2>3. /\ flight' \in Flight /\ flight'.phase = "current"
        /\ flight'.before = flight.before
    BY <2>1 DEF AuthInv, Shape, Flight, Reader
  <2>4. /\ Extended(0, u) /\ queue \in Seq(Task) /\ queue' \in Seq(Task)
        /\ \A i \in DOMAIN queue' :
             (i \in DOMAIN queue /\ queue'[i] = queue[i]) \/ queue'[i] = u
    BY <2>1, <2>2, OldTasks
  <2>5. /\ u.op \notin LockOp /\ u.op \in FlightOp /\ u.op \notin Writer
    BY <2>2 DEF LockOp, FlightOp, Writer
  <2>6. \A i \in DOMAIN queue' : TaskOK(i, queue[i])'
    BY <1>1, <1>2, <1>5, <2>2, <2>3, <2>4, <2>5
    DEF AuthInv, QueueOK, TaskOK, LockOp
  <2>7. \A i \in DOMAIN queue : i > 0 => ~Alike(queue[i], u)
    BY <1>2, <1>5, <2>5 DEF Alike
  <2>8. QueueOK' /\ ~Writing'
    <3>1. Len(queue) >= 0
      BY <2>4
    <3> QED BY <1>2, <2>2, <2>4, <2>5, <2>6, <2>7, <3>1, ExtendKeeps DEF AuthInv
  <2>9. Shape'
    BY <1>1, <1>3, <2>3, <2>4 DEF AuthInv, Shape
  <2>10. UnreadOK' /\ FreshOK'
    BY <1>1, <1>2, <1>5, <2>3, <2>8 DEF AuthInv, UnreadOK, FreshOK, Old
  <2>11. FlightOK'
    BY <1>1, <1>3, <1>5, <2>3 DEF AuthInv, FlightOK
  <2> QED BY <1>4, <2>8, <2>9, <2>10, <2>11 DEF AuthInv
<1>6. CASE sdk.by # "flight"
  <2>1. UNCHANGED <<queue, flight>>
    BY <1>1, <1>6 DEF Examine
  <2>2. \A i \in DOMAIN queue' : TaskOK(i, queue[i])'
    BY <1>1, <1>2, <2>1 DEF AuthInv, QueueOK, TaskOK, LockOp
  <2>3. QueueOK' /\ ~Writing'
    BY <1>2, <2>1, <2>2 DEF AuthInv, QueueOK, Alike, Writing
  <2>4. Shape' /\ UnreadOK'
    BY <1>1, <1>3, <2>1 DEF AuthInv, Shape, UnreadOK
  <2>5. FreshOK'
    BY <1>1, <1>2, <2>1, <2>3 DEF AuthInv, FreshOK, Old
  <2>6. FlightOK'
    BY <1>1, <1>3, <2>1 DEF AuthInv, FlightOK
  <2> QED BY <1>4, <2>3, <2>4, <2>5, <2>6 DEF AuthInv
<1> QED BY <1>5, <1>6

LEMMA StepUnanswered == ASSUME AuthAssumption, AuthInv, Unanswered PROVE AuthInv'
<1>1. /\ sdk.phase = "sent" /\ sdk' = Unlocked
      /\ UNCHANGED <<slot, persisted, latest, pending, generation, queue, used,
                     refused, removed>>
  BY DEF Unanswered, storageVars, slotVars, history
<1>2. /\ \A i \in DOMAIN queue : /\ queue[i].op \notin LockOp
                                 /\ queue[i].op # "sdk" /\ ~queue[i].cleared
      /\ ~Writing
      /\ sdk.by = "flight" =>
           /\ flight.phase = "sdk"
           /\ \A i \in DOMAIN queue : queue[i].op \notin FlightOp
  BY <1>1, NobodyStores
<1>3. issued \in Nat /\ issued' \in Serial /\ issued' >= issued
  BY DEF Unanswered, Rotate, serverVars, AuthInv, Shape, Serial, AuthAssumption
<1>4. Unlocked \in Sdk /\ Unlocked.phase = "idle" /\ None \in Stored
  BY Constants DEF Unlocked
<1>5. /\ flight' \in Flight /\ work' \in Work /\ WorkOK' /\ FlightOK'
      /\ flight' = flight \/ (flight' = Landed /\ sdk.by = "flight")
      /\ work.phase = "idle" => work'.phase = "idle"
  <2>1. CASE sdk.by = "flight"
    <3>1. Joined(None)
      BY <2>1 DEF Unanswered
    <3>2. flight' = Landed /\ work' \in Work /\ WorkOK' /\ flight' \in Flight
          /\ (work.phase = "idle" => work'.phase = "idle")
      BY <1>1, <1>4, <3>1, Joining
    <3>3. FlightOK'
      BY <1>1, <1>4, <3>2, Lands
    <3> QED BY <2>1, <3>2, <3>3
  <2>2. CASE sdk.by # "flight"
    <3>1. UNCHANGED <<flight, work>>
      BY <2>2 DEF Unanswered
    <3>2. FlightOK' /\ WorkOK'
      BY <1>1, <1>4, <3>1 DEF AuthInv, FlightOK, WorkOK
    <3>3. flight \in Flight /\ work \in Work
      BY DEF AuthInv, Shape
    <3> QED BY <3>1, <3>2, <3>3
  <2> QED BY <2>1, <2>2
<1>6. \A i \in DOMAIN queue' : TaskOK(i, queue[i])'
  BY <1>1, <1>2, <1>5 DEF AuthInv, QueueOK, TaskOK, LockOp
<1>7. QueueOK' /\ ~Writing'
  BY <1>1, <1>2, <1>6 DEF AuthInv, QueueOK, Alike, Writing
<1>8. Shape'
  BY <1>1, <1>3, <1>4, <1>5 DEF AuthInv, Shape
<1>9. UnreadOK' /\ SlotOK' /\ RemovedWereRefused'
  BY <1>1, <1>5
  DEF AuthInv, UnreadOK, SlotOK, RemovedWereRefused, Landed
<1>10. FreshOK'
  <2>1. /\ slot.n \in Nat /\ flight'.before.n \in Nat
        /\ latest # Unread => latest.n \in Nat
    BY <1>5, Constants DEF AuthInv, Shape, Flight
  <2>2. /\ slot.n <= issued /\ flight.before.n <= issued
        /\ latest # Unread => latest.n <= issued
    BY DEF AuthInv, FreshOK, Old
  <2>3. issued' \in Nat
    BY <1>3, Constants
  <2>4. slot.n <= issued' /\ (latest # Unread => latest.n <= issued')
    BY <1>3, <2>1, <2>2, <2>3
  <2>5. flight'.before.n <= issued'
    <3>1. CASE flight' = flight
      <4>1. flight.before.n \in Nat /\ flight'.before = flight.before
        BY <2>1, <3>1
      <4> QED BY <1>3, <2>2, <2>3, <4>1
    <3>2. CASE flight' = Landed
      BY <2>3, <3>2 DEF Landed, None
    <3> QED BY <1>5, <3>1, <3>2
  <2> QED BY <1>1, <1>7, <2>4, <2>5 DEF FreshOK, Old
<1> QED BY <1>5, <1>7, <1>8, <1>9, <1>10 DEF AuthInv

LEMMA StepConsult == ASSUME AuthAssumption, AuthInv, Consult PROVE AuthInv'
<1> DEFINE u == Ask("sdk")
<1>1. /\ flight.phase = "wait" /\ sdk.phase = "idle"
      /\ sdk' = [phase |-> "read", by |-> "flight", cred |-> None]
      /\ flight' = [flight EXCEPT !.phase = "sdk"]
      /\ queue' = Append(queue, u)
      /\ UNCHANGED <<issued, slot, persisted, latest, pending, generation,
                     work, used, refused, removed>>
  BY DEF Consult, serverVars, slotVars, history
<1>2. /\ \A i \in DOMAIN queue : /\ queue[i].op \notin LockOp
                                 /\ queue[i].op # "sdk" /\ ~queue[i].cleared
      /\ ~Writing
  BY <1>1, NobodyStores
<1>3. \A i \in DOMAIN queue : queue[i].op \notin FlightOp
  BY <1>1 DEF AuthInv, QueueOK, TaskOK, FlightOp
<1>4. u \in Task /\ u.op = "sdk" /\ ~u.cleared
  BY Asked DEF Reader
<1> HIDE DEF u
<1>5. /\ flight' \in Flight /\ flight'.phase = "sdk"
      /\ flight'.before = flight.before
  BY <1>1 DEF AuthInv, Shape, Flight, Reader
<1>6. sdk' \in Sdk /\ sdk'.phase = "read"
  BY <1>1, Constants DEF Sdk
<1>7. /\ Extended(0, u) /\ queue \in Seq(Task) /\ queue' \in Seq(Task)
      /\ \A i \in DOMAIN queue' :
           (i \in DOMAIN queue /\ queue'[i] = queue[i]) \/ queue'[i] = u
  BY <1>1, <1>4, OldTasks
<1>8. u.op \notin LockOp /\ u.op \in FlightOp /\ u.op \notin Writer
  BY <1>4 DEF LockOp, FlightOp, Writer
<1>9. \A i \in DOMAIN queue' : TaskOK(i, queue[i])'
  BY <1>1, <1>2, <1>3, <1>4, <1>5, <1>6, <1>7, <1>8
  DEF AuthInv, QueueOK, TaskOK, LockOp
<1>10. \A i \in DOMAIN queue : i > 0 => ~Alike(queue[i], u)
  BY <1>3, <1>8 DEF Alike
<1>11. QueueOK' /\ ~Writing'
  <2>1. Len(queue) >= 0
    BY <1>7
  <2> QED BY <1>2, <1>4, <1>7, <1>8, <1>9, <1>10, <2>1, ExtendKeeps DEF AuthInv
<1>12. Shape'
  BY <1>1, <1>5, <1>6, <1>7 DEF AuthInv, Shape
<1>13. FreshOK'
  BY <1>1, <1>2, <1>5, <1>11 DEF AuthInv, FreshOK, Old
<1>14. UnreadOK' /\ SlotOK' /\ WorkOK' /\ RemovedWereRefused'
  BY <1>1, <1>5 DEF AuthInv, UnreadOK, SlotOK, WorkOK, RemovedWereRefused
<1>15. FlightOK'
  BY <1>5, <1>6 DEF AuthInv, FlightOK
<1> QED BY <1>11, <1>12, <1>13, <1>14, <1>15 DEF AuthInv

LEMMA StepStart == ASSUME AuthAssumption, AuthInv, Restore PROVE AuthInv'
<1> DEFINE u == Ask("restore")
<1>1. /\ latest = Unread /\ queue' = <<u>>
      /\ UNCHANGED <<issued, slot, persisted, latest, pending, generation, sdk,
                     flight, work, used, refused, removed>>
  BY DEF Restore, IsRead, serverVars, slotVars, history
<1>2. u \in Task /\ u.op = "restore" /\ ~u.cleared
  BY Asked DEF Reader
<1> HIDE DEF u
<1>3. /\ queue' \in Seq(Task)
      /\ \A i \in DOMAIN queue' : i = 1 /\ queue'[i] = u
  BY <1>1, <1>2
<1>4. u.op \notin LockOp /\ u.op \notin FlightOp /\ u.op \notin Writer
  BY <1>2 DEF LockOp, FlightOp, Writer
<1>5. QueueOK' /\ ~Writing'
  BY <1>1, <1>2, <1>3, <1>4 DEF QueueOK, TaskOK, Writing, FlightOp
<1>6. Shape' /\ UnreadOK' /\ SlotOK'
  BY <1>1, <1>3 DEF AuthInv, Shape, UnreadOK, SlotOK
<1>7. FlightOK' /\ WorkOK' /\ RemovedWereRefused'
  BY <1>1 DEF AuthInv, FlightOK, WorkOK, RemovedWereRefused
<1>8. FreshOK'
  BY <1>1, <1>5 DEF AuthInv, FreshOK, Old
<1> QED BY <1>5, <1>6, <1>7, <1>8 DEF AuthInv

(* A step that leaves the queue and all its tasks depend on alone. *)
LEMMA StepAside ==
  ASSUME AuthInv, work' \in Work, WorkOK',
         latest = Unread => work'.phase = "idle",
         UNCHANGED <<issued, storageVars, sdk, flight, refused, removed>>
  PROVE  AuthInv'
<1>1. UNCHANGED <<issued, slot, persisted, latest, pending, generation, queue,
                  sdk, flight, refused, removed>>
  BY DEF storageVars, slotVars
<1>2. \A i \in DOMAIN queue' : TaskOK(i, queue[i])'
  BY <1>1 DEF AuthInv, QueueOK, TaskOK
<1>3. QueueOK' /\ (Writing' <=> Writing)
  BY <1>1, <1>2 DEF AuthInv, QueueOK, Alike, Writing
<1>4. Shape' /\ UnreadOK' /\ SlotOK'
  BY <1>1 DEF AuthInv, Shape, UnreadOK, SlotOK
<1>5. FlightOK' /\ RemovedWereRefused'
  BY <1>1 DEF AuthInv, FlightOK, RemovedWereRefused
<1>6. FreshOK'
  BY <1>1, <1>3 DEF AuthInv, FreshOK, Old
<1> QED BY <1>3, <1>4, <1>5, <1>6 DEF AuthInv

LEMMA StepWork ==
  ASSUME AuthAssumption, AuthInv, StartWork \/ WorkSettles
  PROVE  AuthInv'
<1>1. UNCHANGED <<issued, storageVars, sdk, flight, refused, removed>>
  BY DEF StartWork, WorkSettles, serverVars, history
<1>2. CASE StartWork
  <2>1. /\ latest \in Stored /\ latest # Unread
        /\ work' = [phase |-> "try", cred |-> latest] /\ used' = {}
    BY <1>2 DEF StartWork, IsRead, AuthInv, Shape
  <2>2. work' \in Work /\ work'.phase = "try"
    BY <2>1 DEF Work
  <2>3. WorkOK'
    BY <2>1, <2>2 DEF WorkOK
  <2> QED BY <1>1, <2>1, <2>2, <2>3, StepAside
<1>3. CASE WorkSettles
  <2>1. /\ work.phase \in {"try", "retry"} /\ work' = NoWork
        /\ used' = used \cup {work.cred.who}
    BY <1>3 DEF WorkSettles
  <2>2. work' \in Work /\ work'.phase = "idle"
    BY <2>1, Constants DEF NoWork
  <2>3. used' = {work.cred.who}
    BY <2>1 DEF AuthInv, WorkOK
  <2>4. WorkOK'
    BY <2>2, <2>3 DEF WorkOK
  <2> QED BY <1>1, <2>2, <2>4, StepAside
<1> QED BY <1>2, <1>3

LEMMA StepWorkRefused ==
  ASSUME AuthAssumption, AuthInv, WorkRefused PROVE AuthInv'
<1>1. /\ work.phase = "try" /\ work' = [work EXCEPT !.phase = "refresh"]
      /\ used' = used \cup {work.cred.who}
      /\ UNCHANGED <<issued, slot, persisted, latest, pending, generation, sdk,
                     refused, removed>>
  BY DEF WorkRefused, serverVars, slotVars, history
<1>2. /\ work' \in Work /\ work'.phase = "refresh"
      /\ work'.cred = work.cred
  BY <1>1 DEF AuthInv, Shape, Work
<1>3. latest # Unread
  BY <1>1 DEF AuthInv, UnreadOK
<1>4. WorkOK'
  <2>1. used' = {work'.cred.who}
    BY <1>1, <1>2 DEF AuthInv, WorkOK
  <2> QED BY <1>2, <2>1 DEF WorkOK
<1>5. CASE flight.phase # "idle"
  <2>1. UNCHANGED storageVars /\ UNCHANGED flight
    BY <1>1, <1>5 DEF WorkRefused, storageVars, slotVars
  <2> QED BY <1>1, <1>2, <1>3, <1>4, <2>1, StepAside
<1>6. CASE flight.phase = "idle"
  <2> DEFINE u == Ask("before")
  <2>1. flight' = [Landed EXCEPT !.phase = "before"] /\ queue' = Append(queue, u)
    BY <1>6 DEF WorkRefused
  <2>2. u \in Task /\ u.op = "before" /\ ~u.cleared
    BY Asked DEF Reader
  <2> HIDE DEF u
  <2>3. /\ flight' \in Flight /\ flight'.phase = "before"
        /\ flight'.before = None
    BY <2>1, Constants DEF Landed, Flight, Reader
  <2>4. \A i \in DOMAIN queue : /\ queue[i].op \notin FlightOp
    BY <1>6 DEF AuthInv, QueueOK, TaskOK, FlightOp
  <2>5. /\ Extended(0, u) /\ queue \in Seq(Task) /\ queue' \in Seq(Task)
        /\ \A i \in DOMAIN queue' :
             (i \in DOMAIN queue /\ queue'[i] = queue[i]) \/ queue'[i] = u
    BY <2>1, <2>2, OldTasks
  <2>6. u.op \notin LockOp /\ u.op \in FlightOp /\ u.op \notin Writer
    BY <2>2 DEF LockOp, FlightOp, Writer
  <2>7. \A i \in DOMAIN queue' : TaskOK(i, queue[i])'
    BY <1>1, <2>2, <2>3, <2>4, <2>5, <2>6
    DEF AuthInv, QueueOK, TaskOK, FlightOp
  <2>8. \A i \in DOMAIN queue : i > 0 => ~Alike(queue[i], u)
    BY <2>4, <2>6 DEF Alike
  <2>9. QueueOK' /\ (Writing' => Writing)
    <3>1. Len(queue) >= 0
      BY <2>5
    <3> QED BY <2>2, <2>5, <2>6, <2>7, <2>8, <3>1, ExtendKeeps DEF AuthInv
  <2>10. Shape' /\ UnreadOK' /\ SlotOK' /\ RemovedWereRefused'
    BY <1>1, <1>2, <1>3, <2>3, <2>5
    DEF AuthInv, Shape, UnreadOK, SlotOK, RemovedWereRefused
  <2>11. FreshOK'
    BY <1>1, <2>3, <2>9, NoneIsOld DEF AuthInv, FreshOK, Old
  <2>12. FlightOK'
    BY <1>1, <1>6, <2>3 DEF AuthInv, FlightOK
  <2> QED BY <1>4, <2>9, <2>10, <2>11, <2>12 DEF AuthInv
<1> QED BY <1>5, <1>6

LEMMA StepElsewhere ==
  ASSUME AuthAssumption, AuthInv, EndedElsewhere \/ UNCHANGED vars PROVE AuthInv'
<1>1. /\ UNCHANGED <<issued, storageVars, sdk, flight, refused, removed>>
      /\ UNCHANGED <<work, used>>
  BY DEF EndedElsewhere, vars, serverVars, history
<1>2. work' \in Work /\ WorkOK' /\ (latest = Unread => work'.phase = "idle")
  BY <1>1 DEF AuthInv, Shape, WorkOK, UnreadOK
<1> QED BY <1>1, <1>2, StepAside

(* A process that starts knows only what is in the slot. *)
LEMMA Started ==
  ASSUME AuthAssumption, issued' \in Serial, slot' \in Stored, slot'.n <= issued',
         latest' = Unread, ~pending', generation' = 0, persisted' = "unknown",
         queue' = <<>>, sdk' = Unlocked, flight' = Landed, work' = NoWork,
         used' = {}, RemovedWereRefused'
  PROVE  AuthInv'
<1>1. QueueOK' /\ ~Writing' /\ queue' \in Seq(Task)
  BY DEF QueueOK, Writing
<1>2. Shape'
  BY <1>1, Constants DEF Shape
<1>3. FreshOK'
  BY <1>1, Constants DEF FreshOK, Old, Landed, None
<1>4. latest' \notin Credential
  BY Constants
<1>5. UnreadOK' /\ SlotOK' /\ FlightOK' /\ WorkOK'
  BY <1>4 DEF UnreadOK, SlotOK, FlightOK, WorkOK, Landed, Unlocked, NoWork
<1> QED BY <1>1, <1>2, <1>3, <1>5 DEF AuthInv

LEMMA StepCrash == ASSUME AuthAssumption, AuthInv, Crash PROVE AuthInv'
<1>1. /\ latest' = Unread /\ ~pending' /\ generation' = 0
      /\ persisted' = "unknown" /\ queue' = <<>> /\ sdk' = Unlocked
      /\ flight' = Landed /\ work' = NoWork /\ used' = {}
      /\ UNCHANGED <<issued, slot, refused, removed>>
  BY DEF Crash, serverVars, history
<1>2. RemovedWereRefused' /\ issued' \in Serial /\ slot' \in Stored
      /\ slot'.n <= issued'
  BY <1>1 DEF AuthInv, RemovedWereRefused, Shape, FreshOK, Old
<1> QED BY <1>1, <1>2, Started

-----------------------------------------------------------------------------
(* The theorems *)

LEMMA InitAuth == ASSUME AuthAssumption, Init PROVE AuthInv
<1>1. queue \in Seq(Task) /\ \A i \in DOMAIN queue : FALSE
  BY DEF Init
<1>2. QueueOK /\ ~Writing
  BY <1>1 DEF QueueOK, Writing
<1>3. issued = 0 /\ 0 \in Serial /\ generation = 0
  BY DEF Init, Serial, AuthAssumption
<1>4. Shape
  BY <1>1, <1>3, Constants DEF Init, Shape
<1>5. FreshOK
  BY <1>2, Constants DEF Init, FreshOK, Old, Landed, None
<1>6. latest \notin Credential
  BY Constants DEF Init
<1>7. UnreadOK /\ SlotOK /\ FlightOK /\ WorkOK /\ RemovedWereRefused
  BY <1>6 DEF Init, UnreadOK, SlotOK, FlightOK, WorkOK, RemovedWereRefused,
              Landed, Unlocked, NoWork
<1> QED BY <1>2, <1>4, <1>5, <1>7 DEF AuthInv

LEMMA NextAuth ==
  ASSUME AuthAssumption, AuthInv, [Next]_vars PROVE AuthInv'
<1>1. CASE Recovery
  BY <1>1, StepBefore, StepLook, StepConsult, StepSdk, StepCurrent, StepCheck,
     StepAfter DEF Recovery
<1>2. CASE SetTask \/ EraseTask \/ Restore \/ ReadRestore
  BY <1>2, StepSet, StepErase, StepStart, StepRestore
<1>3. CASE \E a \in Accounts : SignIn(a)
  BY <1>3, StepSignIn
<1>4. CASE SignOut \/ AutoRefresh \/ Granted \/ Refused \/ Unanswered
  BY <1>4, StepSignOut, StepAuto, StepGranted, StepRefused, StepUnanswered
<1>5. CASE EndedElsewhere \/ UNCHANGED vars
  BY <1>5, StepElsewhere
<1>6. CASE StartWork \/ WorkSettles \/ WorkRefused \/ Crash
  BY <1>6, StepWork, StepWorkRefused, StepCrash
<1> QED BY <1>1, <1>2, <1>3, <1>4, <1>5, <1>6 DEF Next

(* The invariant holds in every state of every behaviour. *)
THEOREM SessionCorrect == ASSUME AuthAssumption PROVE Spec => []AuthInv
<1>1. Init => AuthInv
  BY InitAuth
<1>2. AuthInv /\ [Next]_vars => AuthInv'
  BY NextAuth
<1> QED BY <1>1, <1>2, PTL DEF Spec

(* setItem and removeItem of authStorage.ts: once an account is signed in  *)
(* the slot holds no other one, so no crash brings the previous one back.  *)
THEOREM OthersGone == ASSUME AuthAssumption PROVE Spec => []PreviousAccountGone
<1>1. AuthInv => PreviousAccountGone
  BY DEF AuthInv, SlotOK, PreviousAccountGone
<1> QED BY <1>1, SessionCorrect, PTL

(* invalidateSession of authRecovery.ts removes only what the server       *)
(* refused, whatever was rotated or signed in before the removal.          *)
THEOREM OnlyRefusedGo == ASSUME AuthAssumption PROVE Spec => []RemovedWereRefused
<1>1. AuthInv => RemovedWereRefused
  BY DEF AuthInv
<1> QED BY <1>1, SessionCorrect, PTL

(* withAuthenticatedOperation never sends one operation under two accounts. *)
THEOREM UnderOneAccount == ASSUME AuthAssumption PROVE Spec => []OneAccount
<1>1. ASSUME AuthInv PROVE OneAccount
  <2>1. used = {} \/ \E a : used = {a}
    BY <1>1 DEF AuthInv, WorkOK
  <2>2. CASE used = {}
    BY <2>2, FS_EmptySet DEF OneAccount
  <2>3. ASSUME NEW a, used = {a} PROVE OneAccount
    <3>1. Cardinality({a}) = 1
      BY FS_Singleton
    <3> QED BY <2>3, <3>1 DEF OneAccount
  <2> QED BY <2>1, <2>2, <2>3
<1> QED BY <1>1, SessionCorrect, PTL

LEMMA StepNewer ==
  ASSUME AuthAssumption, AuthInv, [Next]_vars,
         latest \in Credential, latest' \in Credential
  PROVE  latest'.n >= latest.n
<1>1. latest # Unread /\ latest' # Unread /\ latest' # None
      /\ latest.n \in Nat
  BY Constants
<1>2. CASE UNCHANGED latest
  BY <1>1, <1>2
<1>3. CASE SetTask
  <2>1. latest' = latest \/ latest' = Head(queue).cred
    BY <1>3 DEF SetTask
  <2>2. /\ Head(queue).cred.n = issued /\ Old(latest) /\ Writing
    BY <1>1, <1>3, AtTheHead DEF SetTask, TaskOK, AuthInv, FreshOK, Writing
  <2>3. issued \in Nat
    BY Constants DEF AuthInv, Shape
  <2> QED BY <1>1, <2>1, <2>2, <2>3 DEF Old
<1>4. CASE Loaded \/ \E g : Flushed(g)
  BY <1>1, <1>2, <1>4, Reading, Flushing
<1>5. CASE Next /\ ~SetTask
  BY <1>1, <1>2, <1>4, <1>5
  DEF Next, Recovery, ReadBefore, ReadLook, Consult, ReadSdk, ReadCurrent,
      ReadCheck, ReadAfter, Reads, Tombstone, EraseTask, Restore, ReadRestore,
      SignIn, SignOut, AutoRefresh, Granted, Refused, Unanswered,
      EndedElsewhere, StartWork, WorkSettles, WorkRefused, Crash, storageVars
<1> QED BY <1>2, <1>3, <1>5 DEF vars, storageVars

(* A write of authStorage.ts that fails never brings an older credential   *)
(* back to what the process reads.                                         *)
THEOREM ReadsNewer == ASSUME AuthAssumption PROVE Spec => NeverOlder
<1>1. AuthInv /\ [Next]_vars =>
        [{latest, latest'} \subseteq Credential => latest.n' >= latest.n]_latest
  BY StepNewer
<1> QED BY <1>1, SessionCorrect, PTL DEF Spec, NeverOlder

-----------------------------------------------------------------------------
(* The types of the rest *)

(* What the interface, the operations, the server and the history may be.  *)
RestTyped ==
  /\ valid \subseteq 1 .. issued /\ pending \in BOOLEAN /\ lost \in BOOLEAN
  /\ user \in Accounts \cup {NoOne} /\ refused \subseteq Serial
  /\ (work.phase # "idle" => work.cred.who \in Accounts)
  /\ used \subseteq Accounts
  /\ works \in 0 .. MaxWorks /\ faults \in 0 .. MaxFaults

(* Which steps move what. *)
LEMMA RestMovers ==
  ASSUME [Next]_vars
  PROVE  /\ \/ \E a \in Accounts : SignIn(a)
            \/ SignOut \/ Granted \/ Unanswered \/ EndedElsewhere
            \/ UNCHANGED <<issued, valid>>
         /\ ReadCheck \/ UNCHANGED lost
         /\ Refused \/ UNCHANGED refused
         /\ \/ EraseTask \/ SetTask \/ ReadAfter \/ ReadRestore \/ Crash
            \/ UNCHANGED user
         /\ StartWork \/ WorkSettles \/ WorkRefused \/ Crash \/ UNCHANGED used
         /\ StartWork \/ UNCHANGED works
<1>1. CASE Recovery
  BY <1>1 DEF Recovery, ReadBefore, ReadLook, Consult, ReadSdk, ReadCurrent,
              ReadCheck, ReadAfter, serverVars, history
<1>2. CASE SetTask \/ EraseTask \/ Restore \/ ReadRestore
  BY <1>2 DEF SetTask, EraseTask, Restore, ReadRestore, serverVars, history
<1>3. CASE \E a \in Accounts : SignIn(a)
  BY <1>3 DEF SignIn, history
<1>4. CASE SignOut \/ AutoRefresh \/ Granted \/ Refused \/ Unanswered
  BY <1>4 DEF SignOut, AutoRefresh, Granted, Refused, Unanswered, serverVars,
              history
<1>5. CASE EndedElsewhere \/ UNCHANGED vars
  BY <1>5 DEF EndedElsewhere, vars, serverVars, history
<1>6. CASE StartWork \/ WorkSettles \/ WorkRefused \/ Crash
  BY <1>6 DEF StartWork, WorkSettles, WorkRefused, Crash, serverVars, history
<1> QED BY <1>1, <1>2, <1>3, <1>4, <1>5, <1>6 DEF Next

(* The bound on faults, and the flag of a write that waits. *)
LEMMA FaultSteps ==
  ASSUME [Next]_vars
  PROVE  /\ Fault \/ UNCHANGED faults
         /\ pending' \in {TRUE, FALSE, pending}
<1> USE DEF storageVars, slotVars
<1>0. \A g : Flushed(g) => /\ Fault \/ UNCHANGED faults
                           /\ pending' \in {TRUE, FALSE, pending}
  BY DEF Flushed
<1>1. Loaded => /\ Fault \/ UNCHANGED faults
                /\ pending' \in {TRUE, FALSE, pending}
  BY <1>0 DEF Loaded
<1>2. CASE Recovery
  BY <1>1, <1>2 DEF Recovery, ReadBefore, ReadLook, Consult, ReadSdk, Reads,
              ReadCurrent, ReadCheck, ReadAfter, Tombstone
<1>3. CASE SetTask \/ EraseTask \/ Restore \/ ReadRestore
  BY <1>0, <1>1, <1>3 DEF SetTask, EraseTask, Restore, ReadRestore, Reads
<1>4. CASE \E a \in Accounts : SignIn(a)
  BY <1>4 DEF SignIn
<1>5. CASE SignOut \/ AutoRefresh \/ Granted \/ Refused \/ Unanswered
  BY <1>5 DEF SignOut, AutoRefresh, Granted, Refused, Unanswered, Tombstone
<1>6. CASE EndedElsewhere \/ UNCHANGED vars
  BY <1>6 DEF EndedElsewhere, vars
<1>7. CASE StartWork \/ WorkSettles \/ WorkRefused \/ Crash
  BY <1>7 DEF StartWork, WorkSettles, WorkRefused, Crash
<1> QED BY <1>2, <1>3, <1>4, <1>5, <1>6, <1>7 DEF Next

(* An operation goes on under its own account, or starts. *)
WorkGoesOn ==
  \/ work' = work \/ work'.phase = "idle"
  \/ work.phase # "idle" /\ work'.cred.who = work.cred.who

LEMMA WorkSteps == ASSUME [Next]_vars PROVE WorkGoesOn \/ StartWork
<1>1. \A s : Joined(s) => WorkGoesOn
  BY DEF Joined, WorkGoesOn, NoWork
<1>2. \A c : Returns(c) => WorkGoesOn
  BY <1>1 DEF Returns
<1>3. UNCHANGED work => WorkGoesOn
  BY DEF WorkGoesOn
<1> HIDE DEF WorkGoesOn
<1>4. CASE ReadBefore \/ ReadLook \/ Consult \/ ReadCheck
  BY <1>3, <1>4 DEF ReadBefore, ReadLook, Consult, ReadCheck
<1>5. CASE ReadCurrent \/ ReadAfter
  BY <1>1, <1>3, <1>5 DEF ReadCurrent, ReadAfter
<1>6. CASE ReadSdk
  BY <1>2, <1>3, <1>6 DEF ReadSdk
<1>7. CASE SetTask
  BY <1>1, <1>2, <1>3, <1>7 DEF SetTask, Announced, Rejected
<1>8. CASE Unanswered
  BY <1>1, <1>3, <1>8 DEF Unanswered
<1>9. CASE \/ EraseTask \/ Restore \/ ReadRestore \/ SignOut \/ AutoRefresh
           \/ Granted \/ Refused \/ EndedElsewhere \/ \E a \in Accounts : SignIn(a)
           \/ UNCHANGED vars
  BY <1>3, <1>9 DEF EraseTask, Restore, ReadRestore, SignOut, AutoRefresh,
                    Granted, Refused, EndedElsewhere, SignIn, vars
<1>10. CASE WorkSettles \/ Crash
  BY <1>10 DEF WorkSettles, Crash, WorkGoesOn, NoWork
<1>11. CASE WorkRefused
  <2>1. work.phase = "try" /\ work' = [work EXCEPT !.phase = "refresh"]
    BY <1>11 DEF WorkRefused
  <2>2. work'.cred = work.cred
    BY <2>1
  <2> QED BY <2>1, <2>2 DEF WorkGoesOn
<1> QED BY <1>4, <1>5, <1>6, <1>7, <1>8, <1>9, <1>10, <1>11 DEF Next, Recovery

LEMMA RestStep ==
  ASSUME AuthAssumption, AuthInv, RestTyped, [Next]_vars PROVE RestTyped'
<1>1. /\ issued \in Nat /\ MaxIssued \in Nat /\ 0 \in Serial
      /\ sdk \in Sdk /\ latest \in Stored \cup {Unread} /\ queue \in Seq(Task)
  BY Constants DEF AuthInv, Shape, AuthAssumption, Serial
<1>2. \A c \in Stored : c.n \in Serial /\ c.who \in Accounts \cup {NoOne}
  BY <1>1 DEF Stored, Credential, None
<1>3. valid' \subseteq 1 .. issued'
  <2>1. CASE UNCHANGED <<issued, valid>>
    BY <2>1 DEF RestTyped
  <2>2. CASE Rotate \/ \E a \in Accounts : SignIn(a)
    <3>1. issued' = issued + 1 /\ valid' \subseteq valid \cup {issued + 1}
      BY <2>2 DEF Rotate, SignIn
    <3> QED BY <1>1, <3>1 DEF RestTyped
  <2>3. CASE SignOut \/ EndedElsewhere
    BY <2>3 DEF SignOut, EndedElsewhere, RestTyped
  <2> QED BY <2>1, <2>2, <2>3, RestMovers DEF Granted, Unanswered, serverVars
<1>4. pending' \in BOOLEAN
  BY FaultSteps DEF RestTyped
<1>5. lost' \in BOOLEAN
  <2>1. lost' = lost \/ lost' \in BOOLEAN
    BY RestMovers DEF ReadCheck
  <2> QED BY <2>1 DEF RestTyped
<1>6. user' \in Accounts \cup {NoOne}
  <2>1. CASE UNCHANGED user \/ EraseTask \/ ReadAfter \/ Crash
    BY <2>1 DEF EraseTask, ReadAfter, Told, Crash, RestTyped
  <2>2. CASE SetTask
    <3>1. user' = user \/ user' = Head(queue).cred.who
      BY <2>2 DEF SetTask, Announced, Rejected
    <3>2. Head(queue) \in Task
      BY <1>1, <2>2, HeadOf DEF SetTask, AtHead
    <3>3. Head(queue).cred \in Stored
      BY <3>2 DEF Task
    <3> QED BY <1>2, <3>1, <3>3 DEF RestTyped
  <2>3. CASE ReadRestore
    <3>1. user' = latest'.who /\ Loaded
      BY <2>3 DEF ReadRestore, Reads
    <3>2. latest' \in Stored
      BY <3>1, Reading
    <3> QED BY <1>2, <3>1, <3>2
  <2> QED BY <2>1, <2>2, <2>3, RestMovers
<1>7. refused' \subseteq Serial
  <2>1. CASE Refused
    <3>1. refused' = refused \cup {sdk.cred.n} /\ sdk.cred \in Stored
      BY <1>1, <2>1 DEF Refused, Sdk
    <3> QED BY <1>2, <3>1 DEF RestTyped
  <2> QED BY <2>1, RestMovers DEF RestTyped
<1>8. work'.phase # "idle" => work'.cred.who \in Accounts
  <2>1. CASE StartWork
    <3>1. work'.cred = latest /\ latest \in Stored /\ latest # None
      BY <1>1, <2>1 DEF StartWork, IsRead
    <3> QED BY <3>1, Constants DEF Stored
  <2>2. CASE WorkGoesOn
    BY <2>2 DEF WorkGoesOn, RestTyped
  <2> QED BY <2>1, <2>2, WorkSteps
<1>9. used' \subseteq Accounts
  BY RestMovers DEF StartWork, WorkSettles, WorkRefused, Crash, RestTyped
<1>10. works' \in 0 .. MaxWorks /\ faults' \in 0 .. MaxFaults
  <2>1. MaxWorks \in Nat /\ MaxFaults \in Nat
    BY DEF AuthAssumption
  <2>2. (works < MaxWorks /\ works' = works + 1) \/ works' = works
    BY RestMovers DEF StartWork
  <2>3. (faults < MaxFaults /\ faults' = faults + 1) \/ faults' = faults
    BY FaultSteps DEF Fault
  <2> QED BY <2>1, <2>2, <2>3 DEF RestTyped
<1> QED BY <1>3, <1>4, <1>5, <1>6, <1>7, <1>8, <1>9, <1>10 DEF RestTyped

(* Every variable has its type, and what is removed was a serial. *)
THEOREM SessionTypes == ASSUME AuthAssumption PROVE Spec => []TypeOK
<1>1. Init => RestTyped
  <2>1. MaxWorks \in Nat /\ MaxFaults \in Nat
    BY DEF AuthAssumption
  <2> SUFFICES ASSUME Init PROVE RestTyped
    OBVIOUS
  <2>2. valid \subseteq 1 .. issued /\ works \in 0 .. MaxWorks
          /\ faults \in 0 .. MaxFaults
    BY <2>1 DEF Init
  <2>3. pending \in BOOLEAN /\ lost \in BOOLEAN
    BY Zenon DEF Init
  <2>4. user = NoOne /\ refused = {} /\ used = {} /\ work.phase = "idle"
    BY DEF Init, NoWork
  <2> QED BY <2>2, <2>3, <2>4 DEF RestTyped
<1>2. AuthInv /\ RestTyped /\ [Next]_vars => RestTyped'
  BY RestStep
<1>3. ASSUME AuthInv, RestTyped PROVE TypeOK
  <2>1. slot.who \in Accounts \cup {NoOne}
    BY <1>3 DEF AuthInv, Shape, Stored, Credential, None
  <2>2. persisted \in Accounts \cup {NoOne, "unknown"}
    BY <1>3, <2>1 DEF AuthInv, SlotOK
  <2>3. removed \subseteq Serial
    BY <1>3 DEF AuthInv, RemovedWereRefused, RestTyped
  <2>4. /\ issued \in Serial /\ slot \in Stored /\ latest \in Stored \cup {Unread}
        /\ generation \in Nat /\ queue \in Seq(Task)
    BY <1>3 DEF AuthInv, Shape
  <2>5. sdk \in [phase : {"idle", "read", "sent", "save"},
                by : {"timer", "flight", "user"}, cred : Stored]
    BY <1>3 DEF AuthInv, Shape, Sdk
  <2>6. /\ flight \in [phase : {"idle", "wait"} \cup Reader, before : Stored,
                       seen : Stored, gone : BOOLEAN]
        /\ work \in [phase : {"idle", "try", "refresh", "retry"}, cred : Stored]
    BY <1>3 DEF AuthInv, Shape, Flight, Work
  <2>7. /\ valid \subseteq 1 .. issued /\ pending \in BOOLEAN /\ lost \in BOOLEAN
        /\ user \in Accounts \cup {NoOne} /\ refused \subseteq Serial
        /\ used \subseteq Accounts /\ works \in 0 .. MaxWorks
        /\ faults \in 0 .. MaxFaults
    BY <1>3 DEF RestTyped
  <2> QED BY <2>2, <2>3, <2>4, <2>5, <2>6, <2>7, Zenon DEF TypeOK
<1> QED BY <1>1, <1>2, <1>3, SessionCorrect, PTL DEF Spec

=============================================================================
