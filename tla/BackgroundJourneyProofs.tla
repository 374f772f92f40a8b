----------------------- MODULE BackgroundJourneyProofs -----------------------
(***************************************************************************)
(* The background location task never runs without a stored configuration  *)
(* but when a failed start could not stop it; it has the profile and the   *)
(* epoch of that configuration at rest, does not run where it is unwanted, *)
(* and its recorded progress is kept: for any owners and sessions and any  *)
(* number of requests, failures and crashes.                               *)
(*                                                                         *)
(* The lane is a queue of which only the head is under way.  What makes    *)
(* the invariant inductive: each change of the epoch leaves behind itself  *)
(* a job that settles it (a stop, or a start of the new epoch), and a      *)
(* start under way knows what it stored and what ran before.  A task that  *)
(* a failed start left behind (stray) is followed until something stops it *)
(* or a start settles it, over restarts and over starts that adopt it.     *)
(***************************************************************************)
EXTENDS BackgroundJourney, TLAPS

(* What a start has stored once it went past "save". *)
Stored(j) == IF j.again THEN j.cfg ELSE Carried(j.cfg, j.prev)

(* This job settles the task under epoch e. *)
Settles(j, e) == j.kind = "stop" \/ (j.kind = "start" /\ j.cfg.ep = e)
Current(j, e) == j.kind = "start" /\ j.cfg.ep = e

JobOK(j, n) ==
  /\ j.kind # "stop" => j.cfg \in Config /\ j.cfg.ep \in 1 .. n
  /\ j.kind = "start" => j.again \/ j.cfg.seq = 0
  /\ j.pc \in {"begin", "save", "swap"} => ~j.again

(* The lane under epoch e, when n epochs were issued: a start that was     *)
(* superseded is followed by what settles the task.                        *)
LaneOK(q, e, n) ==
  /\ \A i \in 1 .. Len(q) : JobOK(q[i], n)
  /\ \A i \in 1 .. Len(q) : i = 1 \/ q[i].pc = "begin"
  /\ \A i \in 1 .. Len(q) :
       q[i].kind = "start" =>
         \/ q[i].cfg.ep = e
         \/ \E k \in 1 .. Len(q) : k > i /\ Settles(q[k], e)

SettlerIn(q, e) == \E i \in 1 .. Len(q) : Settles(q[i], e)
StopIn(q) == \E i \in 1 .. Len(q) : q[i].kind = "stop"
CurrentIn(q, e) == \E i \in 1 .. Len(q) : Current(q[i], e)

QueueOK ==
  /\ LaneOK(jobs, epoch, issued)
  /\ epoch = 0 => jobs = <<>>
  /\ CurrentIn(jobs, epoch) => app = "background" /\ access # NoOne

CapturedOK ==
  /\ config # None => config.ep \in 1 .. issued
  /\ opening.pc # "none" =>
       opening.cfg \in Config /\ opening.cfg.seq = 0 /\ app = "background"
  /\ opening.pc # "none" /\ opening.ok => access # NoOne
  /\ sample.pc = "access" =>
       sample.cfg \in Config /\ sample.cfg.ep \in 1 .. issued

HeadOK ==
  /\ At("stop", "forget") => task = "off"
  /\ At("start", "swap") =>
       /\ config = Carried(Job1.cfg, Job1.prev)
       /\ Job1.had <=> task # "off"
       /\ task # "off" =>
            \/ stray
            \/ Job1.prev # None /\ (task = Mode(Job1.prev) \/ torn \/ mixed)
  /\ \A p \in {"launch", "confirm", "failed"} :
       At("start", p) => (task = "off" \/ stray) /\ config = Stored(Job1)

ProfileOK == \/ At("start", "swap") \/ task = Mode(config)
             \/ stray \/ torn \/ mixed
EpochOK == \/ epoch \in {0, config.ep}
           \/ deaf \/ stuck \/ stray \/ torn \/ mixed
           \/ SettlerIn(jobs, epoch)
WantedOK == \/ app = "background" /\ access # NoOne
            \/ stuck \/ cold
            \/ StopIn(jobs)
TaskOK == task # "off" =>
            (config # None \/ stray) /\ ProfileOK /\ EpochOK /\ WantedOK

JourneyInv == TypeOK /\ QueueOK /\ CapturedOK /\ HeadOK /\ TaskOK

-----------------------------------------------------------------------------
(* Records. *)

LEMMA Nothing ==
  /\ None.who = NoOne /\ None.ep = 0 /\ None.seq = 0 /\ None.session = NoSession
  /\ NoStart.pc = "none" /\ NoSample.pc = "none"
BY DEF None, NoStart, NoSample

LEMMA NotNone ==
  ASSUME JourneyAssumption
  PROVE  /\ \A c \in Config : c # None /\ c.who \in Owners /\ c.seq \in Nat
                              /\ c.ep \in Nat
         /\ \A c \in Config \cup {None} : c.who \in Owners => c \in Config
         /\ \A c \in Config \cup {None} : c # None => c \in Config
BY DEF JourneyAssumption, Config, None

LEMMA ConfigWith ==
  ASSUME NEW c \in Config, NEW n \in Nat
  PROVE  /\ [c EXCEPT !.ep = n] \in Config /\ [c EXCEPT !.seq = n] \in Config
         /\ LET d == [c EXCEPT !.ep = n] IN
              d.who = c.who /\ d.session = c.session /\ d.seq = c.seq /\ d.ep = n
         /\ LET d == [c EXCEPT !.seq = n] IN
              d.who = c.who /\ d.session = c.session /\ d.seq = n /\ d.ep = c.ep
BY DEF Config

(* What carrying the progress over changes: the sequence, never downwards. *)
LEMMA CarriedOK ==
  ASSUME JourneyAssumption, NEW c \in Config, NEW prev \in Config \cup {None}
  PROVE  /\ Carried(c, prev) \in Config /\ Carried(c, prev).who = c.who
         /\ Carried(c, prev).session = c.session /\ Carried(c, prev).ep = c.ep
         /\ Mode(Carried(c, prev)) = Mode(c)
         /\ prev.who = c.who /\ prev.session = c.session =>
              Carried(c, prev).seq = IF prev.seq > c.seq THEN prev.seq ELSE c.seq
<1>1. prev.seq \in Nat
  BY NotNone, Nothing
<1>2. CASE prev.who = c.who /\ prev.session = c.session
  <2> DEFINE n == IF prev.seq > c.seq THEN prev.seq ELSE c.seq
  <2>1. Carried(c, prev) = [c EXCEPT !.seq = n]
    BY <1>2, Zenon DEF Carried
  <2>2. n \in Nat
    BY <1>1, NotNone
  <2>3. n = IF prev.seq > c.seq THEN prev.seq ELSE c.seq
    OBVIOUS
  <2> HIDE DEF n
  <2> DEFINE d == [c EXCEPT !.seq = n]
  <2>4. d \in Config /\ d.who = c.who /\ d.session = c.session /\ d.seq = n
        /\ d.ep = c.ep
    BY <2>2, ConfigWith
  <2> HIDE DEF d
  <2>5. Carried(c, prev) = d
    BY <2>1 DEF d
  <2> QED BY <2>3, <2>4, <2>5 DEF Mode
<1>3. CASE ~(prev.who = c.who /\ prev.session = c.session)
  <2>1. Carried(c, prev) = c
    BY <1>3 DEF Carried
  <2> QED BY <1>3, <2>1
<1> QED BY <1>2, <1>3

LEMMA JobWith ==
  ASSUME NEW j \in Job,
         NEW p \in {"begin", "save", "swap", "launch", "confirm", "failed",
                    "forget"}
  PROVE  LET h == [j EXCEPT !.pc = p] IN
           /\ h \in Job /\ h.kind = j.kind /\ h.pc = p /\ h.cfg = j.cfg
           /\ h.prev = j.prev /\ h.had = j.had /\ h.again = j.again
BY DEF Job

LEMMA NewJobOK ==
  ASSUME NEW k \in {"start", "stop", "update"}, NEW c \in Config \cup {None}
  PROVE  /\ NewJob(k, c) \in Job /\ NewJob(k, c).kind = k
         /\ NewJob(k, c).pc = "begin" /\ NewJob(k, c).cfg = c
         /\ ~NewJob(k, c).again
BY DEF NewJob, Job

-----------------------------------------------------------------------------
(* The queue. *)

(* The queue q differs from p in what no invariant looks at. *)
Alike(p, q) ==
  /\ Len(q) = Len(p)
  /\ \A i \in 1 .. Len(p) :
       /\ q[i].kind = p[i].kind /\ q[i].pc = p[i].pc /\ q[i].cfg = p[i].cfg
       /\ q[i].prev = p[i].prev /\ q[i].had = p[i].had
       /\ q[i].again = p[i].again

LEMMA AfterTail ==
  ASSUME NEW q \in Seq(Job), q # <<>>
  PROVE  /\ Tail(q) \in Seq(Job) /\ Len(Tail(q)) = Len(q) - 1 /\ Len(q) \in Nat
         /\ Len(q) > 0
         /\ \A i \in 1 .. Len(Tail(q)) : Tail(q)[i] = q[i + 1]
         /\ Head(q) = q[1] /\ Head(q) \in Job
OBVIOUS

LEMMA AfterMove ==
  ASSUME NEW q \in Seq(Job), q # <<>>, NEW h \in Job
  PROVE  LET r == <<h>> \o Tail(q) IN
           /\ r \in Seq(Job) /\ Len(r) = Len(q) /\ r # <<>> /\ Head(r) = h
           /\ r[1] = h /\ \A i \in 2 .. Len(q) : r[i] = q[i]
<1> DEFINE t == Tail(q)
<1>1. /\ t \in Seq(Job) /\ Len(t) = Len(q) - 1 /\ Len(q) \in Nat /\ Len(q) > 0
      /\ \A i \in 1 .. Len(t) : t[i] = q[i + 1]
  BY AfterTail
<1> HIDE DEF t
<1>2. LET r == <<h>> \o t IN
        /\ r \in Seq(Job) /\ Len(r) = Len(t) + 1 /\ r # <<>> /\ Head(r) = h
        /\ r[1] = h /\ \A i \in 2 .. Len(t) + 1 : r[i] = t[i - 1]
  BY <1>1
<1>3. \A i \in 2 .. Len(t) + 1 : t[i - 1] = q[i]
  BY <1>1
<1> QED BY <1>1, <1>2, <1>3 DEF t

LEMMA AfterAppend ==
  ASSUME NEW q \in Seq(Job), NEW j \in Job
  PROVE  /\ Append(q, j) \in Seq(Job) /\ Len(Append(q, j)) = Len(q) + 1
         /\ Len(q) \in Nat /\ Append(q, j) # <<>>
         /\ Append(q, j)[Len(q) + 1] = j
         /\ \A i \in 1 .. Len(q) : Append(q, j)[i] = q[i]
         /\ q # <<>> => Head(Append(q, j)) = Head(q)
         /\ q = <<>> => Head(Append(q, j)) = j
<1> DEFINE r == Append(q, j)
<1>1. /\ r \in Seq(Job) /\ Len(r) = Len(q) + 1 /\ Len(q) \in Nat
      /\ r[Len(q) + 1] = j /\ \A i \in 1 .. Len(q) : r[i] = q[i]
  OBVIOUS
<1>2. Len(r) > 0 /\ (q # <<>> => 1 \in 1 .. Len(q)) /\ (q = <<>> => Len(q) = 0)
  BY <1>1
<1> HIDE DEF r
<1>3. r # <<>> /\ Head(r) = r[1]
  BY <1>1, <1>2
<1>4. q # <<>> => Head(q) = q[1]
  OBVIOUS
<1> QED BY <1>1, <1>2, <1>3, <1>4 DEF r

LEMMA RevokedAlike ==
  ASSUME NEW q \in Seq(Job)
  PROVE  Revoked(q) \in Seq(Job) /\ Alike(q, Revoked(q))
<1>1. CASE q = <<>>
  BY <1>1 DEF Revoked, Alike
<1>2. CASE q # <<>>
  <2> DEFINE h == [Head(q) EXCEPT !.ok = FALSE]
  <2>1. Head(q) \in Job /\ Head(q) = q[1]
    BY <1>2
  <2>2. /\ h \in Job /\ h.kind = q[1].kind /\ h.pc = q[1].pc /\ h.cfg = q[1].cfg
        /\ h.prev = q[1].prev /\ h.had = q[1].had /\ h.again = q[1].again
    BY <2>1 DEF Job
  <2>3. Revoked(q) = <<h>> \o Tail(q)
    BY <1>2 DEF Revoked
  <2> HIDE DEF h
  <2>4. /\ <<h>> \o Tail(q) \in Seq(Job) /\ Len(<<h>> \o Tail(q)) = Len(q)
        /\ (<<h>> \o Tail(q))[1] = h
        /\ \A i \in 2 .. Len(q) : (<<h>> \o Tail(q))[i] = q[i]
    BY <1>2, <2>2, AfterMove
  <2>5. \A i \in 1 .. Len(q) : i = 1 \/ i \in 2 .. Len(q)
    OBVIOUS
  <2> QED BY <2>2, <2>3, <2>4, <2>5, Zenon DEF Alike
<1> QED BY <1>1, <1>2

LEMMA AlikeSelf == ASSUME NEW q PROVE Alike(q, q)
BY DEF Alike

LEMMA PopLane ==
  ASSUME NEW q \in Seq(Job), q # <<>>, NEW e \in Nat, NEW n \in Nat,
         LaneOK(q, e, n)
  PROVE  LET t == Tail(q) IN
           /\ LaneOK(t, e, n) /\ t \in Seq(Job)
           /\ t # <<>> => Head(t).pc = "begin"
           /\ SettlerIn(q, e) => Settles(Head(q), e) \/ SettlerIn(t, e)
           /\ StopIn(q) => Head(q).kind = "stop" \/ StopIn(t)
           /\ CurrentIn(t, e) => CurrentIn(q, e)
           /\ Head(q).kind = "start" => Head(q).cfg.ep = e \/ SettlerIn(t, e)
<1> DEFINE t == Tail(q)
<1>1. /\ t \in Seq(Job) /\ Len(t) = Len(q) - 1 /\ Len(q) \in Nat
      /\ Len(q) > 0 /\ \A i \in 1 .. Len(t) : t[i] = q[i + 1]
      /\ Head(q) = q[1]
  BY AfterTail
<1> HIDE DEF t
<1>2. /\ \A i \in 1 .. Len(t) : i + 1 \in 1 .. Len(q) /\ i + 1 # 1
      /\ \A i \in 1 .. Len(q) : i # 1 => i - 1 \in 1 .. Len(t) /\ q[i] = t[i - 1]
      /\ 1 \in 1 .. Len(q)
      /\ t # <<>> => 1 \in 1 .. Len(t) /\ Head(t) = t[1]
  BY <1>1
<1>3. /\ \A i \in 1 .. Len(t) : JobOK(t[i], n) /\ t[i].pc = "begin"
      /\ t # <<>> => Head(t).pc = "begin"
  BY <1>1, <1>2 DEF LaneOK
<1>4. ASSUME NEW i \in 1 .. Len(t), t[i].kind = "start"
      PROVE  \/ t[i].cfg.ep = e
             \/ \E k \in 1 .. Len(t) : k > i /\ Settles(t[k], e)
  <2>1. \/ q[i + 1].cfg.ep = e
        \/ \E k \in 1 .. Len(q) : k > i + 1 /\ Settles(q[k], e)
    BY <1>1, <1>2, <1>4 DEF LaneOK
  <2>2. ASSUME NEW k \in 1 .. Len(q), k > i + 1, Settles(q[k], e)
        PROVE  k - 1 \in 1 .. Len(t) /\ k - 1 > i /\ Settles(t[k - 1], e)
    <3>1. k # 1 /\ k - 1 > i
      BY <2>2, <1>1
    <3> QED BY <3>1, <1>2, <2>2
  <2> QED BY <1>1, <2>1, <2>2
<1>5. LaneOK(t, e, n)
  BY <1>3, <1>4, Zenon DEF LaneOK
<1>6. SettlerIn(q, e) => Settles(Head(q), e) \/ SettlerIn(t, e)
  BY <1>1, <1>2 DEF SettlerIn
<1>7. StopIn(q) => Head(q).kind = "stop" \/ StopIn(t)
  BY <1>1, <1>2 DEF StopIn
<1>8. CurrentIn(t, e) => CurrentIn(q, e)
  BY <1>1, <1>2 DEF CurrentIn
<1>9. Head(q).kind = "start" => Head(q).cfg.ep = e \/ SettlerIn(t, e)
  <2>1. \A k \in 1 .. Len(q) : k > 1 => k # 1
    OBVIOUS
  <2> QED BY <1>1, <1>2, <2>1 DEF LaneOK, SettlerIn
<1> QED BY <1>1, <1>3, <1>5, <1>6, <1>7, <1>8, <1>9 DEF t

LEMMA MoveLane ==
  ASSUME NEW q \in Seq(Job), q # <<>>, NEW e \in Nat, NEW n \in Nat,
         LaneOK(q, e, n), NEW h \in Job, JobOK(h, n),
         h.kind = Head(q).kind, h.cfg.ep = Head(q).cfg.ep
  PROVE  LET r == <<h>> \o Tail(q) IN
           /\ LaneOK(r, e, n) /\ r \in Seq(Job) /\ r # <<>> /\ Head(r) = h
           /\ SettlerIn(q, e) <=> SettlerIn(r, e)
           /\ StopIn(q) <=> StopIn(r)
           /\ CurrentIn(q, e) <=> CurrentIn(r, e)
<1> DEFINE r == <<h>> \o Tail(q)
<1>1. /\ r \in Seq(Job) /\ Len(r) = Len(q) /\ r # <<>> /\ Head(r) = h
      /\ r[1] = h /\ \A i \in 2 .. Len(q) : r[i] = q[i]
      /\ Head(q) = q[1]
  BY AfterMove, AfterTail
<1> HIDE DEF r
<1>2. \A i \in 1 .. Len(q) : i = 1 \/ i \in 2 .. Len(q)
  OBVIOUS
<1>3. \A i \in 1 .. Len(q) : r[i].kind = q[i].kind /\ r[i].cfg.ep = q[i].cfg.ep
                             /\ (i = 1 \/ r[i] = q[i])
  BY <1>1, <1>2, Zenon
<1>4. \A i \in 1 .. Len(q) : /\ Settles(r[i], e) <=> Settles(q[i], e)
                             /\ Current(r[i], e) <=> Current(q[i], e)
  BY <1>3, Zenon DEF Settles, Current
<1>5. \A i \in 1 .. Len(q) : JobOK(r[i], n) /\ (i = 1 \/ r[i].pc = "begin")
  BY <1>1, <1>3, Zenon DEF LaneOK
<1>6. LaneOK(r, e, n)
  BY <1>1, <1>3, <1>4, <1>5, Zenon DEF LaneOK
<1>7. /\ SettlerIn(q, e) <=> SettlerIn(r, e)
      /\ StopIn(q) <=> StopIn(r)
      /\ CurrentIn(q, e) <=> CurrentIn(r, e)
  BY <1>1, <1>3, <1>4, Zenon DEF SettlerIn, StopIn, CurrentIn
<1> QED BY <1>1, <1>6, <1>7 DEF r

LEMMA AlikeLane ==
  ASSUME NEW q \in Seq(Job), NEW r \in Seq(Job), Alike(q, r),
         NEW e \in Nat, NEW n \in Nat, LaneOK(q, e, n)
  PROVE  /\ LaneOK(r, e, n)
         /\ SettlerIn(q, e) <=> SettlerIn(r, e)
         /\ StopIn(q) <=> StopIn(r)
         /\ CurrentIn(q, e) <=> CurrentIn(r, e)
<1>1. \A i \in 1 .. Len(q) : /\ Settles(r[i], e) <=> Settles(q[i], e)
                             /\ Current(r[i], e) <=> Current(q[i], e)
                             /\ JobOK(q[i], n) => JobOK(r[i], n)
  BY Zenon DEF Alike, Settles, Current, JobOK
<1>2. Len(r) = Len(q) /\ \A i \in 1 .. Len(q) : r[i].kind = q[i].kind
                              /\ r[i].pc = q[i].pc /\ r[i].cfg = q[i].cfg
  BY DEF Alike
<1> QED BY <1>1, <1>2, Zenon DEF LaneOK, SettlerIn, StopIn, CurrentIn

(* A new epoch is taken with the job that settles the task under it. *)
LEMMA NewEpochLane ==
  ASSUME NEW q \in Seq(Job), NEW e \in Nat, NEW n \in Nat, LaneOK(q, e, n),
         NEW j \in Job, JobOK(j, n + 1), j.pc = "begin", Settles(j, n + 1)
  PROVE  LET r == Append(q, j) IN
           /\ LaneOK(r, n + 1, n + 1) /\ r \in Seq(Job) /\ r # <<>>
           /\ SettlerIn(r, n + 1)
           /\ StopIn(q) => StopIn(r)
           /\ j.kind = "stop" => StopIn(r)
           /\ CurrentIn(r, n + 1) => j.kind = "start"
<1> DEFINE r == Append(q, j)
<1>1. /\ r \in Seq(Job) /\ Len(r) = Len(q) + 1 /\ Len(q) \in Nat /\ r # <<>>
      /\ r[Len(q) + 1] = j /\ \A i \in 1 .. Len(q) : r[i] = q[i]
  BY AfterAppend
<1> HIDE DEF r
<1>2. /\ \A i \in 1 .. Len(r) : i \in 1 .. Len(q) \/ i = Len(q) + 1
      /\ \A i \in 1 .. Len(q) : i \in 1 .. Len(r) /\ Len(r) > i
      /\ Len(r) \in 1 .. Len(r) /\ r[Len(r)] = j
  BY <1>1
<1>3. \A i \in 1 .. Len(q) : JobOK(q[i], n) /\ (i = 1 \/ q[i].pc = "begin")
  BY DEF LaneOK
<1>4. \A i \in 1 .. Len(q) : JobOK(q[i], n + 1) /\ ~Current(q[i], n + 1)
  <2>1. \A m : m \in 1 .. n => m \in 1 .. n + 1 /\ m # n + 1
    OBVIOUS
  <2> QED BY <1>3, <2>1, Zenon DEF JobOK, Current
<1>5. /\ \A i \in 1 .. Len(r) : JobOK(r[i], n + 1)
      /\ \A i \in 1 .. Len(r) : i = 1 \/ r[i].pc = "begin"
      /\ \A i \in 1 .. Len(r) :
           r[i].kind = "start" =>
             \/ r[i].cfg.ep = n + 1
             \/ \E k \in 1 .. Len(r) : k > i /\ Settles(r[k], n + 1)
  <2>1. ASSUME NEW i \in 1 .. Len(r)
        PROVE  /\ JobOK(r[i], n + 1) /\ (i = 1 \/ r[i].pc = "begin")
               /\ r[i].kind = "start" =>
                    \/ r[i].cfg.ep = n + 1
                    \/ \E k \in 1 .. Len(r) : k > i /\ Settles(r[k], n + 1)
    <3>1. CASE i \in 1 .. Len(q)
      BY <3>1, <1>1, <1>2, <1>3, <1>4
    <3>2. CASE i = Len(q) + 1
      <4>1. r[i] = j
        BY <3>2, <1>1
      <4> QED BY <4>1, Zenon DEF Settles
    <3> QED BY <3>1, <3>2, <1>2
  <2> QED BY <2>1
<1>6. LaneOK(r, n + 1, n + 1)
  BY <1>5, Zenon DEF LaneOK
<1>7. SettlerIn(r, n + 1) /\ (StopIn(q) => StopIn(r))
        /\ (j.kind = "stop" => StopIn(r))
  BY <1>1, <1>2, Zenon DEF SettlerIn, StopIn
<1>8. CurrentIn(r, n + 1) => j.kind = "start"
  BY <1>1, <1>2, <1>4, Zenon DEF CurrentIn, Current
<1> QED BY <1>1, <1>6, <1>7, <1>8 DEF r

(* An update joins the lane under the epoch it was read under. *)
LEMMA UpdateLane ==
  ASSUME NEW q \in Seq(Job), NEW e \in Nat, NEW n \in Nat, LaneOK(q, e, n),
         NEW j \in Job, JobOK(j, n), j.pc = "begin", j.kind = "update"
  PROVE  LET r == Append(q, j) IN
           /\ LaneOK(r, e, n) /\ r \in Seq(Job) /\ r # <<>>
           /\ SettlerIn(q, e) => SettlerIn(r, e)
           /\ StopIn(q) => StopIn(r)
           /\ CurrentIn(r, e) => CurrentIn(q, e)
<1> DEFINE r == Append(q, j)
<1>1. /\ r \in Seq(Job) /\ Len(r) = Len(q) + 1 /\ Len(q) \in Nat /\ r # <<>>
      /\ r[Len(q) + 1] = j /\ \A i \in 1 .. Len(q) : r[i] = q[i]
  BY AfterAppend
<1> HIDE DEF r
<1>2. /\ \A i \in 1 .. Len(r) : i \in 1 .. Len(q) \/ i = Len(q) + 1
      /\ \A i \in 1 .. Len(q) : i \in 1 .. Len(r)
  BY <1>1
<1>3. ASSUME NEW i \in 1 .. Len(r)
      PROVE  /\ JobOK(r[i], n) /\ (i = 1 \/ r[i].pc = "begin")
             /\ r[i].kind = "start" =>
                  \/ r[i].cfg.ep = e
                  \/ \E k \in 1 .. Len(r) : k > i /\ Settles(r[k], e)
  <2>1. CASE i \in 1 .. Len(q)
    BY <2>1, <1>1, <1>2, Zenon DEF LaneOK
  <2>2. CASE i = Len(q) + 1
    <3>1. r[i] = j
      BY <2>2, <1>1
    <3> QED BY <3>1
  <2> QED BY <2>1, <2>2, <1>2
<1>4. LaneOK(r, e, n)
  BY <1>3, Zenon DEF LaneOK
<1>5. /\ SettlerIn(q, e) => SettlerIn(r, e)
      /\ StopIn(q) => StopIn(r)
      /\ CurrentIn(r, e) => CurrentIn(q, e)
  BY <1>1, <1>2, Zenon DEF SettlerIn, StopIn, CurrentIn, Current
<1> QED BY <1>1, <1>4, <1>5 DEF r

-----------------------------------------------------------------------------
(* The invariant over the lane's head and over the task. *)

LEMMA HeadFacts ==
  ASSUME JourneyInv
  PROVE  /\ jobs \in Seq(Job) /\ epoch \in Nat /\ issued \in Nat
         /\ LaneOK(jobs, epoch, issued)
         /\ jobs # <<>> => /\ Job1 \in Job /\ Job1 = jobs[1] /\ JobOK(Job1, issued)
                           /\ epoch # 0 /\ 1 \in 1 .. Len(jobs)
<1>1. /\ jobs \in Seq(Job) /\ epoch \in Nat /\ issued \in Nat
      /\ LaneOK(jobs, epoch, issued) /\ (epoch = 0 => jobs = <<>>)
  BY DEF JourneyInv, TypeOK, QueueOK
<1>2. jobs # <<>> => Head(jobs) \in Job /\ Head(jobs) = jobs[1]
        /\ 1 \in 1 .. Len(jobs)
  BY <1>1
<1> QED BY <1>1, <1>2 DEF Job1, LaneOK

(* A job that begins has nothing to keep. *)
LEMMA BeginsOK ==
  ASSUME (jobs = <<>> \/ Head(jobs).pc = "begin")'
  PROVE  HeadOK' /\ ~At("start", "swap")'
<1>1. \A k, p : p # "begin" => ~At(k, p)'
  BY DEF At
<1> QED BY <1>1 DEF HeadOK

LEMMA AlikeHead ==
  ASSUME JourneyInv, NEW q \in Seq(Job), Alike(jobs, q),
         \/ jobs' = q
         \/ \E j \in Job : j.pc = "begin" /\ jobs' = Append(q, j),
         UNCHANGED <<config, task, stray, torn, mixed>>
  PROVE  HeadOK' /\ (At("start", "swap") => At("start", "swap")')
<1>1. /\ jobs \in Seq(Job) /\ jobs' \in Seq(Job) /\ Len(q) = Len(jobs)
      /\ Len(jobs) \in Nat
  BY HeadFacts DEF Alike
<1>2. CASE jobs = <<>>
  <2>1. q = <<>>
    BY <1>1, <1>2
  <2>2. jobs' = <<>> \/ Head(jobs').pc = "begin"
    BY <2>1
  <2> QED BY <1>2, <2>2, BeginsOK DEF At
<1>3. CASE jobs # <<>>
  <2>1. q # <<>> /\ 1 \in 1 .. Len(jobs) /\ Head(q) = q[1] /\ Head(jobs) = jobs[1]
    BY <1>1, <1>3
  <2>2. jobs' # <<>> /\ Head(jobs') = q[1]
    BY <2>1, AfterAppend
  <2>3. /\ Job1'.kind = Job1.kind /\ Job1'.pc = Job1.pc /\ Job1'.cfg = Job1.cfg
        /\ Job1'.prev = Job1.prev /\ Job1'.had = Job1.had
        /\ Job1'.again = Job1.again
    BY <2>1, <2>2 DEF Alike, Job1
  <2>4. \A k, p : At(k, p)' <=> At(k, p)
    BY <1>3, <2>2, <2>3 DEF At, Job1
  <2>5. Stored(Job1)' = Stored(Job1)
    BY <2>3 DEF Stored, Carried
  <2>6. Carried(Job1.cfg, Job1.prev)' = Carried(Job1.cfg, Job1.prev)
    BY <2>3 DEF Carried
  <2>7. Mode(Job1.prev)' = Mode(Job1.prev)
    BY <2>3 DEF Mode
  <2>8. HeadOK
    BY DEF JourneyInv
  <2>9. /\ At("stop", "forget")' => task' = "off"
        /\ At("start", "swap")' =>
             /\ config' = Carried(Job1.cfg, Job1.prev)'
             /\ Job1'.had <=> task' # "off"
             /\ task' # "off" =>
                  \/ stray'
                  \/ /\ Job1'.prev # None
                     /\ task' = Mode(Job1.prev)' \/ torn' \/ mixed'
    BY <2>3, <2>4, <2>6, <2>7, <2>8, Zenon DEF HeadOK
  <2>10. \A p \in {"launch", "confirm", "failed"} :
           At("start", p)' =>
             (task' = "off" \/ stray') /\ config' = Stored(Job1)'
    BY <2>4, <2>5, <2>8, Zenon DEF HeadOK
  <2> QED BY <2>4, <2>9, <2>10, Zenon DEF HeadOK
<1> QED BY <1>2, <1>3

(* A stop takes a new epoch and joins the lane. *)
LEMMA Stops ==
  ASSUME JourneyAssumption, JourneyInv, NEW q \in Seq(Job), Alike(jobs, q),
         NextEpoch, jobs' = Append(q, NewJob("stop", None)), opening' = NoStart,
         sample' \in {sample, NoSample}, UNCHANGED <<durable, history>>,
         app' \in {"active", "background"}, access' \in Owners \cup {NoOne},
         requests' \in 0 .. MaxRequests, faults' \in 0 .. MaxFaults
  PROVE  JourneyInv'
<1> DEFINE job == NewJob("stop", None)
<1>1. /\ job \in Job /\ job.kind = "stop" /\ job.pc = "begin" /\ ~job.again
  BY NewJobOK
<1> HIDE DEF job
<1>2. JobOK(job, issued + 1) /\ Settles(job, issued + 1)
  BY <1>1 DEF JobOK, Settles
<1>3. /\ issued' = issued + 1 /\ epoch' = issued + 1 /\ issued \in Nat
      /\ epoch \in Nat /\ jobs' = Append(q, job)
  BY HeadFacts DEF NextEpoch, job
<1>4. LaneOK(q, epoch, issued)
  BY HeadFacts, AlikeLane
<1>5. /\ LaneOK(jobs', issued + 1, issued + 1) /\ jobs' \in Seq(Job)
      /\ SettlerIn(jobs', issued + 1) /\ StopIn(jobs')
      /\ ~CurrentIn(jobs', issued + 1)
  <2> DEFINE r == Append(q, job)
  <2>1. /\ LaneOK(r, issued + 1, issued + 1) /\ r \in Seq(Job)
        /\ SettlerIn(r, issued + 1)
        /\ job.kind = "stop" => StopIn(r)
        /\ CurrentIn(r, issued + 1) => job.kind = "start"
    BY <1>1, <1>2, <1>3, <1>4, NewEpochLane
  <2>2. jobs' = r
    BY <1>3
  <2> HIDE DEF r
  <2>3. StopIn(r) /\ ~CurrentIn(r, issued + 1)
    BY <1>1, <2>1
  <2> QED BY <2>1, <2>2, <2>3, Zenon
<1>6. QueueOK'
  BY <1>3, <1>5 DEF QueueOK
<1>7. HeadOK' /\ (At("start", "swap") => At("start", "swap")')
  BY <1>1, <1>3, AlikeHead DEF durable, history
<1>8. TaskOK'
  <2>1. UNCHANGED <<task, config, stray, torn, mixed>>
    BY DEF durable, history
  <2>2. task # "off" => (config # None \/ stray) /\ ProfileOK
    BY DEF JourneyInv, TaskOK
  <2>3. task # "off" => ProfileOK'
    BY <1>7, <2>1, <2>2 DEF ProfileOK, Mode
  <2> QED BY <1>3, <1>5, <2>1, <2>2, <2>3 DEF TaskOK, EpochOK, WantedOK
<1>9. CapturedOK'
  <2>1. \A m : m \in 1 .. issued => m \in 1 .. issued'
    BY <1>3
  <2>2. sample'.pc = "access" => sample' = sample
    BY Nothing
  <2>3. CapturedOK /\ UNCHANGED config /\ opening'.pc = "none"
    BY Nothing DEF JourneyInv, durable
  <2> QED BY <2>1, <2>2, <2>3 DEF CapturedOK
<1>10. TypeOK'
  <2>1. TypeOK
    BY DEF JourneyInv
  <2>2. /\ NoStart \in [pc : {"none", "access", "load"}, cfg : Config \cup {None},
                        ok : BOOLEAN]
        /\ NoSample \in [pc : {"none", "load", "access", "update"},
                         cfg : Config \cup {None}, ok : BOOLEAN]
    BY DEF NoStart, NoSample
  <2>3. epoch' \in 0 .. issued' /\ issued' \in Nat
    BY <1>3
  <2> QED BY <1>5, <2>1, <2>2, <2>3, Zenon DEF TypeOK, durable, history
<1> QED BY <1>6, <1>7, <1>8, <1>9, <1>10 DEF JourneyInv

(* What does not touch the lane, the epoch or the task, and does not take  *)
(* the location away. *)
LEMMA Quiet ==
  ASSUME JourneyInv, NEW q \in Seq(Job), Alike(jobs, q), jobs' = q,
         UNCHANGED <<clock, durable, history>>,
         app = "background" /\ access # NoOne =>
           app' = "background" /\ access' # NoOne
  PROVE  QueueOK' /\ HeadOK' /\ TaskOK'
<1>1. UNCHANGED <<epoch, issued, config, task, deaf, stuck, stray, torn, mixed, cold>>
  BY DEF clock, durable, history
<1>2. /\ LaneOK(q, epoch, issued)
      /\ SettlerIn(q, epoch) <=> SettlerIn(jobs, epoch)
      /\ StopIn(q) <=> StopIn(jobs)
      /\ CurrentIn(q, epoch) <=> CurrentIn(jobs, epoch)
  BY HeadFacts, AlikeLane
<1>3. jobs = <<>> => q = <<>>
  <2>1. Len(q) = Len(jobs)
    BY DEF Alike
  <2> QED BY <2>1
<1>4. QueueOK'
  BY <1>1, <1>2, <1>3 DEF JourneyInv, QueueOK
<1>5. HeadOK' /\ (At("start", "swap") => At("start", "swap")')
  BY <1>1, AlikeHead
<1>6. TaskOK'
  <2>1. task # "off" =>
          (config # None \/ stray) /\ ProfileOK /\ EpochOK /\ WantedOK
    BY DEF JourneyInv, TaskOK
  <2>2. ProfileOK => ProfileOK'
    BY <1>1, <1>5 DEF ProfileOK, Mode
  <2>3. EpochOK => EpochOK'
    BY <1>1, <1>2, Zenon DEF EpochOK
  <2>4. WantedOK => WantedOK'
    BY <1>1, <1>2 DEF WantedOK
  <2> QED BY <1>1, <2>1, <2>2, <2>3, <2>4 DEF TaskOK
<1> QED BY <1>4, <1>5, <1>6

(* A process that has no epoch takes the stored one. *)
LEMMA Loads ==
  ASSUME JourneyInv, epoch' = LoadedEpoch, UNCHANGED <<user, issued, durable, jobs, history>>
  PROVE  QueueOK' /\ HeadOK' /\ TaskOK' /\ epoch' \in 0 .. issued'
<1>1. UNCHANGED <<app, access, issued, config, task, jobs, deaf, stuck, stray, torn, mixed, cold>>
  BY DEF user, durable, history
<1>2. CASE epoch # 0
  <2>1. UNCHANGED <<clock, durable, history>>
    BY <1>1, <1>2 DEF LoadedEpoch, clock, durable, history
  <2>2. Alike(jobs, jobs) /\ jobs \in Seq(Job)
    BY AlikeSelf, HeadFacts
  <2>3. epoch \in 0 .. issued
    BY DEF JourneyInv, TypeOK
  <2> QED BY <1>1, <2>1, <2>2, <2>3, Quiet DEF clock
<1>3. CASE epoch = 0
  <2>1. jobs = <<>> /\ epoch' = config.ep
    BY <1>3 DEF JourneyInv, QueueOK, LoadedEpoch
  <2>2. epoch' \in 0 .. issued'
    <3>1. CASE config = None
      BY <3>1, <2>1, <1>1, HeadFacts, Nothing
    <3>2. CASE config # None
      <4>1. config.ep \in 1 .. issued
        BY <3>2 DEF JourneyInv, CapturedOK
      <4> QED BY <4>1, <2>1, <1>1
    <3> QED BY <3>1, <3>2
  <2>3. \A i \in 1 .. Len(jobs) : FALSE
    BY <2>1
  <2>4. QueueOK'
    BY <1>1, <2>1, <2>3 DEF QueueOK, LaneOK, CurrentIn
  <2>5. HeadOK'
    BY <1>1, <2>1, BeginsOK
  <2>6. TaskOK'
    <3>1. task # "off" => (config # None \/ stray) /\ ProfileOK /\ WantedOK
      BY DEF JourneyInv, TaskOK
    <3>2. ProfileOK' <=> ProfileOK
      BY <1>1 DEF ProfileOK, At, Mode
    <3>3. WantedOK' <=> WantedOK
      BY <1>1 DEF WantedOK, StopIn
    <3>4. EpochOK'
      BY <1>1, <2>1 DEF EpochOK
    <3> QED BY <1>1, <3>1, <3>2, <3>3, <3>4 DEF TaskOK
  <2> QED BY <2>2, <2>4, <2>5, <2>6
<1> QED BY <1>2, <1>3

-----------------------------------------------------------------------------
(* The steps of the interface and of the callbacks. *)

(* What is unchanged by a step keeps its type and what was captured. *)
LEMMA Typed == ASSUME JourneyInv PROVE
  /\ TypeOK /\ CapturedOK
  /\ requests \in Nat /\ faults \in Nat
BY DEF JourneyInv, TypeOK

LEMMA Requested ==
  ASSUME JourneyAssumption, JourneyInv, Request
  PROVE  requests' \in 0 .. MaxRequests
BY DEF JourneyInv, TypeOK, Request, JourneyAssumption

LEMMA Faulted ==
  ASSUME JourneyAssumption, JourneyInv, Fault
  PROVE  faults' \in 0 .. MaxFaults
BY DEF JourneyInv, TypeOK, Fault, JourneyAssumption

LEMMA Nil ==
  /\ NoStart \in [pc : {"none", "access", "load"}, cfg : Config \cup {None},
                  ok : BOOLEAN]
  /\ NoSample \in [pc : {"none", "load", "access", "update"},
                   cfg : Config \cup {None}, ok : BOOLEAN]
BY DEF NoStart, NoSample

LEMMA Generation ==
  ASSUME NewGeneration PROVE sample' \in {sample, NoSample}
BY DEF NewGeneration

LEMMA StepStart ==
  ASSUME JourneyAssumption, JourneyInv,
         NEW w \in Owners, NEW s \in Sessions \cup {NoSession}, Start(w, s)
  PROVE  JourneyInv'
<1> DEFINE c == [who |-> w, session |-> s, seq |-> 0, ep |-> 0]
<1>1. c \in Config /\ c.seq = 0
  BY DEF Config
<1> HIDE DEF c
<1>2. /\ app = "background" /\ Request /\ NewGeneration
      /\ opening' = [pc |-> "access", ok |-> access = w, cfg |-> c]
      /\ UNCHANGED <<user, clock, durable, jobs, history, faults>>
  BY DEF Start, c
<1>3. /\ opening'.pc = "access" /\ opening'.cfg = c /\ (opening'.ok <=> access = w)
      /\ opening' \in [pc : {"none", "access", "load"}, cfg : Config \cup {None},
                       ok : BOOLEAN]
  BY <1>1, <1>2
<1>4. /\ UNCHANGED <<app, access, epoch, issued, config, task, jobs, deaf, stuck,
                     stray, torn, mixed, cold, faults>>
      /\ requests' \in 0 .. MaxRequests
      /\ sample' \in {sample, NoSample} /\ NoSample.pc = "none"
  BY <1>2, Requested, Generation, Nothing DEF user, clock, durable, history
<1>5. QueueOK' /\ HeadOK' /\ TaskOK'
  BY <1>2, <1>4, Quiet, AlikeSelf, HeadFacts
<1>6. TypeOK'
  BY <1>3, <1>4, Typed, Nil, Zenon DEF TypeOK
<1>7. CapturedOK'
  <2>1. w # NoOne
    BY DEF JourneyAssumption
  <2> QED BY <1>1, <1>2, <1>3, <1>4, <2>1, Typed DEF CapturedOK
<1> QED BY <1>5, <1>6, <1>7 DEF JourneyInv

LEMMA StepOpeningAccess ==
  ASSUME JourneyAssumption, JourneyInv, OpeningAccess
  PROVE  JourneyInv'
<1>1. UNCHANGED <<app, access, config, task, deaf, stuck, stray, torn, mixed, cold,
                requests>>
  BY DEF OpeningAccess, user, durable, history
<1>2. CASE /\ opening.ok /\ opening' = [opening EXCEPT !.pc = "load"]
           /\ UNCHANGED <<clock, jobs, sample, faults>>
  <2>1. opening.pc = "access"
    BY DEF OpeningAccess
  <2>2. opening \in [pc : {"none", "access", "load"}, cfg : Config \cup {None},
                     ok : BOOLEAN]
    BY Typed DEF TypeOK
  <2>3. /\ opening' \in [pc : {"none", "access", "load"}, cfg : Config \cup {None},
                         ok : BOOLEAN]
        /\ opening'.cfg = opening.cfg /\ opening'.ok = opening.ok
    BY <1>2, <2>2
  <2>4. UNCHANGED <<epoch, issued>>
    BY <1>2 DEF clock
  <2>5. QueueOK' /\ HeadOK' /\ TaskOK'
    BY <1>1, <1>2, Quiet, AlikeSelf, HeadFacts DEF durable, history
  <2>6. CapturedOK'
    BY <1>1, <1>2, <2>1, <2>3, <2>4, Typed DEF CapturedOK
  <2>7. TypeOK'
    BY <1>1, <1>2, <2>3, <2>4, Typed, Zenon DEF TypeOK
  <2> QED BY <2>5, <2>6, <2>7 DEF JourneyInv
<1>3. CASE StopTracking(jobs) /\ UNCHANGED faults
  <2>1. /\ NextEpoch /\ jobs' = Append(jobs, NewJob("stop", None))
        /\ opening' = NoStart /\ sample' \in {sample, NoSample}
    BY <1>3, Generation DEF StopTracking
  <2>2. /\ app' \in {"active", "background"} /\ access' \in Owners \cup {NoOne}
        /\ requests' \in 0 .. MaxRequests /\ faults' \in 0 .. MaxFaults
    BY <1>1, <1>3, Typed DEF TypeOK
  <2> QED BY <1>1, <2>1, <2>2, Stops, AlikeSelf, HeadFacts DEF durable, history
<1>4. CASE Fault /\ opening' = NoStart /\ UNCHANGED <<clock, jobs, sample>>
  <2>1. UNCHANGED <<epoch, issued>> /\ faults' \in 0 .. MaxFaults
    BY <1>4, Faulted DEF clock
  <2>2. QueueOK' /\ HeadOK' /\ TaskOK'
    BY <1>1, <1>4, Quiet, AlikeSelf, HeadFacts DEF durable, history
  <2>3. CapturedOK'
    BY <1>1, <1>4, <2>1, Typed, Nothing DEF CapturedOK
  <2>4. TypeOK'
    BY <1>1, <1>4, <2>1, Typed, Nil, Zenon DEF TypeOK
  <2> QED BY <2>2, <2>3, <2>4 DEF JourneyInv
<1> QED BY <1>2, <1>3, <1>4 DEF OpeningAccess

LEMMA StepOpeningLoad ==
  ASSUME JourneyAssumption, JourneyInv, OpeningLoad
  PROVE  JourneyInv'
<1>1. /\ opening.pc = "load" /\ opening' = NoStart
      /\ UNCHANGED <<app, access, config, task, sample, deaf, stuck, stray, torn, mixed,
                     cold, requests, faults>>
  BY DEF OpeningLoad, user, durable, history
<1>2. CASE ~opening.ok
  <2>1. epoch' = LoadedEpoch /\ UNCHANGED <<issued, jobs>>
    BY <1>2 DEF OpeningLoad
  <2>2. QueueOK' /\ HeadOK' /\ TaskOK' /\ epoch' \in 0 .. issued'
    BY <1>1, <2>1, Loads DEF user, durable, history
  <2>3. CapturedOK'
    BY <1>1, <2>1, Typed, Nothing DEF CapturedOK
  <2>4. TypeOK'
    BY <1>1, <2>1, <2>2, Typed, Nil, Zenon DEF TypeOK
  <2> QED BY <2>2, <2>3, <2>4 DEF JourneyInv
<1>3. CASE opening.ok
  <2> DEFINE c == [opening.cfg EXCEPT !.ep = issued + 1]
             job == NewJob("start", c)
             r == Append(jobs, job)
  <2>1. /\ opening.cfg \in Config /\ opening.cfg.seq = 0 /\ app = "background"
        /\ access # NoOne
    BY <1>1, <1>3, Typed DEF CapturedOK
  <2>2. issued \in Nat /\ epoch \in Nat /\ jobs \in Seq(Job)
        /\ LaneOK(jobs, epoch, issued)
    BY HeadFacts
  <2>3. c \in Config /\ c.seq = 0 /\ c.ep = issued + 1
    <3>1. issued + 1 \in Nat
      BY <2>2
    <3> QED BY <2>1, <3>1, ConfigWith
  <2>4. /\ epoch' = issued + 1 /\ issued' = issued + 1 /\ jobs' = r
    BY <1>3 DEF OpeningLoad, NextEpoch
  <2> HIDE DEF c
  <2>5. /\ job \in Job /\ job.kind = "start" /\ job.pc = "begin" /\ job.cfg = c
        /\ ~job.again
    BY <2>3, NewJobOK
  <2> HIDE DEF job
  <2>6. JobOK(job, issued + 1) /\ Settles(job, issued + 1)
    <3>1. issued + 1 \in 1 .. issued + 1
      BY <2>2
    <3> QED BY <2>3, <2>5, <3>1, Zenon DEF JobOK, Settles
  <2>7. /\ LaneOK(r, issued + 1, issued + 1) /\ r \in Seq(Job)
        /\ SettlerIn(r, issued + 1) /\ r # <<>>
        /\ StopIn(jobs) => StopIn(r)
    BY <2>2, <2>5, <2>6, NewEpochLane
  <2>8. HeadOK' /\ (At("start", "swap") => At("start", "swap")')
    <3>1. UNCHANGED <<config, task, stray, torn, mixed>>
      BY <1>1
    <3> QED BY <2>2, <2>4, <2>5, <3>1, AlikeHead, AlikeSelf DEF r
  <2> HIDE DEF r
  <2>9. QueueOK'
    BY <1>1, <2>1, <2>2, <2>4, <2>7 DEF QueueOK
  <2>10. TaskOK'
    <3>1. task # "off" => (config # None \/ stray) /\ ProfileOK /\ WantedOK
      BY DEF JourneyInv, TaskOK
    <3>2. ProfileOK => ProfileOK'
      BY <1>1, <2>8 DEF ProfileOK, Mode
    <3>3. WantedOK => WantedOK'
      BY <1>1, <2>4, <2>7 DEF WantedOK
    <3>4. EpochOK'
      BY <2>4, <2>7 DEF EpochOK
    <3> QED BY <1>1, <3>1, <3>2, <3>3, <3>4 DEF TaskOK
  <2>11. CapturedOK'
    <3>1. \A m : m \in 1 .. issued => m \in 1 .. issued'
      BY <2>2, <2>4
    <3> QED BY <1>1, <3>1, Typed, Nothing DEF CapturedOK
  <2>12. TypeOK'
    <3>1. epoch' \in 0 .. issued' /\ issued' \in Nat /\ jobs' \in Seq(Job)
      BY <2>2, <2>4, <2>7
    <3> QED BY <1>1, <3>1, Typed, Nil, Zenon DEF TypeOK
  <2> QED BY <2>8, <2>9, <2>10, <2>11, <2>12 DEF JourneyInv
<1> QED BY <1>2, <1>3

LEMMA StepToForeground ==
  ASSUME JourneyAssumption, JourneyInv, ToForeground
  PROVE  JourneyInv'
<1>1. /\ app' = "active" /\ Request /\ StopTracking(jobs)
      /\ UNCHANGED <<access, durable, history, faults>>
  BY DEF ToForeground
<1>2. /\ NextEpoch /\ jobs' = Append(jobs, NewJob("stop", None))
      /\ opening' = NoStart /\ sample' \in {sample, NoSample}
  BY <1>1, Generation DEF StopTracking
<1>3. /\ app' \in {"active", "background"} /\ access' \in Owners \cup {NoOne}
      /\ requests' \in 0 .. MaxRequests /\ faults' \in 0 .. MaxFaults
  BY <1>1, Requested, Typed DEF TypeOK
<1> QED BY <1>1, <1>2, <1>3, Stops, AlikeSelf, HeadFacts

LEMMA StepQuietly ==
  ASSUME JourneyAssumption, JourneyInv, ToBackground \/ Deliver \/ UNCHANGED vars
  PROVE  JourneyInv'
<1>1. /\ UNCHANGED <<clock, durable, jobs, opening, history, requests, faults, access>>
      /\ app' \in {app, "background"}
  BY DEF ToBackground, Deliver, vars, user
<1>2. UNCHANGED <<epoch, issued, config, task, deaf, stuck, stray, torn, mixed, cold>>
  BY <1>1 DEF clock, durable, history
<1>3. sample' = sample \/ (sample' = [NoSample EXCEPT !.pc = "load"])
  BY DEF ToBackground, Deliver, vars
<1>4. /\ [NoSample EXCEPT !.pc = "load"].pc = "load"
      /\ [NoSample EXCEPT !.pc = "load"] \in
           [pc : {"none", "load", "access", "update"}, cfg : Config \cup {None},
            ok : BOOLEAN]
  BY DEF NoSample
<1>5. QueueOK' /\ HeadOK' /\ TaskOK'
  BY <1>1, Quiet, AlikeSelf, HeadFacts
<1>6. CapturedOK'
  BY <1>1, <1>2, <1>3, <1>4, Typed DEF CapturedOK
<1>7. TypeOK'
  BY <1>1, <1>2, <1>3, <1>4, Typed, Zenon DEF TypeOK
<1> QED BY <1>5, <1>6, <1>7 DEF JourneyInv

LEMMA StepSetAccess ==
  ASSUME JourneyAssumption, JourneyInv, NEW w \in Owners \cup {NoOne}, SetAccess(w)
  PROVE  JourneyInv'
<1>1. /\ access' = w /\ UNCHANGED <<app, durable, history, faults>>
      /\ requests' \in 0 .. MaxRequests
  BY Requested DEF SetAccess
<1>2. jobs \in Seq(Job) /\ Revoked(jobs) \in Seq(Job) /\ Alike(jobs, Revoked(jobs))
  BY HeadFacts, RevokedAlike
<1>3. CASE w = NoOne
  <2>1. /\ NextEpoch /\ jobs' = Append(Revoked(jobs), NewJob("stop", None))
        /\ opening' = NoStart /\ sample' \in {sample, NoSample}
    BY <1>3, Generation DEF SetAccess, StopTracking
  <2>2. app' \in {"active", "background"} /\ faults' \in 0 .. MaxFaults
    BY <1>1, Typed DEF TypeOK
  <2> QED BY <1>1, <1>2, <2>1, <2>2, Stops
<1>4. CASE w # NoOne
  <2>1. /\ jobs' = Revoked(jobs) /\ opening' = [opening EXCEPT !.ok = FALSE]
        /\ sample' = [sample EXCEPT !.ok = FALSE] /\ UNCHANGED clock
    BY <1>4 DEF SetAccess
  <2>2. UNCHANGED <<app, epoch, issued, config, task, deaf, stuck, stray, torn, mixed,
                    cold, faults>>
    BY <1>1, <2>1 DEF clock, durable, history
  <2>3. QueueOK' /\ HeadOK' /\ TaskOK'
    BY <1>1, <1>2, <1>4, <2>1, Quiet
  <2>4. /\ opening' \in [pc : {"none", "access", "load"}, cfg : Config \cup {None},
                         ok : BOOLEAN]
        /\ opening'.pc = opening.pc /\ opening'.cfg = opening.cfg /\ ~opening'.ok
    BY <2>1, Typed DEF TypeOK
  <2>5. /\ sample' \in [pc : {"none", "load", "access", "update"},
                        cfg : Config \cup {None}, ok : BOOLEAN]
        /\ sample'.pc = sample.pc /\ sample'.cfg = sample.cfg
    BY <2>1, Typed DEF TypeOK
  <2>6. CapturedOK'
    BY <2>2, <2>4, <2>5, Typed DEF CapturedOK
  <2>7. TypeOK'
    BY <1>1, <1>2, <2>1, <2>2, <2>4, <2>5, Typed, Zenon DEF TypeOK
  <2> QED BY <2>3, <2>6, <2>7 DEF JourneyInv
<1> QED BY <1>3, <1>4

LEMMA StepSampleLoads ==
  ASSUME JourneyAssumption, JourneyInv, SampleLoads
  PROVE  JourneyInv'
<1>1. /\ epoch' = LoadedEpoch
      /\ UNCHANGED <<user, issued, durable, jobs, opening, history, requests, faults>>
  BY DEF SampleLoads
<1>2. UNCHANGED <<app, access, config, task, deaf, stuck, stray, torn, mixed, cold>>
  BY <1>1 DEF user, durable, history
<1>3. \/ sample' = NoSample
      \/ config # None /\ sample' = [pc |-> "access", cfg |-> config,
                                     ok |-> access = config.who]
  BY DEF SampleLoads
<1>4. QueueOK' /\ HeadOK' /\ TaskOK' /\ epoch' \in 0 .. issued'
  BY <1>1, Loads
<1>5. CapturedOK'
  <2>1. config # None => config \in Config /\ config.ep \in 1 .. issued
    BY NotNone, Typed DEF CapturedOK, TypeOK
  <2> QED BY <1>1, <1>2, <1>3, <2>1, Nothing, Typed DEF CapturedOK
<1>6. TypeOK'
  <2>1. config \in Config \cup {None}
    BY Typed DEF TypeOK
  <2>2. sample' \in [pc : {"none", "load", "access", "update"},
                     cfg : Config \cup {None}, ok : BOOLEAN]
    <3> DEFINE allowed == access = config.who
    <3>1. allowed \in BOOLEAN
      OBVIOUS
    <3>2. \/ sample' = NoSample
          \/ sample' = [pc |-> "access", cfg |-> config, ok |-> allowed]
      BY <1>3
    <3> HIDE DEF allowed
    <3> QED BY <3>1, <3>2, <2>1, Nil
  <2> QED BY <1>1, <1>2, <1>4, <2>2, Typed, Zenon DEF TypeOK
<1> QED BY <1>4, <1>5, <1>6 DEF JourneyInv

LEMMA StepSampleChecked ==
  ASSUME JourneyAssumption, JourneyInv, SampleChecked
  PROVE  JourneyInv'
<1>1. /\ sample.pc = "access" /\ UNCHANGED <<user, durable, history, requests>>
      /\ UNCHANGED <<app, access, config, task, deaf, stuck, stray, torn, mixed, cold>>
      /\ sample.cfg \in Config /\ sample.cfg.ep \in 1 .. issued
  BY Typed DEF SampleChecked, user, durable, history, CapturedOK
<1>2. CASE sample' = NoSample /\ UNCHANGED <<clock, jobs, opening>>
           /\ faults' \in 0 .. MaxFaults
  <2>1. UNCHANGED <<epoch, issued>>
    BY <1>2 DEF clock
  <2>2. QueueOK' /\ HeadOK' /\ TaskOK'
    BY <1>1, <1>2, Quiet, AlikeSelf, HeadFacts
  <2>3. CapturedOK'
    BY <1>1, <1>2, <2>1, Typed, Nothing DEF CapturedOK
  <2>4. TypeOK'
    BY <1>1, <1>2, <2>1, Typed, Nil, Zenon DEF TypeOK
  <2> QED BY <2>2, <2>3, <2>4 DEF JourneyInv
<1>3. CASE Unwanted /\ UNCHANGED faults
  <2>1. /\ app' \in {"active", "background"} /\ access' \in Owners \cup {NoOne}
        /\ requests' \in 0 .. MaxRequests /\ faults' \in 0 .. MaxFaults
    BY <1>1, <1>3, Typed DEF TypeOK
  <2> QED BY <1>1, <1>3, <2>1, Stops, AlikeSelf, HeadFacts DEF Unwanted
<1>4. CASE /\ sample.cfg.ep = epoch /\ sample' = [sample EXCEPT !.pc = "update"]
           /\ jobs' = Append(jobs, NewJob("update", sample.cfg))
           /\ UNCHANGED <<clock, opening, faults>>
  <2> DEFINE job == NewJob("update", sample.cfg)
             r == Append(jobs, job)
  <2>1. /\ job \in Job /\ job.kind = "update" /\ job.pc = "begin"
        /\ job.cfg = sample.cfg /\ ~job.again
    BY <1>1, NewJobOK
  <2> HIDE DEF job
  <2>2. JobOK(job, issued)
    BY <1>1, <2>1, Zenon DEF JobOK
  <2>3. issued \in Nat /\ epoch \in Nat /\ jobs \in Seq(Job)
        /\ LaneOK(jobs, epoch, issued)
    BY HeadFacts
  <2>4. /\ LaneOK(r, epoch, issued) /\ r \in Seq(Job) /\ r # <<>>
        /\ SettlerIn(jobs, epoch) => SettlerIn(r, epoch)
        /\ StopIn(jobs) => StopIn(r)
        /\ CurrentIn(r, epoch) => CurrentIn(jobs, epoch)
    <3>1. /\ LaneOK(r, epoch, issued) /\ r \in Seq(Job) /\ r # <<>>
      BY <2>1, <2>2, <2>3, UpdateLane
    <3>2. /\ SettlerIn(jobs, epoch) => SettlerIn(r, epoch)
          /\ StopIn(jobs) => StopIn(r)
          /\ CurrentIn(r, epoch) => CurrentIn(jobs, epoch)
      BY <2>1, <2>2, <2>3, UpdateLane
    <3> QED BY <3>1, <3>2
  <2>5. jobs' = r /\ UNCHANGED <<epoch, issued>>
    BY <1>4 DEF job, clock
  <2>6. HeadOK' /\ (At("start", "swap") => At("start", "swap")')
    BY <1>1, <2>1, <2>3, <2>5, AlikeHead, AlikeSelf DEF r
  <2>7. epoch # 0
    BY <1>1, <1>4
  <2>8. QueueOK'
    BY <1>1, <2>4, <2>5, <2>7 DEF QueueOK, JourneyInv
  <2> HIDE DEF r
  <2>9. TaskOK'
    <3>1. task # "off" =>
            (config # None \/ stray) /\ ProfileOK /\ EpochOK /\ WantedOK
      BY DEF JourneyInv, TaskOK
    <3>2. ProfileOK => ProfileOK'
      BY <1>1, <2>6 DEF ProfileOK, Mode
    <3>3. WantedOK => WantedOK'
      BY <1>1, <2>4, <2>5 DEF WantedOK
    <3>4. EpochOK => EpochOK'
      BY <1>1, <2>4, <2>5, Zenon DEF EpochOK
    <3> QED BY <1>1, <3>1, <3>2, <3>3, <3>4 DEF TaskOK
  <2>10. sample \in [pc : {"none", "load", "access", "update"},
                     cfg : Config \cup {None}, ok : BOOLEAN]
    BY Typed DEF TypeOK
  <2>11. /\ sample' \in [pc : {"none", "load", "access", "update"},
                         cfg : Config \cup {None}, ok : BOOLEAN]
         /\ sample'.pc = "update"
    BY <1>4, <2>10
  <2>12. CapturedOK'
    BY <1>1, <1>4, <2>5, <2>11, Typed DEF CapturedOK
  <2>13. TypeOK'
    BY <1>1, <1>4, <2>4, <2>5, <2>11, Typed, Zenon DEF TypeOK
  <2> QED BY <2>6, <2>8, <2>9, <2>12, <2>13 DEF JourneyInv
<1> QED
  <2>1. faults' = faults => faults' \in 0 .. MaxFaults
    BY Typed DEF TypeOK
  <2> QED BY <1>2, <1>3, <1>4, <2>1, Faulted DEF SampleChecked

-----------------------------------------------------------------------------
(* The steps of the lane. *)

LEMMA Popped ==
  ASSUME JourneyInv, jobs # <<>>, Finished, UNCHANGED <<user, clock>>
  PROVE  /\ QueueOK' /\ HeadOK' /\ ~At("start", "swap")' /\ jobs' \in Seq(Job)
         /\ SettlerIn(jobs, epoch)
              => Settles(Job1, epoch) \/ SettlerIn(jobs, epoch)'
         /\ StopIn(jobs) => Job1.kind = "stop" \/ StopIn(jobs)'
         /\ Job1.kind = "start" => Job1.cfg.ep = epoch \/ SettlerIn(jobs, epoch)'
<1>1. /\ jobs' = Tail(jobs) /\ UNCHANGED <<epoch, issued, app, access>>
  BY DEF Finished, user, clock
<1>2. jobs \in Seq(Job) /\ epoch \in Nat /\ issued \in Nat
      /\ LaneOK(jobs, epoch, issued)
  BY HeadFacts
<1> DEFINE t == Tail(jobs)
<1>3. /\ LaneOK(t, epoch, issued) /\ t \in Seq(Job)
      /\ t # <<>> => Head(t).pc = "begin"
      /\ SettlerIn(jobs, epoch) => Settles(Head(jobs), epoch) \/ SettlerIn(t, epoch)
      /\ StopIn(jobs) => Head(jobs).kind = "stop" \/ StopIn(t)
      /\ CurrentIn(t, epoch) => CurrentIn(jobs, epoch)
      /\ Head(jobs).kind = "start"
           => Head(jobs).cfg.ep = epoch \/ SettlerIn(t, epoch)
  BY <1>2, PopLane
<1>4. jobs' = t
  BY <1>1
<1> HIDE DEF t
<1>5. epoch # 0
  BY HeadFacts
<1>6. QueueOK'
  BY <1>1, <1>3, <1>4, <1>5 DEF JourneyInv, QueueOK
<1>7. HeadOK' /\ ~At("start", "swap")'
  BY <1>3, <1>4, BeginsOK
<1> QED BY <1>1, <1>3, <1>4, <1>6, <1>7 DEF Job1

LEMMA Moved ==
  ASSUME JourneyInv, jobs # <<>>, NEW h \in Job, JobOK(h, issued),
         h.kind = Job1.kind, h.cfg.ep = Job1.cfg.ep,
         jobs' = <<h>> \o Tail(jobs), UNCHANGED <<user, clock>>
  PROVE  /\ QueueOK' /\ jobs' \in Seq(Job) /\ jobs' # <<>> /\ Job1' = h
         /\ SettlerIn(jobs, epoch)' <=> SettlerIn(jobs, epoch)
         /\ StopIn(jobs)' <=> StopIn(jobs)
<1>1. UNCHANGED <<epoch, issued, app, access>>
  BY DEF user, clock
<1>2. jobs \in Seq(Job) /\ epoch \in Nat /\ issued \in Nat
      /\ LaneOK(jobs, epoch, issued) /\ Job1 = Head(jobs)
  BY HeadFacts DEF Job1
<1> DEFINE r == <<h>> \o Tail(jobs)
<1>3. /\ LaneOK(r, epoch, issued) /\ r \in Seq(Job) /\ r # <<>> /\ Head(r) = h
      /\ SettlerIn(jobs, epoch) <=> SettlerIn(r, epoch)
      /\ StopIn(jobs) <=> StopIn(r)
      /\ CurrentIn(jobs, epoch) <=> CurrentIn(r, epoch)
  BY <1>2, MoveLane
<1> HIDE DEF r
<1>4. jobs' = r
  BY DEF r
<1>5. QueueOK'
  <2>1. epoch # 0
    BY HeadFacts
  <2> QED BY <1>1, <1>3, <1>4, <2>1 DEF JourneyInv, QueueOK
<1> QED BY <1>1, <1>3, <1>4, <1>5 DEF Job1

(* The head of the lane goes on, and nothing else changes. *)
LEMMA GoesOn ==
  ASSUME JourneyInv, jobs # <<>>, NEW p \in {"save", "swap", "launch", "confirm",
                                             "failed", "forget"},
         Goes(p), UNCHANGED <<user, clock>>, p \in {"save", "swap"} => ~Job1.again
  PROVE  /\ QueueOK' /\ jobs' \in Seq(Job) /\ jobs' # <<>>
         /\ Job1'.kind = Job1.kind /\ Job1'.pc = p /\ Job1'.cfg = Job1.cfg
         /\ Job1'.prev = Job1.prev /\ Job1'.had = Job1.had
         /\ Job1'.again = Job1.again
         /\ SettlerIn(jobs, epoch)' <=> SettlerIn(jobs, epoch)
         /\ StopIn(jobs)' <=> StopIn(jobs)
<1> DEFINE h == [Job1 EXCEPT !.pc = p]
<1>1. Job1 \in Job /\ JobOK(Job1, issued)
  BY HeadFacts
<1>2. /\ h \in Job /\ h.kind = Job1.kind /\ h.pc = p /\ h.cfg = Job1.cfg
      /\ h.prev = Job1.prev /\ h.had = Job1.had /\ h.again = Job1.again
  <2>1. p \in {"begin", "save", "swap", "launch", "confirm", "failed", "forget"}
    OBVIOUS
  <2> QED BY <1>1, <2>1, JobWith
<1>3. jobs' = <<h>> \o Tail(jobs)
  BY DEF Goes
<1> HIDE DEF h
<1>4. JobOK(h, issued)
  BY <1>1, <1>2, Zenon DEF JobOK
<1>5. /\ QueueOK' /\ jobs' \in Seq(Job) /\ jobs' # <<>> /\ Job1' = h
      /\ SettlerIn(jobs, epoch)' <=> SettlerIn(jobs, epoch)
      /\ StopIn(jobs)' <=> StopIn(jobs)
  BY <1>2, <1>3, <1>4, Moved
<1> QED BY <1>2, <1>5, Zenon

(* A step of the lane that leaves what was captured alone. *)
LEMMA LaneTyped ==
  ASSUME JourneyInv, jobs' \in Seq(Job),
         config' \in Config \cup {None}, config' # None
             => config'.ep \in 1 .. issued,
         task' \in {"off", "passive", "journey"},
         deaf' \in BOOLEAN, stuck' \in BOOLEAN,
         stray' \in BOOLEAN, torn' \in BOOLEAN,
         mixed' \in BOOLEAN, cold' \in BOOLEAN,
         faults' \in 0 .. MaxFaults, UNCHANGED <<user, clock, opening, requests>>,
         sample' \in {sample, NoSample}
  PROVE  TypeOK' /\ CapturedOK'
<1>1. UNCHANGED <<app, access, epoch, issued, opening, requests>>
  BY DEF user, clock
<1>2. TypeOK'
  BY <1>1, Typed, Nil, Zenon DEF TypeOK
<1>3. CapturedOK'
  BY <1>1, Typed, Nothing DEF CapturedOK
<1> QED BY <1>2, <1>3

(* The types that a step of the lane starts from. *)
LEMMA LaneFacts ==
  ASSUME JourneyAssumption, JourneyInv
  PROVE  /\ deaf \in BOOLEAN /\ stuck \in BOOLEAN /\ stray \in BOOLEAN /\ torn \in BOOLEAN
         /\ mixed \in BOOLEAN /\ cold \in BOOLEAN
         /\ config \in Config \cup {None}
         /\ config # None => config.ep \in 1 .. issued
         /\ task \in {"off", "passive", "journey"} /\ faults \in 0 .. MaxFaults
         /\ (task # "off") \in BOOLEAN
         /\ Fault => faults' \in 0 .. MaxFaults
<1>1. TypeOK /\ CapturedOK
  BY Typed
<1>2. /\ deaf \in BOOLEAN /\ stuck \in BOOLEAN /\ stray \in BOOLEAN /\ torn \in BOOLEAN
      /\ mixed \in BOOLEAN /\ cold \in BOOLEAN
  BY <1>1, Zenon DEF TypeOK
<1> QED BY <1>1, <1>2, Faulted DEF TypeOK, CapturedOK

(* A superseded start leaves the lane: what comes after settles the task. *)
LEMMA FinishedStale ==
  ASSUME JourneyInv, jobs # <<>>, Job1.kind = "start", Stale, Finished,
         UNCHANGED <<user, clock, durable, history>>,
         task # "off" => task = Mode(config) \/ stray \/ torn \/ mixed
  PROVE  QueueOK' /\ HeadOK' /\ TaskOK'
<1>1. /\ QueueOK' /\ HeadOK' /\ SettlerIn(jobs, epoch)'
      /\ StopIn(jobs) => StopIn(jobs)'
  BY Popped DEF Stale
<1>2. UNCHANGED <<app, access, epoch, config, task, deaf, stuck, stray, torn, mixed, cold>>
  BY DEF user, clock, durable, history
<1>3. task # "off" => (config # None \/ stray) /\ WantedOK
  BY DEF JourneyInv, TaskOK
<1>4. WantedOK => WantedOK'
  BY <1>1, <1>2 DEF WantedOK
<1>5. EpochOK'
  BY <1>1 DEF EpochOK
<1>6. task # "off" => ProfileOK'
  BY <1>2 DEF ProfileOK, Mode
<1> QED BY <1>1, <1>2, <1>3, <1>4, <1>5, <1>6 DEF TaskOK

LEMMA StepStartBegins ==
  ASSUME JourneyAssumption, JourneyInv, StartBegins
  PROVE  JourneyInv'
<1>1. /\ jobs # <<>> /\ Job1.kind = "start" /\ Job1.pc = "begin"
      /\ UNCHANGED <<user, clock, durable, opening, sample, stuck, stray, torn, mixed,
                     cold, requests, faults>>
      /\ UNCHANGED <<app, access, epoch, config, task>>
  BY DEF StartBegins, At, Job1, user, clock, durable
<1>2. /\ ~At("start", "swap") /\ ~Job1.again
      /\ task # "off" => /\ config # None \/ stray
                         /\ EpochOK /\ WantedOK
                         /\ task = Mode(config) \/ stray \/ torn \/ mixed
  BY <1>1, HeadFacts DEF At, Job1, JourneyInv, TaskOK, ProfileOK, JobOK
<1>3. CASE Stale /\ Finished /\ UNCHANGED deaf
  <2>1. QueueOK' /\ HeadOK' /\ TaskOK'
    BY <1>1, <1>2, <1>3, FinishedStale DEF history
  <2>2. jobs' \in Seq(Job)
    BY <1>1, <1>3, Popped
  <2>3. TypeOK' /\ CapturedOK'
    BY <1>1, <1>3, <2>2, LaneFacts, LaneTyped
  <2> QED BY <2>1, <2>3 DEF JourneyInv
<1>4. CASE Goes("save") /\ UNCHANGED deaf
  <2>1. /\ QueueOK' /\ jobs' \in Seq(Job) /\ jobs' # <<>>
        /\ Job1'.kind = "start" /\ Job1'.pc = "save"
        /\ SettlerIn(jobs, epoch)' <=> SettlerIn(jobs, epoch)
        /\ StopIn(jobs)' <=> StopIn(jobs)
    BY <1>1, <1>2, <1>4, GoesOn
  <2>2. HeadOK'
    BY <2>1 DEF HeadOK, At, Job1
  <2>3. TaskOK'
    <3>1. EpochOK => EpochOK'
      BY <1>1, <1>4, <2>1, Zenon DEF EpochOK
    <3>2. WantedOK => WantedOK'
      BY <1>1, <2>1 DEF WantedOK
    <3>3. task # "off" => ProfileOK'
      BY <1>1, <1>2 DEF ProfileOK, Mode
    <3> QED BY <1>1, <1>2, <3>1, <3>2, <3>3 DEF TaskOK
  <2>4. TypeOK' /\ CapturedOK'
    BY <1>1, <1>4, <2>1, LaneFacts, LaneTyped
  <2> QED BY <2>1, <2>2, <2>3, <2>4 DEF JourneyInv
<1>5. CASE Finished /\ deaf' = (task # "off")
  <2>1. QueueOK' /\ HeadOK' /\ jobs' \in Seq(Job) /\ (StopIn(jobs) => StopIn(jobs)')
    BY <1>1, <1>5, Popped
  <2>2. TaskOK'
    <3>1. WantedOK => WantedOK'
      BY <1>1, <2>1 DEF WantedOK
    <3>2. task # "off" => ProfileOK' /\ EpochOK'
      BY <1>1, <1>2, <1>5 DEF ProfileOK, Mode, EpochOK
    <3> QED BY <1>1, <1>2, <3>1, <3>2 DEF TaskOK
  <2>3. TypeOK' /\ CapturedOK'
    BY <1>1, <1>5, <2>1, LaneFacts, LaneTyped
  <2> QED BY <2>1, <2>2, <2>3 DEF JourneyInv
<1> QED BY <1>3, <1>4, <1>5 DEF StartBegins

LEMMA StepStartSaves ==
  ASSUME JourneyAssumption, JourneyInv, StartSaves
  PROVE  JourneyInv'
<1>1. /\ jobs # <<>> /\ Job1.kind = "start" /\ Job1.pc = "save"
      /\ UNCHANGED <<user, clock, task, opening, sample, stuck, stray, torn, mixed, cold,
                     requests>>
      /\ UNCHANGED <<app, access, epoch, issued>>
  BY DEF StartSaves, At, Job1, user, clock
<1>2. /\ ~At("start", "swap") /\ ~Job1.again
      /\ task # "off" => /\ config # None \/ stray
                         /\ EpochOK /\ WantedOK
                         /\ task = Mode(config) \/ stray \/ torn \/ mixed
  BY <1>1, HeadFacts DEF At, Job1, JourneyInv, TaskOK, ProfileOK, JobOK
<1>3. CASE Stale /\ Finished /\ UNCHANGED <<config, deaf, faults>>
  <2>1. QueueOK' /\ HeadOK' /\ TaskOK'
    BY <1>1, <1>2, <1>3, FinishedStale DEF history, durable
  <2>2. jobs' \in Seq(Job)
    BY <1>1, <1>3, Popped
  <2>3. TypeOK' /\ CapturedOK'
    BY <1>1, <1>3, <2>2, LaneFacts, LaneTyped
  <2> QED BY <2>1, <2>3 DEF JourneyInv
<1>4. CASE /\ ~Stale /\ config' = Carried(Job1.cfg, config)
           /\ jobs' = <<[Job1 EXCEPT !.pc = "swap", !.prev = config,
                                     !.had = (task # "off")]>> \o Tail(jobs)
           /\ UNCHANGED <<deaf, faults>>
  <2> DEFINE runs == task # "off"
             h == [Job1 EXCEPT !.pc = "swap", !.prev = config, !.had = runs]
  <2>1. /\ Job1 \in Job /\ JobOK(Job1, issued) /\ Job1.cfg \in Config
        /\ Job1.cfg.ep = epoch /\ Job1.cfg.ep \in 1 .. issued
    BY <1>1, <1>4, HeadFacts DEF JobOK, Stale
  <2>2. runs \in BOOLEAN /\ config \in Config \cup {None}
    BY LaneFacts
  <2>3. jobs' = <<h>> \o Tail(jobs)
    BY <1>4
  <2>4. runs <=> task # "off"
    OBVIOUS
  <2> HIDE DEF runs
  <2>5. /\ h \in Job /\ h.kind = Job1.kind /\ h.pc = "swap" /\ h.cfg = Job1.cfg
        /\ h.prev = config /\ h.had = runs /\ h.again = Job1.again
    BY <2>1, <2>2 DEF Job
  <2> HIDE DEF h
  <2>6. JobOK(h, issued)
    BY <1>1, <1>2, <2>1, <2>5, Zenon DEF JobOK
  <2>7. /\ QueueOK' /\ jobs' \in Seq(Job) /\ jobs' # <<>> /\ Job1' = h
        /\ SettlerIn(jobs, epoch)' <=> SettlerIn(jobs, epoch)
        /\ StopIn(jobs)' <=> StopIn(jobs)
    BY <1>1, <2>3, <2>5, <2>6, Moved
  <2>8. /\ config' \in Config /\ config' # None /\ config'.ep = epoch
        /\ config' = Carried(h.cfg, h.prev)
    BY <1>4, <2>1, <2>2, <2>5, CarriedOK, NotNone
  <2>9. At("start", "swap")' /\ \A k, p : At(k, p)' => k = "start" /\ p = "swap"
    BY <1>1, <2>5, <2>7 DEF At, Job1
  <2>10. HeadOK'
    <3>1. Carried(Job1.cfg, Job1.prev)' = Carried(h.cfg, h.prev)
      BY <2>7 DEF Carried
    <3>2. Mode(Job1.prev)' = Mode(config)
      BY <2>7, <2>5 DEF Mode
    <3> QED BY <1>1, <1>2, <2>4, <2>5, <2>7, <2>8, <2>9, <3>1, <3>2, Zenon DEF
              HeadOK
  <2>11. TaskOK'
    <3>1. WantedOK => WantedOK'
      BY <1>1, <2>7 DEF WantedOK
    <3>2. ProfileOK' /\ EpochOK'
      BY <1>1, <2>8, <2>9 DEF ProfileOK, EpochOK
    <3> QED BY <1>1, <1>2, <2>8, <3>1, <3>2 DEF TaskOK
  <2>12. TypeOK' /\ CapturedOK'
    BY <1>1, <1>4, <2>1, <2>7, <2>8, LaneFacts, LaneTyped
  <2> QED BY <2>7, <2>10, <2>11, <2>12 DEF JourneyInv
<1>5. CASE Fault /\ Finished /\ deaf' = (task # "off") /\ UNCHANGED config
  <2>1. QueueOK' /\ HeadOK' /\ jobs' \in Seq(Job) /\ (StopIn(jobs) => StopIn(jobs)')
    BY <1>1, <1>5, Popped
  <2>2. TaskOK'
    <3>1. WantedOK => WantedOK'
      BY <1>1, <2>1 DEF WantedOK
    <3>2. task # "off" => ProfileOK' /\ EpochOK'
      BY <1>1, <1>2, <1>5 DEF ProfileOK, Mode, EpochOK
    <3> QED BY <1>1, <1>2, <1>5, <3>1, <3>2 DEF TaskOK
  <2>3. TypeOK' /\ CapturedOK'
    BY <1>1, <1>5, <2>1, LaneFacts, LaneTyped
  <2> QED BY <2>1, <2>2, <2>3 DEF JourneyInv
<1> QED BY <1>3, <1>4, <1>5 DEF StartSaves

LEMMA StepStartSwaps ==
  ASSUME JourneyAssumption, JourneyInv, StartSwaps
  PROVE  JourneyInv'
<1>1. /\ jobs # <<>> /\ Job1.kind = "start" /\ Job1.pc = "swap" /\ ~Job1.again
      /\ UNCHANGED <<user, clock, config, opening, sample, requests>>
      /\ UNCHANGED <<app, access, epoch, issued>>
      /\ Job1 \in Job /\ Job1.cfg \in Config
  BY HeadFacts DEF StartSwaps, At, Job1, JobOK, user, clock
<1>2. /\ config = Carried(Job1.cfg, Job1.prev) /\ (Job1.had <=> task # "off")
      /\ task # "off" =>
           \/ stray
           \/ Job1.prev # None /\ (task = Mode(Job1.prev) \/ torn \/ mixed)
  <2>1. At("start", "swap") /\ HeadOK
    BY <1>1 DEF At, Job1, JourneyInv
  <2> QED BY <2>1 DEF HeadOK
<1>3. config \in Config /\ config.ep = Job1.cfg.ep /\ Mode(config) = Mode(Job1.cfg)
  <2>1. Job1.prev \in Config \cup {None}
    BY <1>1 DEF Job
  <2> QED BY <1>1, <1>2, <2>1, CarriedOK
<1>4. ~Changed(Job1) /\ task # "off" =>
        task = Mode(config) \/ stray \/ torn \/ mixed
  BY <1>2, <1>3, Zenon DEF Changed
<1>5. task # "off" => WantedOK /\ EpochOK
  BY DEF JourneyInv, TaskOK
<1>6. CASE /\ task' = "off" /\ Goes("launch") /\ stray' \in BOOLEAN
           /\ UNCHANGED <<deaf, stuck, torn, mixed, cold, faults>>
  <2>1. /\ QueueOK' /\ jobs' \in Seq(Job) /\ jobs' # <<>>
        /\ Job1'.kind = "start" /\ Job1'.pc = "launch" /\ Job1'.cfg = Job1.cfg
        /\ Job1'.prev = Job1.prev /\ Job1'.again = Job1.again
    BY <1>1, <1>6, GoesOn
  <2>2. \A k, p : At(k, p)' => k = "start" /\ p = "launch"
    BY <2>1 DEF At, Job1
  <2>3. Stored(Job1)' = Carried(Job1.cfg, Job1.prev)
    BY <1>1, <2>1 DEF Stored, Carried
  <2>4. HeadOK'
    BY <1>1, <1>2, <1>6, <2>2, <2>3, Zenon DEF HeadOK
  <2>5. TaskOK'
    BY <1>6 DEF TaskOK
  <2>6. TypeOK' /\ CapturedOK'
    BY <1>1, <1>6, <2>1, LaneFacts, LaneTyped
  <2> QED BY <2>1, <2>4, <2>5, <2>6 DEF JourneyInv
<1>7. CASE /\ Fault /\ torn' = TRUE /\ Finished
           /\ UNCHANGED <<task, deaf, stuck, stray, mixed, cold>>
  <2>1. QueueOK' /\ HeadOK' /\ jobs' \in Seq(Job) /\ (StopIn(jobs) => StopIn(jobs)')
    BY <1>1, <1>7, Popped
  <2>2. TaskOK'
    <3>1. WantedOK => WantedOK'
      BY <1>1, <1>7, <2>1 DEF WantedOK
    <3>2. ProfileOK' /\ EpochOK'
      BY <1>7 DEF ProfileOK, EpochOK
    <3>3. config' # None
      BY <1>1, <1>3, NotNone
    <3> QED BY <1>5, <1>7, <3>1, <3>2, <3>3 DEF TaskOK
  <2>3. TypeOK' /\ CapturedOK'
    BY <1>1, <1>7, <2>1, LaneFacts, LaneTyped
  <2> QED BY <2>1, <2>2, <2>3 DEF JourneyInv
<1>8. CASE ~Changed(Job1) /\ Stale /\ Finished /\ UNCHANGED <<task, faults, history>>
  <2>1. QueueOK' /\ HeadOK' /\ TaskOK'
    BY <1>1, <1>4, <1>8, FinishedStale DEF durable
  <2>2. jobs' \in Seq(Job)
    BY <1>1, <1>8, Popped
  <2>3. TypeOK' /\ CapturedOK'
    BY <1>1, <1>8, <2>2, LaneFacts, LaneTyped DEF history
  <2> QED BY <2>1, <2>3 DEF JourneyInv
<1>9. CASE /\ ~Changed(Job1) /\ ~Stale /\ Job1.had /\ Finished /\ Adopted
           /\ UNCHANGED <<task, faults>>
  <2>1. QueueOK' /\ HeadOK' /\ jobs' \in Seq(Job)
    BY <1>1, <1>9, Popped
  <2>2. /\ deaf' = FALSE /\ stuck' = FALSE /\ cold' = FALSE
        /\ UNCHANGED <<stray, torn, mixed>>
    BY <1>9 DEF Adopted
  <2>3. app = "background" /\ access # NoOne
    <3>1. Current(Job1, epoch)
      BY <1>1, <1>9 DEF Current, Stale
    <3>2. CurrentIn(jobs, epoch)
      BY <1>1, <3>1, HeadFacts DEF CurrentIn
    <3> QED BY <3>2 DEF JourneyInv, QueueOK
  <2>4. TaskOK'
    <3>1. WantedOK'
      BY <1>1, <2>3 DEF WantedOK
    <3>2. EpochOK'
      BY <1>1, <1>3, <1>9 DEF EpochOK, Stale
    <3>3. ProfileOK'
      BY <1>1, <1>2, <1>4, <1>9, <2>2 DEF ProfileOK, Mode
    <3>4. config' # None
      BY <1>1, <1>3, NotNone
    <3> QED BY <3>1, <3>2, <3>3, <3>4 DEF TaskOK
  <2>5. TypeOK' /\ CapturedOK'
    BY <1>1, <1>9, <2>1, <2>2, LaneFacts, LaneTyped
  <2> QED BY <2>1, <2>4, <2>5 DEF JourneyInv
<1>10. CASE ~Changed(Job1) /\ ~Job1.had /\ Goes("launch")
            /\ UNCHANGED <<task, faults, history>>
  <2>1. /\ task' = "off" /\ stray' \in BOOLEAN
        /\ UNCHANGED <<deaf, stuck, torn, mixed, cold, faults>>
    BY <1>2, <1>10, LaneFacts DEF history
  <2> QED BY <1>6, <1>10, <2>1
<1>11. CASE /\ Changed(Job1) /\ TaskGone /\ Goes("launch")
            /\ UNCHANGED <<deaf, stuck, torn, mixed, cold, faults>>
  BY <1>6, <1>11 DEF TaskGone
<1> QED BY <1>7, <1>8, <1>9, <1>10, <1>11, Zenon DEF StartSwaps

LEMMA AfterSwap ==
  ASSUME JourneyAssumption, JourneyInv, NEW p \in {"launch", "confirm", "failed"},
         At("start", p)
  PROVE  /\ jobs # <<>> /\ Job1 \in Job /\ Job1.kind = "start" /\ Job1.pc = p
         /\ JobOK(Job1, issued) /\ Job1.cfg \in Config
              /\ Job1.cfg.ep \in 1 .. issued
         /\ task = "off" \/ stray
         /\ config = Stored(Job1)
         /\ config \in Config /\ config.ep = Job1.cfg.ep
              /\ Mode(config) = Mode(Job1.cfg)
<1>1. /\ jobs # <<>> /\ Job1 \in Job /\ Job1.kind = "start" /\ Job1.pc = p
      /\ JobOK(Job1, issued)
  BY HeadFacts DEF At, Job1
<1>2. (task = "off" \/ stray) /\ config = Stored(Job1)
  BY DEF JourneyInv, HeadOK
<1>3. Job1.cfg \in Config /\ Job1.cfg.ep \in 1 .. issued
  BY <1>1 DEF JobOK
<1>4. Job1.prev \in Config \cup {None}
  BY <1>1 DEF Job
<1>5. config \in Config /\ config.ep = Job1.cfg.ep /\ Mode(config) = Mode(Job1.cfg)
  <2>1. CASE Job1.again
    BY <1>2, <1>3, <2>1 DEF Stored
  <2>2. CASE ~Job1.again
    BY <1>2, <1>3, <1>4, <2>2, CarriedOK DEF Stored
  <2> QED BY <2>1, <2>2
<1> QED BY <1>1, <1>2, <1>3, <1>5

(* Once it went past "swap", a start goes on with the task off, or with    *)
(* the one that a failed start could not stop. *)
LEMMA GoesPast ==
  ASSUME JourneyAssumption, JourneyInv, NEW p \in {"launch", "confirm", "failed"},
         At("start", p), NEW h \in Job, h.kind = "start",
         h.pc \in {"launch", "confirm", "failed"}, h.cfg = Job1.cfg,
         h.prev = Job1.prev, h.again = Job1.again,
         jobs' = <<h>> \o Tail(jobs),
         \/ task' = "off" /\ stuck' \in BOOLEAN /\ stray' \in BOOLEAN
         \/ /\ stuck' = TRUE /\ stray' = TRUE
            /\ task' \in {"off", "passive", "journey"}
         \/ UNCHANGED <<task, stuck, stray>>,
         faults' \in 0 .. MaxFaults,
         UNCHANGED <<user, clock, config, opening, sample, deaf, torn, mixed,
                     cold, requests>>
  PROVE  JourneyInv'
<1>1. /\ jobs # <<>> /\ Job1 \in Job /\ Job1.kind = "start"
      /\ JobOK(Job1, issued) /\ config = Stored(Job1)
      /\ task = "off" \/ stray
  BY AfterSwap
<1>2. JobOK(h, issued)
  BY <1>1, Zenon DEF JobOK
<1>3. /\ QueueOK' /\ jobs' \in Seq(Job) /\ jobs' # <<>> /\ Job1' = h
      /\ StopIn(jobs)' <=> StopIn(jobs)
  BY <1>1, <1>2, Moved
<1>4. Stored(Job1)' = Stored(Job1)
  BY <1>3 DEF Stored, Carried
<1>5. \A k, q : At(k, q)' =>
        k = "start" /\ q \in {"launch", "confirm", "failed"}
  BY <1>3 DEF At, Job1
<1>6. task' = "off" \/ stray'
  BY <1>1
<1>7. HeadOK'
  <2>1. config' = Stored(Job1)'
    BY <1>1, <1>4
  <2>2. ~At("stop", "forget")' /\ ~At("start", "swap")'
    BY <1>5
  <2> QED BY <1>6, <2>1, <2>2 DEF HeadOK
<1>8. TaskOK'
  <2>1. task' # "off" => stuck' \/ (UNCHANGED stuck /\ WantedOK)
    BY DEF JourneyInv, TaskOK
  <2>2. WantedOK /\ UNCHANGED stuck => WantedOK'
    BY <1>3 DEF WantedOK, user
  <2>3. stuck' => WantedOK'
    BY DEF WantedOK
  <2>4. stray' => ProfileOK' /\ EpochOK'
    BY DEF ProfileOK, EpochOK
  <2> QED BY <1>6, <2>1, <2>2, <2>3, <2>4 DEF TaskOK
<1>9. TypeOK' /\ CapturedOK'
  <2>1. /\ stuck' \in BOOLEAN /\ stray' \in BOOLEAN
        /\ task' \in {"off", "passive", "journey"}
    BY LaneFacts
  <2> QED BY <1>3, <2>1, LaneFacts, LaneTyped
<1> QED BY <1>3, <1>7, <1>8, <1>9 DEF JourneyInv

LEMMA StepStartLaunches ==
  ASSUME JourneyAssumption, JourneyInv, StartLaunches
  PROVE  JourneyInv'
<1>1. /\ At("start", "launch")
      /\ UNCHANGED <<user, clock, durable, opening, sample, history, requests, faults>>
  BY DEF StartLaunches
<1>2. /\ jobs # <<>> /\ Job1 \in Job /\ Job1.kind = "start"
      /\ task = "off" \/ stray
  BY <1>1, AfterSwap
<1>3. CASE Stale
  <2>1. Finished
    BY <1>3 DEF StartLaunches
  <2>2. QueueOK' /\ HeadOK' /\ TaskOK'
    BY <1>1, <1>2, <1>3, <2>1, FinishedStale
  <2>3. jobs' \in Seq(Job)
    BY <1>1, <1>2, <2>1, Popped
  <2>4. TypeOK' /\ CapturedOK'
    BY <1>1, <2>3, LaneFacts, LaneTyped DEF durable, history
  <2> QED BY <2>2, <2>4 DEF JourneyInv
<1>4. CASE ~Stale
  <2> DEFINE h == [Job1 EXCEPT !.pc = "confirm", !.ok = TRUE]
  <2>1. jobs' = <<h>> \o Tail(jobs)
    BY <1>4 DEF StartLaunches
  <2>2. /\ h \in Job /\ h.kind = Job1.kind /\ h.pc = "confirm" /\ h.cfg = Job1.cfg
        /\ h.prev = Job1.prev /\ h.again = Job1.again
    BY <1>2 DEF Job
  <2> HIDE DEF h
  <2>3. /\ faults' \in 0 .. MaxFaults
        /\ UNCHANGED <<config, task, deaf, stuck, stray, torn, mixed, cold>>
    BY <1>1, LaneFacts DEF durable, history
  <2> QED BY <1>1, <1>2, <2>1, <2>2, <2>3, GoesPast
<1> QED BY <1>3, <1>4

LEMMA StepStartConfirmed ==
  ASSUME JourneyAssumption, JourneyInv, StartConfirmed
  PROVE  JourneyInv'
<1>1. /\ At("start", "confirm")
      /\ UNCHANGED <<user, clock, config, opening, sample, requests>>
      /\ UNCHANGED <<app, access, epoch, issued>>
  BY DEF StartConfirmed, user, clock
<1>2. /\ jobs # <<>> /\ Job1 \in Job /\ Job1.kind = "start"
      /\ config \in Config /\ config.ep = Job1.cfg.ep
           /\ Mode(config) = Mode(Job1.cfg)
  BY <1>1, AfterSwap
<1>3. CASE /\ Goes("failed") /\ faults' \in 0 .. MaxFaults
           /\ UNCHANGED <<deaf, torn, mixed, cold>>
           /\ \/ task' = "off" /\ stray' = FALSE /\ UNCHANGED stuck
              \/ task' = Mode(Job1.cfg) /\ stuck' = TRUE /\ stray' = TRUE
              \/ UNCHANGED <<task, stuck, stray>>
  <2> DEFINE h == [Job1 EXCEPT !.pc = "failed"]
  <2>1. jobs' = <<h>> \o Tail(jobs)
    BY <1>3 DEF Goes
  <2>2. /\ h \in Job /\ h.kind = Job1.kind /\ h.pc = "failed" /\ h.cfg = Job1.cfg
        /\ h.prev = Job1.prev /\ h.again = Job1.again
    BY <1>2, JobWith
  <2> HIDE DEF h
  <2>3. task' = Mode(Job1.cfg) => task' \in {"off", "passive", "journey"}
    BY DEF Mode
  <2>4. stuck \in BOOLEAN
    BY LaneFacts
  <2> QED BY <1>1, <1>2, <1>3, <2>1, <2>2, <2>3, <2>4, GoesPast
<1>4. CASE /\ Permitted /\ task' = Mode(Job1.cfg) /\ Finished /\ UNCHANGED faults
           /\ IF Job1.cfg.ep = epoch THEN Settled ELSE UNCHANGED history
  <2>1. /\ QueueOK' /\ HeadOK' /\ jobs' \in Seq(Job)
        /\ Job1.cfg.ep = epoch \/ SettlerIn(jobs, epoch)'
    BY <1>1, <1>2, <1>4, Popped
  <2>2. access # NoOne /\ app = "background"
    BY <1>4 DEF Permitted
  <2>3. TaskOK'
    <3>1. WantedOK'
      BY <1>1, <2>2 DEF WantedOK
    <3>2. EpochOK'
      BY <1>1, <1>2, <2>1 DEF EpochOK
    <3>3. ProfileOK'
      BY <1>1, <1>2, <1>4 DEF ProfileOK, Mode
    <3>4. config' # None
      BY <1>1, <1>2, NotNone
    <3> QED BY <3>1, <3>2, <3>3, <3>4 DEF TaskOK
  <2>4. /\ deaf' \in BOOLEAN /\ stuck' \in BOOLEAN /\ stray' \in BOOLEAN /\ torn' \in BOOLEAN
        /\ mixed' \in BOOLEAN /\ cold' \in BOOLEAN
    BY <1>4, LaneFacts, Zenon DEF Settled, history
  <2>5. task' \in {"off", "passive", "journey"}
    BY <1>4 DEF Mode
  <2>6. TypeOK' /\ CapturedOK'
    BY <1>1, <1>4, <2>1, <2>4, <2>5, LaneFacts, LaneTyped
  <2> QED BY <2>1, <2>3, <2>6 DEF JourneyInv
<1>5. CASE /\ Goes("failed") /\ UNCHANGED <<deaf, torn, mixed, cold>>
           /\ StopsAgain \/ UNCHANGED <<task, stuck, stray, faults>>
  <2>1. faults' \in 0 .. MaxFaults
    BY <1>5, LaneFacts DEF StopsAgain
  <2>2. \/ task' = "off" /\ stray' = FALSE /\ UNCHANGED stuck
        \/ task' = Mode(Job1.cfg) /\ stuck' = TRUE /\ stray' = TRUE
        \/ UNCHANGED <<task, stuck, stray>>
    BY <1>5 DEF StopsAgain, TaskGone
  <2> QED BY <1>3, <1>5, <2>1, <2>2
<1>6. CASE Fault /\ Goes("failed") /\ UNCHANGED <<task, history>>
  <2>1. UNCHANGED <<task, deaf, stuck, stray, torn, mixed, cold>>
    BY <1>6 DEF history
  <2> QED BY <1>3, <1>6, <2>1, LaneFacts
<1> QED BY <1>4, <1>5, <1>6, Zenon DEF StartConfirmed

LEMMA StepStartFails ==
  ASSUME JourneyAssumption, JourneyInv, StartFails
  PROVE  JourneyInv'
<1> DEFINE prev == [Job1.prev EXCEPT !.ep = Job1.cfg.ep]
<1>1. /\ At("start", "failed")
      /\ UNCHANGED <<user, clock, opening, sample, requests>>
      /\ UNCHANGED <<app, access, epoch, issued>>
  BY DEF StartFails, user, clock
<1>2. /\ jobs # <<>> /\ Job1 \in Job /\ Job1.kind = "start" /\ JobOK(Job1, issued)
      /\ Job1.cfg \in Config /\ Job1.cfg.ep \in 1 .. issued
      /\ task = "off" \/ stray
  BY <1>1, AfterSwap
<1> DEFINE Kept == UNCHANGED <<deaf, stuck, torn, mixed, cold>>
                   /\ faults' \in 0 .. MaxFaults
           Left == \/ task' = "off" /\ stray' = FALSE
                   \/ UNCHANGED <<task, stray>>
<1>3. CASE /\ Finished /\ Kept /\ Left /\ config' \in Config \cup {None}
           /\ (config' # None => config'.ep \in 1 .. issued)
  <2>1. /\ QueueOK' /\ HeadOK' /\ jobs' \in Seq(Job)
        /\ StopIn(jobs) => StopIn(jobs)'
    BY <1>1, <1>2, <1>3, Popped
  <2>2. TaskOK'
    <3>1. task' # "off" => stray' /\ WantedOK
      BY <1>2, <1>3 DEF JourneyInv, TaskOK
    <3>2. WantedOK => WantedOK'
      BY <1>1, <1>3, <2>1 DEF WantedOK
    <3>3. stray' => ProfileOK' /\ EpochOK'
      BY DEF ProfileOK, EpochOK
    <3> QED BY <3>1, <3>2, <3>3 DEF TaskOK
  <2>3. TypeOK' /\ CapturedOK'
    BY <1>1, <1>3, <2>1, LaneFacts, LaneTyped
  <2> QED BY <2>1, <2>2, <2>3 DEF JourneyInv
<1>4. ASSUME Job1.prev.who = Job1.cfg.who
      PROVE  prev \in Config /\ prev.ep = Job1.cfg.ep
  <2>1. Job1.prev \in Config \cup {None} /\ Job1.cfg.who \in Owners
    BY <1>2, NotNone DEF Job
  <2>2. Job1.prev \in Config
    BY <1>4, <2>1, NotNone
  <2>3. Job1.cfg.ep \in Nat
    BY <1>2, NotNone
  <2> QED BY <2>2, <2>3, ConfigWith
<1>5. CASE /\ Job1.prev.who = Job1.cfg.who /\ config' = prev /\ Kept
           /\ UNCHANGED <<task, stray>>
           /\ jobs' = <<[Job1 EXCEPT !.pc = "launch", !.again = TRUE,
                                     !.cfg = prev]>> \o Tail(jobs)
  <2>1. prev \in Config /\ prev.ep = Job1.cfg.ep
    BY <1>4, <1>5
  <2> HIDE DEF prev
  <2> DEFINE h == [Job1 EXCEPT !.pc = "launch", !.again = TRUE, !.cfg = prev]
  <2>2. jobs' = <<h>> \o Tail(jobs)
    BY <1>5
  <2>3. /\ h \in Job /\ h.kind = Job1.kind /\ h.pc = "launch" /\ h.cfg = prev
        /\ h.again
    BY <1>2, <2>1 DEF Job
  <2> HIDE DEF h
  <2>4. JobOK(h, issued)
    BY <1>2, <2>1, <2>3, Zenon DEF JobOK
  <2>5. /\ QueueOK' /\ jobs' \in Seq(Job) /\ jobs' # <<>> /\ Job1' = h
        /\ StopIn(jobs)' <=> StopIn(jobs)
    BY <1>1, <1>2, <2>1, <2>2, <2>3, <2>4, Moved
  <2>6. Stored(Job1)' = prev
    BY <2>3, <2>5 DEF Stored
  <2>7. ~At("stop", "forget")' /\ ~At("start", "swap")'
    BY <2>3, <2>5 DEF At, Job1
  <2>8. HeadOK'
    BY <1>2, <1>5, <2>6, <2>7 DEF HeadOK
  <2>9. TaskOK'
    <3>1. task' # "off" => stray' /\ WantedOK
      BY <1>2, <1>5 DEF JourneyInv, TaskOK
    <3>2. WantedOK => WantedOK'
      BY <1>1, <1>5, <2>5 DEF WantedOK
    <3>3. stray' => ProfileOK' /\ EpochOK'
      BY DEF ProfileOK, EpochOK
    <3> QED BY <3>1, <3>2, <3>3 DEF TaskOK
  <2>10. TypeOK' /\ CapturedOK'
    BY <1>1, <1>2, <1>5, <2>1, <2>5, LaneFacts, LaneTyped
  <2> QED BY <2>5, <2>8, <2>9, <2>10 DEF JourneyInv
<1> HIDE DEF prev
<1>6. CASE Finished /\ UNCHANGED <<durable, history>>
           /\ faults' \in 0 .. MaxFaults
  <2>1. Kept /\ Left /\ UNCHANGED config
    BY <1>6 DEF durable, history
  <2> QED BY <1>3, <1>6, <2>1, LaneFacts
<1>7. CASE Job1.prev.who = Job1.cfg.who /\ FailsForOwner
  <2>1. CASE Fault /\ Finished /\ UNCHANGED <<durable, history>>
    BY <1>6, <2>1, LaneFacts
  <2>2. CASE /\ config' = prev /\ UNCHANGED <<task, history, faults>>
             /\ \/ jobs' = <<[Job1 EXCEPT !.pc = "launch", !.again = TRUE,
                                          !.cfg = prev]>> \o Tail(jobs)
                \/ Finished
    <3>1. Kept /\ UNCHANGED <<task, stray>>
      BY <2>2, LaneFacts DEF history
    <3>2. prev \in Config /\ prev.ep = Job1.cfg.ep
      BY <1>4, <1>7
    <3>3. CASE Finished
      BY <1>2, <1>3, <2>2, <3>1, <3>2, <3>3
    <3> QED BY <1>5, <1>7, <2>2, <3>1, <3>3
  <2> QED BY <1>7, <2>1, <2>2, Zenon DEF FailsForOwner, prev
<1>8. CASE FailsForOther
  <2>1. Finished /\ Kept /\ Left
    BY <1>8, LaneFacts DEF FailsForOther, TaskGone
  <2>2. config' = None \/ UNCHANGED config
    BY <1>8 DEF FailsForOther
  <2> QED BY <1>3, <2>1, <2>2, LaneFacts
<1>9. \/ Finished /\ UNCHANGED <<durable, history, faults>>
      \/ Job1.prev.who = Job1.cfg.who /\ FailsForOwner
      \/ FailsForOther
  BY Zenon DEF StartFails
<1> QED BY <1>6, <1>7, <1>8, <1>9, LaneFacts

LEMMA StepStopBegins ==
  ASSUME JourneyAssumption, JourneyInv, StopBegins
  PROVE  JourneyInv'
<1>1. /\ jobs # <<>> /\ Job1.kind = "stop" /\ Job1.pc = "begin"
      /\ UNCHANGED <<user, clock, config, opening, sample, deaf, torn, mixed, cold,
                     requests>>
      /\ UNCHANGED <<app, access, epoch, issued>> /\ ~At("start", "swap")
  BY DEF StopBegins, At, Job1, user, clock
<1>2. CASE TaskGone /\ Goes("forget") /\ UNCHANGED <<stuck, faults>>
  <2>1. /\ QueueOK' /\ jobs' \in Seq(Job) /\ jobs' # <<>>
        /\ Job1'.kind = "stop" /\ Job1'.pc = "forget"
    BY <1>1, <1>2, GoesOn
  <2>2. task' = "off" /\ stray' = FALSE
    BY <1>2 DEF TaskGone
  <2>3. HeadOK'
    BY <2>1, <2>2 DEF HeadOK, At, Job1
  <2>4. TaskOK'
    BY <2>2 DEF TaskOK
  <2>5. TypeOK' /\ CapturedOK'
    BY <1>1, <1>2, <2>1, <2>2, LaneFacts, LaneTyped
  <2> QED BY <2>1, <2>3, <2>4, <2>5 DEF JourneyInv
<1>3. CASE /\ task # "off" /\ Fault /\ Finished /\ stuck' = TRUE
           /\ UNCHANGED <<task, stray>>
  <2>1. QueueOK' /\ HeadOK' /\ jobs' \in Seq(Job)
    BY <1>1, <1>3, Popped
  <2>2. TaskOK'
    <3>1. (config # None \/ stray) /\ ProfileOK
      BY <1>3 DEF JourneyInv, TaskOK
    <3>2. ProfileOK'
      BY <1>1, <1>3, <3>1 DEF ProfileOK, Mode
    <3> QED BY <1>1, <1>3, <3>1, <3>2 DEF TaskOK, EpochOK, WantedOK
  <2>3. TypeOK' /\ CapturedOK'
    BY <1>1, <1>3, <2>1, LaneFacts, LaneTyped
  <2> QED BY <2>1, <2>2, <2>3 DEF JourneyInv
<1> QED BY <1>2, <1>3 DEF StopBegins

LEMMA StepStopForgets ==
  ASSUME JourneyAssumption, JourneyInv, StopForgets
  PROVE  JourneyInv'
<1>1. /\ jobs # <<>> /\ Finished /\ Settled
      /\ UNCHANGED <<user, clock, task, opening, sample, requests>>
      /\ UNCHANGED <<app, access, epoch, issued>>
      /\ \/ config' = None /\ UNCHANGED faults
         \/ Fault /\ UNCHANGED config
  BY DEF StopForgets, At, user, clock
<1>2. task' = "off"
  <2>1. At("stop", "forget") /\ HeadOK /\ UNCHANGED task
    BY DEF StopForgets, JourneyInv
  <2> QED BY <2>1 DEF HeadOK
<1>3. QueueOK' /\ HeadOK' /\ jobs' \in Seq(Job)
  BY <1>1, Popped
<1>4. TaskOK'
  BY <1>2 DEF TaskOK
<1>5. TypeOK' /\ CapturedOK'
  <2>1. /\ deaf' \in BOOLEAN /\ stuck' \in BOOLEAN /\ stray' \in BOOLEAN /\ torn' \in BOOLEAN
        /\ mixed' \in BOOLEAN /\ cold' \in BOOLEAN
    BY <1>1 DEF Settled
  <2>2. /\ config' \in Config \cup {None} /\ faults' \in 0 .. MaxFaults
        /\ config' # None => config'.ep \in 1 .. issued
        /\ task' \in {"off", "passive", "journey"}
    BY <1>1, LaneFacts
  <2> QED BY <1>1, <1>3, <2>1, <2>2, LaneTyped
<1> QED BY <1>3, <1>4, <1>5 DEF JourneyInv

LEMMA StepSampleRecorded ==
  ASSUME JourneyAssumption, JourneyInv, SampleRecorded
  PROVE  JourneyInv'
<1>1. /\ jobs # <<>> /\ Job1.kind = "update" /\ Job1.pc = "begin" /\ Finished
      /\ sample' = NoSample
      /\ UNCHANGED <<user, clock, task, opening, deaf, stuck, stray, torn, cold, requests,
                     faults>>
      /\ UNCHANGED <<app, access, epoch, issued>> /\ ~At("start", "swap")
  BY DEF SampleRecorded, At, Job1, user, clock
<1>2. /\ QueueOK' /\ HeadOK' /\ jobs' \in Seq(Job)
      /\ SettlerIn(jobs, epoch) => SettlerIn(jobs, epoch)'
      /\ StopIn(jobs) => StopIn(jobs)'
  <2>1. ~Settles(Job1, epoch)
    BY <1>1 DEF Settles
  <2> QED BY <1>1, <2>1, Popped
<1>3. task # "off" =>
        (config # None \/ stray) /\ ProfileOK /\ EpochOK /\ WantedOK
  BY DEF JourneyInv, TaskOK
<1>4. WantedOK => WantedOK'
  BY <1>1, <1>2 DEF WantedOK
<1>5. CASE UNCHANGED <<config, mixed>>
  <2>1. ProfileOK => ProfileOK'
    BY <1>1, <1>5 DEF ProfileOK, Mode
  <2>2. EpochOK => EpochOK'
    BY <1>1, <1>2, <1>5, Zenon DEF EpochOK
  <2>3. TaskOK'
    BY <1>1, <1>3, <1>4, <1>5, <2>1, <2>2 DEF TaskOK
  <2>4. TypeOK' /\ CapturedOK'
    BY <1>1, <1>2, <1>5, LaneFacts, LaneTyped
  <2> QED BY <1>2, <2>3, <2>4 DEF JourneyInv
<1>6. CASE /\ config' = [Job1.cfg EXCEPT !.seq = Job1.cfg.seq + 1]
           /\ mixed' = (mixed \/ config # Job1.cfg)
  <2>1. Job1.cfg \in Config /\ Job1.cfg.ep \in 1 .. issued
    BY <1>1, HeadFacts DEF JobOK
  <2>2. Job1.cfg.seq + 1 \in Nat
    BY <2>1, NotNone
  <2>3. /\ config' \in Config /\ config'.ep = Job1.cfg.ep
        /\ config'.session = Job1.cfg.session
    BY <1>6, <2>1, <2>2, ConfigWith
  <2>4. config' # None
    BY <2>3, NotNone
  <2>5. ProfileOK => ProfileOK'
    <3>1. config = Job1.cfg => Mode(config)' = Mode(config)
      BY <2>3 DEF Mode
    <3> QED BY <1>1, <1>6, <3>1, Zenon DEF ProfileOK
  <2>6. EpochOK => EpochOK'
    <3>1. config = Job1.cfg => config'.ep = config.ep
      BY <2>3
    <3>2. config # Job1.cfg => mixed'
      BY <1>6
    <3>3. mixed => mixed'
      BY <1>6
    <3> QED BY <1>1, <1>2, <3>1, <3>2, <3>3 DEF EpochOK
  <2>7. TaskOK'
    BY <1>1, <1>3, <1>4, <2>4, <2>5, <2>6 DEF TaskOK
  <2>8. mixed' \in BOOLEAN
    BY <1>6
  <2>9. TypeOK' /\ CapturedOK'
    BY <1>1, <1>2, <2>1, <2>3, <2>8, LaneFacts, LaneTyped
  <2> QED BY <1>2, <2>7, <2>9 DEF JourneyInv
<1> QED BY <1>5, <1>6 DEF SampleRecorded

LEMMA StepCrash ==
  ASSUME JourneyAssumption, JourneyInv, Crash
  PROVE  JourneyInv'
<1>1. /\ app' = "background" /\ access' = NoOne /\ epoch' = 0
      /\ jobs' = <<>> /\ opening' = NoStart /\ sample' = NoSample
      /\ cold' = TRUE /\ deaf' = FALSE /\ stuck' = FALSE /\ mixed' = mixed
      /\ torn' = (torn \/ (At("start", "swap") /\ Changed(Job1)))
      /\ UNCHANGED <<issued, config, stray, requests>>
      /\ faults' \in 0 .. MaxFaults
  BY LaneFacts DEF Crash
<1>2. task' = task \/ (At("start", "confirm") /\ task' = Mode(Job1.cfg))
  BY DEF Crash
<1>3. QueueOK'
  <2>1. \A i \in 1 .. Len(jobs') : FALSE
    BY <1>1
  <2> QED BY <1>1, <2>1 DEF QueueOK, LaneOK, CurrentIn
<1>4. HeadOK'
  BY <1>1, BeginsOK
<1>5. task' # "off" => /\ config' # None \/ stray'
                       /\ task' = Mode(config)' \/ stray' \/ torn' \/ mixed'
  <2>1. Mode(config)' = Mode(config)
    BY <1>1 DEF Mode
  <2>2. CASE At("start", "confirm") /\ task' = Mode(Job1.cfg)
    <3>1. config \in Config /\ Mode(config) = Mode(Job1.cfg)
      BY <2>2, AfterSwap
    <3> QED BY <1>1, <2>1, <2>2, <3>1, NotNone
  <2>3. CASE task' = task /\ ~At("start", "swap")
    <3>1. task # "off" => (config # None \/ stray) /\ ProfileOK
      BY DEF JourneyInv, TaskOK
    <3> QED BY <1>1, <2>1, <2>3, <3>1 DEF ProfileOK
  <2>4. CASE task' = task /\ At("start", "swap")
    <3>1. /\ config = Carried(Job1.cfg, Job1.prev)
          /\ Job1.had <=> task # "off"
          /\ task # "off" =>
               \/ stray
               \/ /\ Job1.prev # None
                  /\ task = Mode(Job1.prev) \/ torn \/ mixed
      BY <2>4 DEF JourneyInv, HeadOK
    <3>2. Job1 \in Job /\ Job1.cfg \in Config /\ Job1.prev \in Config \cup {None}
      BY <2>4, HeadFacts DEF At, Job1, JobOK, Job
    <3>3. config \in Config /\ Mode(config) = Mode(Job1.cfg) /\ config # None
      BY <3>1, <3>2, CarriedOK, NotNone
    <3>4. \/ Changed(Job1)
          \/ task # "off" => task = Mode(config) \/ stray \/ torn \/ mixed
      BY <3>1, <3>3, Zenon DEF Changed
    <3> QED BY <1>1, <2>1, <2>4, <3>3, <3>4
  <2> QED BY <1>2, <2>2, <2>3, <2>4
<1>6. TaskOK'
  BY <1>1, <1>5 DEF TaskOK, ProfileOK, EpochOK, WantedOK
<1>7. CapturedOK'
  BY <1>1, Typed, Nothing DEF CapturedOK
<1>8. TypeOK'
  <2>1. torn' \in BOOLEAN /\ mixed' \in BOOLEAN /\ stray' \in BOOLEAN
    BY <1>1, LaneFacts
  <2>2. task' \in {"off", "passive", "journey"}
    BY <1>2, LaneFacts DEF Mode
  <2>3. epoch' \in 0 .. issued' /\ issued' \in Nat
    BY <1>1, HeadFacts
  <2>4. /\ jobs' \in Seq(Job) /\ app' \in {"active", "background"}
        /\ access' \in Owners \cup {NoOne}
    BY <1>1
  <2>5. deaf' \in BOOLEAN /\ stuck' \in BOOLEAN /\ cold' \in BOOLEAN
    BY <1>1, Zenon
  <2> QED BY <1>1, <2>1, <2>2, <2>3, <2>4, <2>5, Typed, Nil, Zenon DEF TypeOK
<1> QED BY <1>3, <1>4, <1>6, <1>7, <1>8 DEF JourneyInv

-----------------------------------------------------------------------------
LEMMA InitJourney == ASSUME JourneyAssumption, Init PROVE JourneyInv
<1>1. /\ epoch = 0 /\ issued = 0 /\ config = None /\ task = "off" /\ jobs = <<>>
      /\ opening = NoStart /\ sample = NoSample /\ requests = 0 /\ faults = 0
      /\ app = "background" /\ access \in Owners
      /\ deaf = FALSE /\ stuck = FALSE /\ stray = FALSE /\ torn = FALSE /\ mixed = FALSE
           /\ cold = FALSE
  BY DEF Init
<1>2. QueueOK
  <2>1. \A i \in 1 .. Len(jobs) : FALSE
    BY <1>1
  <2> QED BY <1>1, <2>1 DEF QueueOK, LaneOK, CurrentIn
<1>3. HeadOK
  BY <1>1 DEF HeadOK, At
<1>4. TaskOK /\ CapturedOK
  BY <1>1, Nothing DEF TaskOK, CapturedOK
<1>5. TypeOK
  <2>1. /\ epoch \in 0 .. issued /\ issued \in Nat /\ jobs \in Seq(Job)
        /\ requests \in 0 .. MaxRequests /\ faults \in 0 .. MaxFaults
    BY <1>1 DEF JourneyAssumption
  <2> QED BY <1>1, <2>1, Nil, Zenon DEF TypeOK
<1> QED BY <1>2, <1>3, <1>4, <1>5 DEF JourneyInv

LEMMA NextJourney ==
  ASSUME JourneyAssumption, JourneyInv, [Next]_vars
  PROVE  JourneyInv'
<1>1. CASE \E w \in Owners, s \in Sessions \cup {NoSession} : Start(w, s)
  BY <1>1, StepStart
<1>2. CASE OpeningAccess \/ OpeningLoad \/ ToForeground
  BY <1>2, StepOpeningAccess, StepOpeningLoad, StepToForeground
<1>3. CASE ToBackground \/ Deliver \/ UNCHANGED vars
  BY <1>3, StepQuietly
<1>4. CASE \E w \in Owners \cup {NoOne} : SetAccess(w)
  BY <1>4, StepSetAccess
<1>5. CASE Lane
  BY <1>5, StepStartBegins, StepStartSaves, StepStartSwaps, StepStartLaunches,
     StepStartConfirmed, StepStartFails, StepStopBegins, StepStopForgets,
     StepSampleRecorded DEF Lane
<1>6. CASE Callback
  BY <1>6, StepSampleLoads, StepSampleChecked DEF Callback
<1>7. CASE Crash
  BY <1>7, StepCrash
<1> QED BY <1>1, <1>2, <1>3, <1>4, <1>5, <1>6, <1>7 DEF Next

(* The invariant holds in every state of every behaviour. *)
THEOREM JourneyCorrect == ASSUME JourneyAssumption PROVE Spec => []JourneyInv
<1>1. Init => JourneyInv
  BY InitJourney
<1>2. JourneyInv /\ [Next]_vars => JourneyInv'
  BY NextJourney
<1> QED BY <1>1, <1>2, PTL DEF Spec

(* Every variable keeps its type. *)
THEOREM JourneyTypes == ASSUME JourneyAssumption PROVE Spec => []TypeOK
<1>1. JourneyInv => TypeOK
  BY DEF JourneyInv
<1> QED BY <1>1, JourneyCorrect, PTL

(* backgroundJourneyController.ts: the native task never runs without a    *)
(* stored configuration, wherever the process dies, unless it was left     *)
(* running by a failed start whose own stop failed (lines 343 and 344).    *)
THEOREM OwnedTasks == ASSUME JourneyAssumption PROVE Spec => []TaskIsOwned
<1>1. JourneyInv => TaskIsOwned
  BY DEF JourneyInv, TaskOK, TaskIsOwned
<1> QED BY <1>1, JourneyCorrect, PTL

(* At rest the task has the profile and the epoch of what is stored, or    *)
(* one of the named exceptions applies.                                    *)
THEOREM TasksMatch == ASSUME JourneyAssumption PROVE Spec => []TaskMatches
<1>1. ASSUME JourneyInv, jobs = <<>>, task # "off"
      PROVE  \/ task = Mode(config) /\ epoch \in {0, config.ep}
             \/ deaf \/ stuck \/ stray \/ torn \/ mixed
  <2>1. ~At("start", "swap") /\ ~SettlerIn(jobs, epoch)
    BY <1>1 DEF At, SettlerIn
  <2> QED BY <1>1, <2>1 DEF JourneyInv, TaskOK, ProfileOK, EpochOK
<1>2. JourneyInv => TaskMatches
  BY <1>1, Zenon DEF TaskMatches, AtRest
<1> QED BY <1>2, JourneyCorrect, PTL

(* At rest no task runs in the foreground or without access, unless it     *)
(* would not stop or the process was started cold by the task itself.      *)
THEOREM UnwantedOff == ASSUME JourneyAssumption PROVE Spec => []OffWhenUnwanted
<1>1. ASSUME JourneyInv, jobs = <<>>, task # "off"
      PROVE  (app = "background" /\ access # NoOne) \/ stuck \/ cold
  <2>1. ~StopIn(jobs)
    BY <1>1 DEF StopIn
  <2> QED BY <1>1, <2>1 DEF JourneyInv, TaskOK, WantedOK
<1>2. JourneyInv => OffWhenUnwanted
  BY <1>1, Zenon DEF OffWhenUnwanted, AtRest
<1> QED BY <1>2, JourneyCorrect, PTL

(* Progress recorded on a session is never lost while its configuration    *)
(* is replaced, cancelled or restored.                                     *)
THEOREM ProgressStays == ASSUME JourneyAssumption PROVE Spec => ProgressKept
<1> DEFINE Kept == (config'.who = config.who /\ config'.session = config.session)
                     => config'.seq >= config.seq
<1>1. ASSUME JourneyInv, [Next]_vars PROVE [Kept]_config
  <2>1. config.seq \in Nat /\ config \in Config \cup {None}
    BY <1>1, LaneFacts, NotNone, Nothing
  <2>2. CASE UNCHANGED config
    BY <2>2
  <2>3. CASE config' = None
    BY <2>1, <2>3, NotNone, Nothing
  <2>4. CASE StartSaves /\ config' # config
    <3>1. /\ jobs # <<>> /\ Job1.kind = "start"
               /\ config' = Carried(Job1.cfg, config)
      BY <2>4 DEF StartSaves, At, Job1
    <3>2. Job1.cfg \in Config
      BY <1>1, <3>1, HeadFacts DEF JobOK
    <3>3. Job1.cfg.seq \in Nat
      BY <3>2, NotNone
    <3> QED BY <2>1, <3>1, <3>2, <3>3, CarriedOK
  <2>5. CASE StartFails /\ config' # config /\ config' # None
    <3>1. /\ At("start", "failed") /\ ~Job1.again
          /\ Job1.prev.who = Job1.cfg.who
          /\ config' = [Job1.prev EXCEPT !.ep = Job1.cfg.ep]
      BY <2>5, Zenon DEF StartFails, FailsForOwner, FailsForOther, durable
    <3>2. /\ Job1 \in Job /\ Job1.cfg \in Config /\ JobOK(Job1, issued)
          /\ Job1.kind = "start" /\ config = Stored(Job1)
      BY <1>1, <3>1, AfterSwap
    <3>3. config = Carried(Job1.cfg, Job1.prev) /\ Job1.cfg.seq = 0
      BY <3>1, <3>2 DEF Stored, JobOK
    <3>4. Job1.prev \in Config
      BY <3>1, <3>2, NotNone DEF Job
    <3>5. Job1.cfg.ep \in Nat /\ Job1.prev.seq \in Nat
      BY <3>2, <3>4, NotNone
    <3>6. config'.session = Job1.prev.session /\ config'.seq = Job1.prev.seq
      BY <3>1, <3>4, <3>5, ConfigWith
    <3>7. /\ config.session = Job1.cfg.session
          /\ Job1.prev.session = Job1.cfg.session =>
               config.seq = IF Job1.prev.seq > Job1.cfg.seq THEN Job1.prev.seq
                            ELSE Job1.cfg.seq
      BY <3>1, <3>2, <3>3, <3>4, CarriedOK
    <3> QED BY <3>3, <3>5, <3>6, <3>7
  <2>6. CASE SampleRecorded /\ config' # config
    <3>1. /\ jobs # <<>> /\ Job1.kind = "update" /\ config.seq = Job1.cfg.seq
          /\ config' = [Job1.cfg EXCEPT !.seq = Job1.cfg.seq + 1]
      BY <2>6 DEF SampleRecorded, At, Job1
    <3>2. Job1.cfg \in Config
      BY <1>1, <3>1, HeadFacts DEF JobOK
    <3>3. Job1.cfg.seq + 1 \in Nat
      BY <2>1, <3>1
    <3>4. config'.seq = config.seq + 1
      BY <3>1, <3>2, <3>3, ConfigWith
    <3> QED BY <2>1, <3>4
  <2>7. \/ UNCHANGED config \/ config' = None
        \/ StartSaves \/ StartFails \/ SampleRecorded
    <3>1. UNCHANGED durable => UNCHANGED config
      BY DEF durable
    <3> QED BY <1>1, <3>1, Zenon DEF Next, vars, Start, OpeningAccess,
              OpeningLoad, ToForeground, ToBackground, SetAccess, Lane,
              Deliver, Callback, Crash, StartBegins, StartSwaps,
              StartLaunches, StartConfirmed, StopBegins, StopForgets,
              SampleLoads, SampleChecked
  <2> QED BY <2>2, <2>3, <2>4, <2>5, <2>6, <2>7
<1> QED BY <1>1, JourneyCorrect, PTL DEF Spec, ProgressKept

=============================================================================
