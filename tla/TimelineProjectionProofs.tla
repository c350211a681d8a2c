----------------------- MODULE TimelineProjectionProofs -----------------------
(***************************************************************************)
(* What the live consumers guarantee, for any number of players, events,   *)
(* deliveries and faults.                                                  *)
(***************************************************************************)
EXTENDS TimelineProjection, TimelineFoldLemmas, WellFoundedInduction

-----------------------------------------------------------------------------
(* What a consumer is doing.                                                *)

Jobs == [at : 0..Len(log), cur : 0..Len(log), seen : SUBSET Players,
         pc : {"idle", "apply", "add", "receipt", "write", "sweep", "ack"}]

\* Job j of consumer c fits the event it is for.
Fits(l, st, c, j) ==
  /\ j.at \in 1..Len(l)
  /\ st[j.at] = "held" /\ Consumer(l[j.at]) = c
  /\ j.pc # "idle"
  /\ j.pc \in {"write", "sweep"} => j.seen # {}
  /\ j.pc # "ack" =>
       /\ IF c = "returned" THEN /\ j.cur \in 1..(j.at - 1)
                                 /\ l[j.cur].kind \notin Lifecycle
                            ELSE j.cur = j.at
       /\ \/ j.pc = "apply" /\ l[j.cur].kind # "returned"
          \/ j.pc \in {"add", "receipt"} /\ l[j.cur].kind = "rel"
          \/ j.pc = "write" /\ l[j.cur].kind = "post"
          \/ j.pc = "sweep" /\ l[j.cur].kind = "retired"

\* Every job fits its event, and what is out for delivery is somebody's job.
JobInv ==
  /\ \A c \in Consumers : job[c] # Idle => Fits(log, status, c, job[c])
  /\ \A i \in 1..Len(log) : status[i] = "held" => \E c \in Consumers : job[c].at = i

\* Jobs of two consumers are for different events.
LEMMA ProjectorInvFromJobs == TypeOK /\ JobInv => ProjectorInv
<1>. SUFFICES ASSUME TypeOK, JobInv PROVE ProjectorInv
  OBVIOUS
<1>1. \A c \in Consumers : job[c] # Idle => Fits(log, status, c, job[c])
  BY DEF JobInv
<1>2. \A c \in Consumers : job[c].at \in 1..Len(log) => job[c] # Idle
  BY DEF Idle
<1>3. ASSUME NEW i \in 1..Len(log)
      PROVE  status[i] = "held" <=> \E c \in Consumers : job[c] # Idle /\ job[c].at = i
  BY <1>1, <1>2 DEF Fits, JobInv
<1>4. ASSUME NEW c \in Consumers, job[c] # Idle
      PROVE  /\ Consumer(log[job[c].at]) = c
             /\ job[c].pc # "ack" =>
                  IF c = "returned" THEN job[c].cur \in 1..(job[c].at - 1)
                                    ELSE job[c].cur = job[c].at
             /\ job[c].pc \in {"write", "sweep"} => job[c].seen # {}
  BY <1>1, <1>4 DEF Fits
<1>. QED  BY <1>3, <1>4 DEF ProjectorInv

\* The consumer of an event is one of the six.
LEMMA ConsumerOf ==
  ASSUME NEW fact \in Fact
  PROVE  /\ Consumer(fact) \in Consumers
         /\ Consumer(fact) = "returned" <=> fact.kind = "returned"
         /\ Consumer(fact) = "retired" <=> fact.kind = "retired"
         /\ Consumer(fact) = "rel" <=> fact.kind = "rel"
         /\ Consumer(fact) = "reply" <=> fact.kind = "reply"
         /\ Consumer(fact) = "post" <=> fact.kind = "post"
         /\ Consumer(fact) = "follow" <=> fact.kind \in Declaration
BY KindOfFact DEF Consumer, Consumers, Personal, General, Declaration

\* A nonempty set of numbers has a smallest.
LEMMA SmallestOf ==
  ASSUME NEW S \in SUBSET Nat, S # {}
  PROVE  \E k \in S : \A m \in S : k <= m
<1>. DEFINE R == OpToRel(<, Nat)
<1>1. PICK k \in S : \A m \in S : ~(<<m, k>> \in R)
  BY NatLessThanWellFounded, WFMin
<1>2. \A m \in S : ~(m < k)
  BY <1>1 DEF OpToRel
<1>. QED  BY <1>2

\* The past goes on with the next event that is no lifecycle, or is over.
LEMMA PastEffect ==
  ASSUME log \in Seq(Fact), NEW j \in Jobs, j.at \in 1..Len(log)
  PROVE  \/ /\ Past(j) = [j EXCEPT !.pc = "ack"]
            /\ \A k \in (j.cur + 1)..(j.at - 1) : log[k].kind \in Lifecycle
         \/ \E k \in (j.cur + 1)..(j.at - 1) :
              /\ Past(j) = [j EXCEPT !.pc = "apply", !.cur = k]
              /\ log[k].kind \notin Lifecycle
              /\ \A m \in (j.cur + 1)..(k - 1) : log[m].kind \in Lifecycle
<1>. DEFINE rest == {k \in (j.cur + 1)..(j.at - 1) : log[k].kind \notin Lifecycle}
<1>0. j.cur \in Nat /\ j.at \in Nat
  BY DEF Jobs
<1>1. CASE rest = {}
  BY <1>1 DEF Past
<1>2. CASE rest # {}
  <2>. DEFINE k == CHOOSE x \in rest : \A m \in rest : x <= m
  <2>1. rest \in SUBSET Nat
    BY <1>0
  <2>2. \E x \in rest : \A m \in rest : x <= m
    BY <1>2, <2>1, SmallestOf
  <2>3. k \in rest /\ \A m \in rest : k <= m
    BY <2>2
  <2>4. Past(j) = [j EXCEPT !.pc = "apply", !.cur = k]
    BY <1>2 DEF Past
  <2>. HIDE DEF k
  <2>5. \A m \in (j.cur + 1)..(k - 1) : log[m].kind \in Lifecycle
    BY <1>0, <2>3
  <2>. QED  BY <2>3, <2>4, <2>5
<1>. QED  BY <1>1, <1>2

\* From a, a return at n goes on to the next event that is no lifecycle, or is over.
Moves(l, n, a, j) ==
  \/ /\ j.pc = "ack"
     /\ \A m \in (a + 1)..(n - 1) : l[m].kind \in Lifecycle
  \/ /\ j.pc = "apply"
     /\ j.cur \in (a + 1)..(n - 1) /\ l[j.cur].kind \notin Lifecycle
     /\ \A m \in (a + 1)..(j.cur - 1) : l[m].kind \in Lifecycle

\* What the past goes on with, said of the log.
LEMMA PastMoves ==
  ASSUME log \in Seq(Fact), NEW j \in Jobs, j.at \in 1..Len(log)
  PROVE  Moves(log, j.at, j.cur, Past(j))
<1>1. CASE /\ Past(j) = [j EXCEPT !.pc = "ack"]
           /\ \A k \in (j.cur + 1)..(j.at - 1) : log[k].kind \in Lifecycle
  BY <1>1 DEF Moves, Jobs
<1>2. ASSUME NEW k \in (j.cur + 1)..(j.at - 1),
             Past(j) = [j EXCEPT !.pc = "apply", !.cur = k],
             log[k].kind \notin Lifecycle,
             \A m \in (j.cur + 1)..(k - 1) : log[m].kind \in Lifecycle
      PROVE  Moves(log, j.at, j.cur, Past(j))
  <2>1. Past(j).pc = "apply" /\ Past(j).cur = k
    BY <1>2 DEF Jobs
  <2>. QED  BY <1>2, <2>1 DEF Moves
<1>. QED  BY <1>1, <1>2, PastEffect

-----------------------------------------------------------------------------
(* A handler's step.                                                        *)

\* Once an event is applied its consumer goes on with the past, or acknowledges.
LEMMA AppliedFits ==
  ASSUME log \in Seq(Fact), NEW c \in Consumers, NEW j \in Jobs,
         j.at \in 1..Len(log), status[j.at] = "held", Consumer(log[j.at]) = c
  PROVE  /\ Applied(j) \in Jobs /\ Fits(log, status, c, Applied(j))
         /\ Applied(j).at = j.at /\ Applied(j).seen = j.seen
         /\ Applied(j).pc \in {"apply", "ack"}
         /\ c # "returned" => Applied(j).pc = "ack"
<1>1. log[j.at] \in Fact /\ (c = "returned" <=> log[j.at].kind = "returned")
  BY ConsumerOf
<1>2. CASE c # "returned"
  BY <1>1, <1>2 DEF Applied, Jobs, Fits
<1>3. CASE c = "returned"
  <2>1. Applied(j) = Past(j)
    BY <1>1, <1>3 DEF Applied
  <2>2. CASE Past(j) = [j EXCEPT !.pc = "ack"]
    BY <1>3, <2>1, <2>2 DEF Jobs, Fits
  <2>3. CASE \E k \in (j.cur + 1)..(j.at - 1) :
               /\ Past(j) = [j EXCEPT !.pc = "apply", !.cur = k]
               /\ log[k].kind \notin Lifecycle
    <3>1. PICK k \in (j.cur + 1)..(j.at - 1) :
               /\ Past(j) = [j EXCEPT !.pc = "apply", !.cur = k]
               /\ log[k].kind \notin Lifecycle
      BY <2>3
    <3>2. k \in 0..Len(log) /\ k \in 1..(j.at - 1) /\ log[k].kind # "returned"
      BY <3>1 DEF Jobs, Lifecycle
    <3>. QED  BY <1>3, <2>1, <3>1, <3>2 DEF Jobs, Fits
  <2>. QED  BY <2>2, <2>3, PastEffect
<1>. QED  BY <1>2, <1>3

Work(c) ==
  \/ CheckRefused(c) \/ AddFollower(c) \/ PushPrivate(c) \/ SetFollow(c)
  \/ ReadFollowers(c) \/ FanOut(c) \/ DropIndex(c)
  \/ \E p \in Players : Sweep(c, p)

\* What a consumer that is at work on an event of some kind has in hand.
LEMMA AtWork ==
  ASSUME TypeOK, JobInv, NEW c \in Consumers, NEW pc, NEW kinds,
         pc \notin {"idle", "ack"}, At(c, pc, kinds)
  PROVE  /\ job[c] # Idle /\ Fits(log, status, c, job[c]) /\ job[c] \in Jobs
         /\ job[c].pc = pc /\ job[c].cur \in 1..Len(log)
         /\ log[job[c].cur] \in Fact /\ log[job[c].cur].kind \in kinds
         /\ kinds \subseteq Personal => Who(c) \in Players
<1>1. job[c].pc = pc /\ log[job[c].cur].kind \in kinds
  BY DEF At
<1>2. job[c] # Idle /\ Fits(log, status, c, job[c]) /\ job[c] \in Jobs
  BY <1>1 DEF JobInv, Idle, TypeOK, Jobs
<1>3. job[c].cur \in 1..Len(log) /\ log \in Seq(Fact)
  BY <1>1, <1>2 DEF Fits, Jobs, TypeOK
<1>4. log[job[c].cur] \in Fact
  BY <1>3
<1>. QED  BY <1>1, <1>2, <1>3, <1>4, KindOfFact DEF Who

\* A step of a handler moves its own job and keeps it fitting.
LEMMA WorkJob ==
  ASSUME TypeOK, JobInv, NEW c \in Consumers, Work(c)
  PROVE  /\ job[c] # Idle
         /\ job' = [job EXCEPT ![c] = job'[c]]
         /\ job'[c] \in Jobs /\ Fits(log, status, c, job'[c]) /\ job'[c].at = job[c].at
         /\ UNCHANGED <<queueVars, faults>>
         /\ followers' \subseteq Players /\ refused' \subseteq Players
         /\ entries' \subseteq Players \X (1..Len(log))
<1>1. /\ log \in Seq(Fact) /\ job \in [Consumers -> Jobs]
      /\ followers \subseteq Players /\ refused \subseteq Players
      /\ entries \subseteq Players \X (1..Len(log))
  BY DEF TypeOK, Jobs
<1>. DEFINE j == job[c]
            done == Applied([j EXCEPT !.seen = {}])
<1>2. ASSUME Fits(log, status, c, j), j \in Jobs
      PROVE  done \in Jobs /\ Fits(log, status, c, done) /\ done.at = j.at
  <2>. DEFINE k == [j EXCEPT !.seen = {}]
  <2>1. k \in Jobs /\ k.at = j.at
    BY <1>2 DEF Jobs
  <2>2. j.at \in 1..Len(log) /\ status[j.at] = "held" /\ Consumer(log[j.at]) = c
    BY <1>2 DEF Fits
  <2>. HIDE DEF k
  <2>3. Applied(k) \in Jobs /\ Fits(log, status, c, Applied(k)) /\ Applied(k).at = k.at
    BY <1>1, <2>1, <2>2, AppliedFits
  <2>. QED  BY <2>1, <2>3 DEF k
<1>3. Done(c) => job' = [job EXCEPT ![c] = done]
  BY DEF Done
<1>. HIDE DEF done
<1>4. CASE CheckRefused(c)
  <2>1. At(c, "apply", {"rel"})
    BY <1>4 DEF CheckRefused
  <2>2. j # Idle /\ Fits(log, status, c, j) /\ j \in Jobs /\ log[j.cur].kind = "rel" /\ j.pc = "apply"
    BY <2>1, AtWork
  <2>3. PICK x \in {"add", "receipt"} : job' = [job EXCEPT ![c].pc = x]
    BY <1>4 DEF CheckRefused, Goto
  <2>4. job' = [job EXCEPT ![c] = [j EXCEPT !.pc = x]]
    BY <1>1, <2>3
  <2>5. [j EXCEPT !.pc = x] \in Jobs /\ Fits(log, status, c, [j EXCEPT !.pc = x])
    BY <2>2 DEF Jobs, Fits
  <2>. QED  BY <1>1, <1>4, <2>2, <2>4, <2>5 DEF CheckRefused, keyVars, Jobs
<1>5. CASE AddFollower(c)
  <2>1. At(c, "add", {"rel"})
    BY <1>5 DEF AddFollower
  <2>2. /\ j # Idle /\ Fits(log, status, c, j) /\ j \in Jobs /\ log[j.cur].kind = "rel"
        /\ j.pc = "add" /\ Who(c) \in Players
    BY <2>1, AtWork DEF Personal
  <2>3. job' = [job EXCEPT ![c] = [j EXCEPT !.pc = "receipt"]]
    BY <1>1, <1>5 DEF AddFollower, Goto
  <2>4. [j EXCEPT !.pc = "receipt"] \in Jobs /\ Fits(log, status, c, [j EXCEPT !.pc = "receipt"])
    BY <2>2 DEF Jobs, Fits
  <2>. QED  BY <1>1, <1>5, <2>2, <2>3, <2>4 DEF AddFollower, Jobs
<1>6. CASE PushPrivate(c)
  <2>1. At(c, "receipt", {"rel"}) \/ At(c, "apply", {"reply"})
    BY <1>6 DEF PushPrivate
  <2>2. j # Idle /\ Fits(log, status, c, j) /\ j \in Jobs /\ Who(c) \in Players /\ j.cur \in 1..Len(log)
    BY <2>1, AtWork DEF Personal
  <2>3. /\ job' = [job EXCEPT ![c] = done]
        /\ entries' = entries \cup ({Who(c)} \X {j.cur})
        /\ UNCHANGED <<queueVars, followers, refused, faults>>
    BY <1>3, <1>6 DEF PushPrivate, Deliver
  <2>. QED  BY <1>1, <1>2, <2>2, <2>3
<1>7. CASE SetFollow(c)
  <2>1. At(c, "apply", Declaration)
    BY <1>7 DEF SetFollow
  <2>2. j # Idle /\ Fits(log, status, c, j) /\ j \in Jobs /\ Who(c) \in Players
    BY <2>1, AtWork DEF Personal, Declaration
  <2>3. /\ job' = [job EXCEPT ![c] = done]
        /\ followers' \subseteq followers \cup {Who(c)}
        /\ refused' \subseteq refused \cup {Who(c)}
        /\ UNCHANGED <<queueVars, entries, faults>>
    BY <1>3, <1>7 DEF SetFollow
  <2>. QED  BY <1>1, <1>2, <2>2, <2>3
<1>8. CASE ReadFollowers(c)
  <2>1. At(c, "apply", {"post"})
    BY <1>8 DEF ReadFollowers
  <2>2. j # Idle /\ Fits(log, status, c, j) /\ j \in Jobs /\ log[j.cur].kind = "post" /\ j.pc = "apply"
    BY <2>1, AtWork
  <2>3. CASE followers = {}
    BY <1>1, <1>2, <1>3, <1>8, <2>2, <2>3 DEF ReadFollowers, keyVars
  <2>4. CASE followers # {}
    <3>. DEFINE k == [j EXCEPT !.pc = "write", !.seen = followers]
    <3>1. job' = [job EXCEPT ![c] = k]
      BY <1>1, <1>8, <2>4 DEF ReadFollowers
    <3>2. k \in Jobs /\ Fits(log, status, c, k) /\ k.at = j.at
      BY <1>1, <2>2, <2>4 DEF Jobs, Fits
    <3>. HIDE DEF k
    <3>. QED  BY <1>1, <1>8, <2>2, <3>1, <3>2 DEF ReadFollowers, keyVars
  <2>. QED  BY <2>3, <2>4
<1>9. CASE FanOut(c)
  <2>1. At(c, "write", {"post"})
    BY <1>9 DEF FanOut
  <2>2. j # Idle /\ Fits(log, status, c, j) /\ j \in Jobs /\ j.cur \in 1..Len(log)
    BY <2>1, AtWork
  <2>3. /\ job' = [job EXCEPT ![c] = done]
        /\ entries' = entries \cup (j.seen \X {j.cur})
        /\ UNCHANGED <<queueVars, followers, refused, faults>>
    BY <1>3, <1>9 DEF FanOut, Deliver
  <2>4. j.seen \subseteq Players
    BY <2>2 DEF Jobs
  <2>. QED  BY <1>1, <1>2, <2>2, <2>3, <2>4
<1>10. CASE DropIndex(c)
  <2>1. At(c, "apply", {"retired"})
    BY <1>10 DEF DropIndex
  <2>2. j # Idle /\ Fits(log, status, c, j) /\ j \in Jobs /\ log[j.cur].kind = "retired" /\ j.pc = "apply"
    BY <2>1, AtWork
  <2>. DEFINE k == [j EXCEPT !.pc = "sweep", !.seen = Players]
  <2>3. job' = [job EXCEPT ![c] = k]
    BY <1>1, <1>10 DEF DropIndex
  <2>4. k \in Jobs /\ Fits(log, status, c, k) /\ k.at = j.at
    BY <2>2, ProjectionAssumption DEF Jobs, Fits
  <2>. HIDE DEF k
  <2>. QED  BY <1>1, <1>10, <2>2, <2>3, <2>4 DEF DropIndex
<1>11. ASSUME NEW p \in Players, Sweep(c, p)
       PROVE  /\ j # Idle
              /\ job' = [job EXCEPT ![c] = job'[c]]
              /\ job'[c] \in Jobs /\ Fits(log, status, c, job'[c]) /\ job'[c].at = job[c].at
              /\ UNCHANGED <<queueVars, followers, refused, faults>>
              /\ entries' \subseteq Players \X (1..Len(log))
  <2>1. At(c, "sweep", {"retired"}) /\ p \in j.seen
    BY <1>11 DEF Sweep
  <2>2. j # Idle /\ Fits(log, status, c, j) /\ j \in Jobs /\ j.pc = "sweep" /\ log[j.cur].kind = "retired"
    BY <2>1, AtWork
  <2>3. entries' \subseteq entries /\ UNCHANGED <<queueVars, followers, refused, faults>>
    BY <1>11 DEF Sweep
  <2>4. CASE j.seen = {p}
    <3>1. job' = [job EXCEPT ![c] = done]
      BY <1>3, <1>11, <2>4 DEF Sweep
    <3>. QED  BY <1>1, <1>2, <2>2, <2>3, <3>1
  <2>5. CASE j.seen # {p}
    <3>. DEFINE k == [j EXCEPT !.seen = @ \ {p}]
    <3>1. job' = [job EXCEPT ![c] = k]
      BY <1>1, <1>11, <2>5 DEF Sweep
    <3>2. k \in Jobs /\ Fits(log, status, c, k) /\ k.at = j.at
      BY <2>1, <2>2, <2>5 DEF Jobs, Fits
    <3>. HIDE DEF k
    <3>. QED  BY <1>1, <2>2, <2>3, <3>1, <3>2
  <2>. QED  BY <2>4, <2>5
<1>12. CASE \E p \in Players : Sweep(c, p)
  BY <1>1, <1>11, <1>12
<1>. QED
  BY <1>4, <1>5, <1>6, <1>7, <1>8, <1>9, <1>10, <1>12 DEF Work

-----------------------------------------------------------------------------
(* Types and jobs.                                                          *)

\* A function over the first numbers is a sequence, and grows like one.
LEMMA Longer ==
  ASSUME NEW S, NEW n \in Nat, NEW x \in S, NEW f \in [1..n -> S]
  PROVE  /\ Append(f, x) \in [1..(n + 1) -> S]
         /\ Append(f, x)[n + 1] = x
         /\ \A i \in 1..n : Append(f, x)[i] = f[i]
<1>1. f \in Seq(S) /\ Len(f) = n
  OBVIOUS
<1>2. Append(f, x) \in Seq(S) /\ Len(Append(f, x)) = n + 1
  BY <1>1
<1>3. Append(f, x)[n + 1] = x /\ \A i \in 1..n : Append(f, x)[i] = f[i]
  BY <1>1
<1>. DEFINE t == Append(f, x)
<1>4. t \in Seq(S) /\ Len(t) = n + 1
  BY <1>2
<1>. HIDE DEF t
<1>5. t \in [1..(n + 1) -> S]
  BY <1>4
<1>. QED  BY <1>3, <1>5 DEF t

Statuses == {"new", "held", "late", "done", "dead"}

\* A new event leaves the jobs what they were.
LEMMA PublishEffect ==
  ASSUME TypeOK, NEW fact \in Fact, Publish(fact)
  PROVE  /\ log' \in Seq(Fact) /\ Len(log) \in Nat /\ Len(log') = Len(log) + 1
         /\ log' = Append(log, fact)
         /\ log'[Len(log) + 1] = fact /\ \A i \in 1..Len(log) : log'[i] = log[i]
         /\ status' \in [1..Len(log') -> Statuses]
         /\ status'[Len(log) + 1] = "new"
         /\ \A i \in 1..Len(log) : status'[i] = status[i]
         /\ tries' \in [1..Len(log') -> Nat]
         /\ UNCHANGED <<job, keyVars, faults>>
<1>1. /\ log \in Seq(Fact) /\ status \in [1..Len(log) -> Statuses]
      /\ tries \in [1..Len(log) -> Nat]
  BY DEF TypeOK, Statuses
<1>2. /\ log' = Append(log, fact) /\ status' = Append(status, "new")
      /\ tries' = Append(tries, 0) /\ UNCHANGED <<job, keyVars, faults>>
  BY DEF Publish
<1>3. /\ Len(log) \in Nat /\ log' \in Seq(Fact) /\ Len(log') = Len(log) + 1
      /\ log'[Len(log) + 1] = fact /\ \A i \in 1..Len(log) : log'[i] = log[i]
  BY <1>1, <1>2
<1>4. "new" \in Statuses /\ 0 \in Nat
  BY DEF Statuses
<1>5. /\ status' \in [1..(Len(log) + 1) -> Statuses]
      /\ status'[Len(log) + 1] = "new"
      /\ \A i \in 1..Len(log) : status'[i] = status[i]
  <2>1. "new" \in Statuses /\ status \in [1..Len(log) -> Statuses] /\ Len(log) \in Nat
    BY <1>1, <1>3, <1>4
  <2>2. Append(status, "new") \in [1..(Len(log) + 1) -> Statuses]
    BY <2>1, Longer
  <2>3. Append(status, "new")[Len(log) + 1] = "new"
    BY <2>1, Longer
  <2>4. \A i \in 1..Len(log) : Append(status, "new")[i] = status[i]
    BY <2>1, Longer
  <2>. QED  BY <1>2, <2>2, <2>3, <2>4
<1>6. tries' \in [1..(Len(log) + 1) -> Nat]
  BY <1>1, <1>2, <1>3, <1>4, Longer
<1>. QED  BY <1>2, <1>3, <1>5, <1>6

\* An event in the log is in nobody's hands yet.
LEMMA PublishTyped ==
  ASSUME TypeOK, JobInv, calm' = calm, NEW fact \in Fact, Publish(fact)
  PROVE  TypeOK' /\ JobInv'
<1>. DEFINE n == Len(log)
<1>1. /\ log' \in Seq(Fact) /\ n \in Nat /\ Len(log') = n + 1
      /\ log'[n + 1] = fact /\ \A i \in 1..n : log'[i] = log[i]
      /\ status' \in [1..(n + 1) -> Statuses] /\ status'[n + 1] = "new"
      /\ \A i \in 1..n : status'[i] = status[i]
      /\ tries' \in [1..(n + 1) -> Nat] /\ UNCHANGED <<job, keyVars, faults>>
  BY PublishEffect
<1>. HIDE DEF n
<1>2. TypeOK'
  <2>1. job' \in [Consumers -> [at : 0..(n + 1), cur : 0..(n + 1), seen : SUBSET Players,
                    pc : {"idle", "apply", "add", "receipt", "write", "sweep", "ack"}]]
    <3>1. job \in [Consumers -> [at : 0..n, cur : 0..n, seen : SUBSET Players,
                    pc : {"idle", "apply", "add", "receipt", "write", "sweep", "ack"}]]
      BY DEF TypeOK, n
    <3>. QED  BY <1>1, <3>1
  <2>2. entries' \subseteq Players \X (1..(n + 1))
    BY <1>1 DEF TypeOK, keyVars, n
  <2>. QED  BY <1>1, <2>1, <2>2 DEF TypeOK, Statuses, keyVars, n
<1>3. \A c \in Consumers : job'[c] # Idle => Fits(log', status', c, job'[c])
  <2>. SUFFICES ASSUME NEW c \in Consumers, job[c] # Idle PROVE Fits(log', status', c, job[c])
    BY <1>1
  <2>1. Fits(log, status, c, job[c]) /\ job[c] \in Jobs
    BY DEF JobInv, TypeOK, Jobs
  <2>2. job[c].pc # "ack" => job[c].cur \in 1..n
    BY <2>1 DEF Fits, Jobs, n
  <2>3. job[c].at \in 1..n
    BY <2>1 DEF Fits, n
  <2>. QED  BY <1>1, <2>1, <2>2, <2>3 DEF Fits, n
<1>4. \A i \in 1..Len(log') : status'[i] = "held" => \E c \in Consumers : job'[c].at = i
  <2>1. \A i \in 1..(n + 1) : i \in 1..n \/ i = n + 1
    BY <1>1
  <2>. QED  BY <1>1, <2>1 DEF JobInv, n
<1>. QED  BY <1>2, <1>3, <1>4 DEF JobInv

\* A step of a handler leaves every job fitting.
LEMMA WorkTyped ==
  ASSUME TypeOK, JobInv, calm' = calm, NEW c \in Consumers, Work(c)
  PROVE  TypeOK' /\ JobInv'
<1>1. /\ job[c] # Idle /\ job' = [job EXCEPT ![c] = job'[c]]
      /\ job'[c] \in Jobs /\ Fits(log, status, c, job'[c]) /\ job'[c].at = job[c].at
      /\ log' = log /\ status' = status /\ tries' = tries /\ faults' = faults
      /\ followers' \subseteq Players /\ refused' \subseteq Players
      /\ entries' \subseteq Players \X (1..Len(log))
  BY WorkJob DEF queueVars
<1>2. job \in [Consumers -> Jobs]
  BY DEF TypeOK, Jobs
<1>3. job' \in [Consumers -> Jobs] /\ \A d \in Consumers \ {c} : job'[d] = job[d]
  BY <1>1, <1>2
<1>4. TypeOK'
  BY <1>1, <1>3 DEF TypeOK, Jobs
<1>5. \A d \in Consumers : job'[d] # Idle => Fits(log, status, d, job'[d])
  BY <1>1, <1>3 DEF JobInv
<1>6. \A d \in Consumers : Fits(log', status', d, job'[d]) <=> Fits(log, status, d, job'[d])
  BY <1>1 DEF Fits
<1>7. \A d \in Consumers : job'[d].at = job[d].at
  BY <1>1, <1>3
<1>. QED  BY <1>1, <1>4, <1>5, <1>6, <1>7 DEF JobInv

\* The job a consumer begins with fits the event it takes.
LEMMA TakeEffect ==
  ASSUME TypeOK, JobInv, NEW c \in Consumers, NEW i \in 1..Len(log), Take(c, i)
  PROVE  /\ job[c] = Idle /\ Consumer(log[i]) = c /\ status[i] \in {"late", "new"}
         /\ status' = [status EXCEPT ![i] = "held"]
         /\ tries' \in [1..Len(log) -> Nat]
         /\ job' = [job EXCEPT ![c] = job'[c]]
         /\ job'[c] \in Jobs /\ Fits(log', status', c, job'[c]) /\ job'[c].at = i
         /\ job'[c].pc \in {"apply", "ack"}
         /\ c # "returned" => job'[c].pc = "apply"
         /\ c = "returned" => Moves(log, i, 0, job'[c])
         /\ UNCHANGED <<log, keyVars, faults>>
<1>1. /\ log \in Seq(Fact) /\ Len(log) \in Nat /\ job \in [Consumers -> Jobs]
      /\ status \in [1..Len(log) -> Statuses] /\ tries \in [1..Len(log) -> Nat]
  BY DEF TypeOK, Jobs, Statuses
<1>. DEFINE j == [at |-> i, cur |-> i, pc |-> "apply", seen |-> {}]
            k == IF log[i].kind = "returned" THEN Past([j EXCEPT !.cur = 0]) ELSE j
<1>2. /\ job[c] = Idle /\ Consumer(log[i]) = c /\ status[i] \in {"late", "new"}
      /\ status' = [status EXCEPT ![i] = "held"] /\ tries' = [tries EXCEPT ![i] = @ + 1]
      /\ job' = [job EXCEPT ![c] = k] /\ UNCHANGED <<log, keyVars, faults>>
  BY DEF Take
<1>3. log[i] \in Fact /\ (c = "returned" <=> log[i].kind = "returned")
  BY <1>1, <1>2, ConsumerOf
<1>4. k \in Jobs /\ Fits(log', status', c, k) /\ k.at = i /\ k.pc \in {"apply", "ack"}
      /\ (c # "returned" => k.pc = "apply")
  <2>0. log' = log /\ status'[i] = "held"
    BY <1>1, <1>2
  <2>1. CASE c # "returned"
    <3>1. k = j
      BY <1>3, <2>1
    <3>2. j \in Jobs
      BY <1>1 DEF Jobs
    <3>. QED  BY <1>2, <1>3, <2>0, <2>1, <3>1, <3>2 DEF Fits
  <2>2. CASE c = "returned"
    <3>. DEFINE h == [j EXCEPT !.cur = 0]
    <3>1. k = Past(h)
      BY <1>3, <2>2
    <3>0. i \in 0..Len(log) /\ 0 \in 0..Len(log)
      BY <1>1
    <3>2. h \in Jobs /\ h.at = i /\ h.cur = 0 /\ h.seen = {}
      <4>1. j \in Jobs /\ j.at = i /\ j.seen = {}
        BY <3>0 DEF Jobs
      <4>. HIDE DEF j
      <4>. QED  BY <3>0, <4>1 DEF Jobs
    <3>. HIDE DEF h, k
    <3>3. CASE Past(h) = [h EXCEPT !.pc = "ack"]
      BY <1>2, <2>0, <2>2, <3>1, <3>2, <3>3 DEF Jobs, Fits
    <3>4. CASE \E m \in (h.cur + 1)..(h.at - 1) :
                 /\ Past(h) = [h EXCEPT !.pc = "apply", !.cur = m]
                 /\ log[m].kind \notin Lifecycle
      <4>1. PICK m \in (h.cur + 1)..(h.at - 1) :
                 /\ Past(h) = [h EXCEPT !.pc = "apply", !.cur = m]
                 /\ log[m].kind \notin Lifecycle
        BY <3>4
      <4>2. m \in 1..(i - 1) /\ m \in 0..Len(log)
        BY <1>1, <3>2, <4>1
      <4>3. log[m].kind # "returned"
        BY <4>1 DEF Lifecycle
      <4>. QED  BY <1>2, <2>0, <2>2, <3>1, <3>2, <4>1, <4>2, <4>3 DEF Jobs, Fits
    <3>. QED  BY <1>1, <3>2, <3>3, <3>4, PastEffect
  <2>. QED  BY <2>1, <2>2
<1>5. c = "returned" => Moves(log, i, 0, k)
  <2>. SUFFICES ASSUME c = "returned" PROVE Moves(log, i, 0, k)
    OBVIOUS
  <2>. DEFINE h == [j EXCEPT !.cur = 0]
  <2>1. k = Past(h)
    BY <1>3
  <2>2. i \in 0..Len(log) /\ 0 \in 0..Len(log)
    BY <1>1
  <2>3. h \in Jobs /\ h.at = i /\ h.cur = 0
    <3>1. j \in Jobs /\ j.at = i
      BY <2>2 DEF Jobs
    <3>. HIDE DEF j
    <3>. QED  BY <2>2, <3>1 DEF Jobs
  <2>. HIDE DEF h, k
  <2>4. Moves(log, h.at, h.cur, Past(h))
    BY <1>1, <2>3, PastMoves
  <2>. QED  BY <2>1, <2>3, <2>4
<1>. HIDE DEF k
<1>6. job'[c] = k
  BY <1>1, <1>2
<1>. QED  BY <1>1, <1>2, <1>4, <1>5, <1>6

\* An idle consumer takes an event that was not out for delivery.
LEMMA TakeTyped ==
  ASSUME TypeOK, JobInv, calm' = calm, NEW c \in Consumers, NEW i \in 1..Len(log),
         Take(c, i)
  PROVE  TypeOK' /\ JobInv'
<1>1. /\ job[c] = Idle /\ status[i] \in {"late", "new"}
      /\ status' = [status EXCEPT ![i] = "held"]
      /\ tries' \in [1..Len(log) -> Nat] /\ job' = [job EXCEPT ![c] = job'[c]]
      /\ job'[c] \in Jobs /\ Fits(log', status', c, job'[c]) /\ job'[c].at = i
      /\ log' = log /\ UNCHANGED <<keyVars, faults>>
  BY TakeEffect
<1>2. /\ job \in [Consumers -> Jobs] /\ status \in [1..Len(log) -> Statuses]
  BY DEF TypeOK, Jobs, Statuses
<1>3. job' \in [Consumers -> Jobs] /\ \A d \in Consumers \ {c} : job'[d] = job[d]
  BY <1>1, <1>2
<1>4. status' \in [1..Len(log) -> Statuses]
  BY <1>1, <1>2 DEF Statuses
<1>5. TypeOK'
  BY <1>1, <1>3, <1>4 DEF TypeOK, Jobs, Statuses, keyVars
<1>6. ASSUME NEW d \in Consumers \ {c}, job[d] # Idle PROVE Fits(log', status', d, job[d])
  <2>1. Fits(log, status, d, job[d])
    BY <1>6 DEF JobInv
  <2>2. status'[job[d].at] = "held"
    BY <1>1, <1>2, <2>1 DEF Fits
  <2>. QED  BY <1>1, <2>1, <2>2 DEF Fits
<1>7. ASSUME NEW m \in 1..Len(log), status'[m] = "held"
      PROVE  \E d \in Consumers : job'[d].at = m
  <2>1. CASE m = i
    BY <1>1, <2>1
  <2>2. CASE m # i
    <3>1. status[m] = "held"
      BY <1>1, <1>2, <1>7, <2>2
    <3>2. PICK d \in Consumers : job[d].at = m
      BY <3>1 DEF JobInv
    <3>3. d # c
      BY <1>1, <3>2 DEF Idle
    <3>. QED  BY <1>3, <3>2, <3>3
  <2>. QED  BY <2>1, <2>2
<1>. QED  BY <1>1, <1>3, <1>5, <1>6, <1>7 DEF JobInv

\* A consumer that lets go of its event is idle; the others go on.
LEMMA ReleaseTyped ==
  ASSUME TypeOK, JobInv, calm' = calm, NEW c \in Consumers, job[c] # Idle,
         NEW how \in {"late", "done", "dead"}, Release(c, how), faults' \in 0..MaxFaults
  PROVE  TypeOK' /\ JobInv'
<1>1. /\ status' = [status EXCEPT ![job[c].at] = how]
      /\ job' = [job EXCEPT ![c] = Idle] /\ log' = log /\ tries' = tries
      /\ UNCHANGED keyVars
  BY DEF Release
<1>2. /\ job \in [Consumers -> Jobs] /\ status \in [1..Len(log) -> Statuses]
      /\ Fits(log, status, c, job[c])
  BY DEF TypeOK, Jobs, Statuses, JobInv
<1>3. job' \in [Consumers -> Jobs] /\ \A d \in Consumers \ {c} : job'[d] = job[d]
  <2>1. Idle \in Jobs
    BY DEF Idle, Jobs, TypeOK
  <2>. QED  BY <1>1, <1>2, <2>1
<1>4. status' \in [1..Len(log) -> Statuses] /\ status'[job[c].at] = how
  BY <1>1, <1>2 DEF Statuses, Fits
<1>5. TypeOK'
  BY <1>1, <1>3, <1>4 DEF TypeOK, Jobs, Statuses, keyVars
<1>6. ASSUME NEW d \in Consumers \ {c}, job[d] # Idle PROVE Fits(log', status', d, job[d])
  <2>1. Fits(log, status, d, job[d])
    BY <1>6 DEF JobInv
  <2>2. job[d].at # job[c].at
    BY <1>2, <2>1 DEF Fits
  <2>3. status'[job[d].at] = "held"
    BY <1>1, <1>2, <2>1, <2>2 DEF Fits
  <2>. QED  BY <1>1, <2>1, <2>3 DEF Fits
<1>7. ASSUME NEW m \in 1..Len(log), status'[m] = "held"
      PROVE  \E d \in Consumers : job'[d].at = m
  <2>1. m # job[c].at
    BY <1>4, <1>7
  <2>2. status[m] = "held"
    BY <1>1, <1>2, <1>7, <2>1
  <2>3. PICK d \in Consumers : job[d].at = m
    BY <2>2 DEF JobInv
  <2>. QED  BY <1>3, <2>1, <2>3
<1>8. job'[c] = Idle
  BY <1>1, <1>2
<1>. QED  BY <1>1, <1>3, <1>5, <1>6, <1>7, <1>8 DEF JobInv

\* A crash leaves nothing out for delivery.
LEMMA CrashTyped ==
  ASSUME TypeOK, JobInv, calm' = calm, Crash
  PROVE  TypeOK' /\ JobInv'
<1>1. /\ faults \in Nat /\ faults' = faults + 1 /\ faults < MaxFaults
      /\ job' = [c \in Consumers |-> Idle]
      /\ status' = [i \in 1..Len(log) |-> IF status[i] = "held" THEN "late" ELSE status[i]]
      /\ log' = log /\ tries' = tries /\ UNCHANGED keyVars
  BY ProjectionAssumption DEF Crash, Fault, TypeOK
<1>2. Idle \in Jobs /\ status \in [1..Len(log) -> Statuses]
  BY DEF Idle, Jobs, TypeOK, Statuses
<1>3. status' \in [1..Len(log) -> Statuses] /\ \A i \in 1..Len(log) : status'[i] # "held"
  BY <1>1, <1>2 DEF Statuses
<1>4. job' \in [Consumers -> Jobs] /\ \A c \in Consumers : job'[c] = Idle
  BY <1>1, <1>2
<1>5. faults' \in 0..MaxFaults
  BY <1>1, ProjectionAssumption
<1>6. TypeOK'
  BY <1>1, <1>3, <1>4, <1>5 DEF TypeOK, Jobs, Statuses, keyVars
<1>. QED  BY <1>1, <1>3, <1>4, <1>6 DEF JobInv

\* The ways a step can go.
LEMMA Steps ==
  ASSUME TypeOK, JobInv, [Next]_vars
  PROVE  /\ calm' = calm
         /\ \/ \E fact \in Fact : Publish(fact)
            \/ \E c \in Consumers, i \in 1..Len(log) : Take(c, i)
            \/ \E c \in Consumers : Work(c)
            \/ \E c \in Consumers : job[c].pc = "ack" /\ job[c] # Idle
                 /\ Release(c, "done") /\ faults' = faults
            \/ \E c \in Consumers, how \in {"late", "dead"} :
                 job[c] # Idle /\ Release(c, how) /\ Fault
            \/ Crash
            \/ UNCHANGED vars
<1>1. CASE UNCHANGED vars
  BY <1>1 DEF vars
<1>2. CASE Next
  <2>1. ASSUME NEW c \in Consumers, Handle(c)
        PROVE  \/ \E i \in 1..Len(log) : Take(c, i)
               \/ Work(c)
               \/ job[c].pc = "ack" /\ job[c] # Idle
                    /\ Release(c, "done") /\ faults' = faults
    BY <2>1 DEF Handle, Work, Ack, Idle
  <2>2. ASSUME NEW c \in Consumers, Fails(c)
        PROVE  \E how \in {"late", "dead"} : job[c] # Idle /\ Release(c, how) /\ Fault
    <3>1. /\ job[c] # Idle /\ Fault
          /\ Release(c, IF tries[job[c].at] >= MaxDeliver THEN "dead" ELSE "late")
      BY <2>2 DEF Fails
    <3>2. CASE tries[job[c].at] >= MaxDeliver
      BY <3>1, <3>2
    <3>3. CASE ~(tries[job[c].at] >= MaxDeliver)
      BY <3>1, <3>3
    <3>. QED  BY <3>2, <3>3
  <2>. QED  BY <1>2, <2>1, <2>2 DEF Next
<1>. QED  BY <1>1, <1>2

\* Every step keeps types and jobs.
LEMMA StepTyped == TypeOK /\ JobInv /\ [Next]_vars => TypeOK' /\ JobInv'
<1>. SUFFICES ASSUME TypeOK, JobInv, [Next]_vars PROVE TypeOK' /\ JobInv'
  OBVIOUS
<1>0. calm' = calm /\ faults \in 0..MaxFaults /\ MaxFaults \in Nat
  BY Steps, ProjectionAssumption DEF TypeOK
<1>1. CASE \E fact \in Fact : Publish(fact)
  BY <1>0, <1>1, PublishTyped
<1>2. CASE \E c \in Consumers, i \in 1..Len(log) : Take(c, i)
  BY <1>0, <1>2, TakeTyped
<1>3. CASE \E c \in Consumers : Work(c)
  BY <1>0, <1>3, WorkTyped
<1>4. CASE \E c \in Consumers : job[c].pc = "ack" /\ job[c] # Idle
             /\ Release(c, "done") /\ faults' = faults
  BY <1>0, <1>4, ReleaseTyped
<1>5. CASE \E c \in Consumers, how \in {"late", "dead"} :
             job[c] # Idle /\ Release(c, how) /\ Fault
  <2>1. PICK c \in Consumers, how \in {"late", "dead"} :
          job[c] # Idle /\ Release(c, how) /\ Fault
    BY <1>5
  <2>2. faults' \in 0..MaxFaults
    BY <1>0, <2>1 DEF Fault
  <2>. QED  BY <1>0, <2>1, <2>2, ReleaseTyped
<1>6. CASE Crash
  BY <1>0, <1>6, CrashTyped
<1>7. CASE UNCHANGED vars
  BY <1>7 DEF vars, queueVars, keyVars, TypeOK, JobInv, Fits
<1>. QED  BY <1>1, <1>2, <1>3, <1>4, <1>5, <1>6, <1>7, Steps

\* An empty log and idle consumers.
LEMMA InitTyped == Init => TypeOK /\ JobInv
<1>. SUFFICES ASSUME Init PROVE TypeOK /\ JobInv
  OBVIOUS
<1>1. /\ log = <<>> /\ Len(log) = 0 /\ status = <<>> /\ tries = <<>> /\ faults = 0
      /\ job = [c \in Consumers |-> Idle] /\ calm \in BOOLEAN
      /\ followers = {} /\ refused = {} /\ entries = {}
  BY DEF Init
<1>2. 1..Len(log) = {} /\ 0..Len(log) = {0}
  BY <1>1
<1>3. <<>> \in [1..0 -> Statuses] /\ <<>> \in [1..0 -> Nat] /\ <<>> \in Seq(Fact)
  OBVIOUS
<1>4. TypeOK
  BY <1>1, <1>2, <1>3, ProjectionAssumption DEF TypeOK, Idle, Statuses
<1>. QED  BY <1>1, <1>2, <1>4 DEF JobInv

\* However deliveries, failures and crashes fall, an event is out for delivery
\* exactly while its consumer works on it, and a consumer applies nothing but the
\* event it took or, of a return, its past (redis_projector.py).
THEOREM ProjectorInvariant == Spec => []ProjectorInv
<1>1. Spec => [](TypeOK /\ JobInv)
  BY InitTyped, StepTyped, PTL DEF Spec
<1>. QED  BY <1>1, ProjectorInvFromJobs, PTL

-----------------------------------------------------------------------------
(* The log.                                                                 *)

\* Whoever declared anything has a last declaration, and a return follows a
\* retirement and nothing else does, at every point of the log.
LogInv ==
  /\ \A k \in 0..Len(log) : DecidedAt(log, k)
  /\ \A k \in 1..Len(log) : log[k].kind = "returned" <=> RetiredAt(log, k - 1)

\* A longer log is in order where the log was, and one further.
LEMMA LogStep == TypeOK /\ JobInv /\ LogInv /\ [Next]_vars => LogInv'
<1>. SUFFICES ASSUME TypeOK, JobInv, LogInv, [Next]_vars PROVE LogInv'
  OBVIOUS
<1>1. CASE log' = log
  BY <1>1 DEF LogInv
<1>2. ASSUME NEW fact \in Fact, Publish(fact) PROVE LogInv'
  <2>. DEFINE n == Len(log)
  <2>1. /\ log \in Seq(Fact) /\ log' \in Seq(Fact) /\ n \in Nat /\ Len(log') = n + 1
        /\ log' = Append(log, fact)
        /\ log'[n + 1] = fact /\ \A i \in 1..n : log'[i] = log[i]
    BY <1>2, PublishEffect DEF TypeOK
  <2>2. ASSUME NEW k \in 0..n PROVE DecidedAt(log', k)
    <3>1. \A p \in Players, kind \in Declaration :
            LastSays(log', k, kind, p) <=> LastSays(log, k, kind, p)
      BY <2>1, PrefixLast
    <3>2. \A p \in Players : Declared(log', k, p) <=> Declared(log, k, p)
      BY <2>1, PrefixFollows
    <3>3. DecidedAt(log, k)
      BY DEF LogInv
    <3>. QED  BY <3>1, <3>2, <3>3 DEF DecidedAt, Declaration
  <2>3. DecidedAt(log', n + 1)
    <3>1. n \in 0..(Len(log') - 1) /\ DecidedAt(log', n)
      BY <2>1, <2>2
    <3>. QED  BY <2>1, <3>1, DecidedAfter
  <2>4. ASSUME NEW k \in 0..n PROVE RetiredAt(log', k) <=> RetiredAt(log, k)
    BY <2>1, PrefixRetired
  <2>5. \A k \in 1..n : log'[k].kind = "returned" <=> RetiredAt(log', k - 1)
    BY <2>1, <2>4 DEF LogInv
  <2>6. log'[n + 1].kind = "returned" <=> RetiredAt(log', n)
    <3>1. fact.kind = "returned" <=> RetiredAt(log, n)
      BY <1>2 DEF Publish, MayFollow
    <3>. QED  BY <2>1, <2>4, <3>1
  <2>7. /\ \A k \in 0..Len(log') : k \in 0..n \/ k = n + 1
        /\ \A k \in 1..Len(log') : k \in 1..n \/ k = n + 1
        /\ (n + 1) - 1 = n
    BY <2>1
  <2>. QED  BY <2>2, <2>3, <2>5, <2>6, <2>7 DEF LogInv
<1>3. log' = log \/ \E fact \in Fact : Publish(fact)
  BY Steps, WorkJob DEF Take, queueVars, Release, Crash, vars
<1>. QED  BY <1>1, <1>2, <1>3

-----------------------------------------------------------------------------
(* Order.                                                                   *)

\* Without faults each consumer goes through its events one after the other.
InTurn ==
  faults = 0 =>
    /\ \A i \in 1..Len(log) : status[i] \in {"new", "held", "done"}
    /\ \A i, k \in 1..Len(log) :
         i < k /\ Consumer(log[i]) = Consumer(log[k]) /\ status[k] # "new"
           => status[i] = "done"

\* A consumer has nothing in hand when it takes its first new event.
LEMMA InTurnStep == TypeOK /\ JobInv /\ InTurn /\ [Next]_vars => InTurn'
<1>. SUFFICES ASSUME TypeOK, JobInv, InTurn, [Next]_vars, faults' = 0 PROVE InTurn'
  BY DEF InTurn
<1>0. /\ log \in Seq(Fact) /\ Len(log) \in Nat /\ faults \in Nat
      /\ status \in [1..Len(log) -> Statuses]
  BY ProjectionAssumption DEF TypeOK, Statuses
<1>1. ASSUME NEW fact \in Fact, Publish(fact) PROVE InTurn'
  <2>. DEFINE n == Len(log)
  <2>1. /\ n \in Nat /\ Len(log') = n + 1 /\ \A i \in 1..n : log'[i] = log[i]
        /\ status'[n + 1] = "new" /\ \A i \in 1..n : status'[i] = status[i]
        /\ faults = 0
    BY <1>1, PublishEffect
  <2>2. \A i \in 1..Len(log') : i \in 1..n \/ i = n + 1
    BY <2>1
  <2>3. \A i \in 1..n : status[i] \in {"new", "held", "done"}
    BY <2>1 DEF InTurn
  <2>4. \A i, k \in 1..n :
          i < k /\ Consumer(log[i]) = Consumer(log[k]) /\ status[k] # "new"
            => status[i] = "done"
    BY <2>1 DEF InTurn
  <2>. HIDE DEF n
  <2>5. \A i \in 1..Len(log') : status'[i] \in {"new", "held", "done"}
    BY <2>1, <2>2, <2>3
  <2>6. ASSUME NEW i \in 1..Len(log'), NEW k \in 1..Len(log'), i < k,
               Consumer(log'[i]) = Consumer(log'[k]), status'[k] # "new"
        PROVE  status'[i] = "done"
    <3>1. k \in 1..n /\ i \in 1..n
      BY <2>1, <2>2, <2>6
    <3>. QED  BY <2>1, <2>4, <2>6, <3>1
  <2>. QED  BY <2>5, <2>6 DEF InTurn
<1>2. ASSUME NEW c \in Consumers, NEW i \in 1..Len(log), Take(c, i) PROVE InTurn'
  <2>1. /\ job[c] = Idle /\ Consumer(log[i]) = c /\ faults = 0 /\ log' = log
        /\ status' = [status EXCEPT ![i] = "held"]
    BY <1>2, TakeEffect
  <2>2. \A k \in 1..Len(log) : status[k] \in {"new", "held", "done"}
    BY <2>1 DEF InTurn
  <2>3. \A h, k \in 1..Len(log) :
          h < k /\ Consumer(log[h]) = Consumer(log[k]) /\ status[k] # "new"
            => status[h] = "done"
    BY <2>1 DEF InTurn
  <2>4. status[i] = "new" /\ \A k \in 1..(i - 1) : Consumer(log[k]) = c => status[k] # "new"
    BY <1>2, <2>2 DEF Take
  <2>5. \A k \in 1..Len(log) : Consumer(log[k]) = c => status[k] # "held"
    <3>. SUFFICES ASSUME NEW k \in 1..Len(log), Consumer(log[k]) = c, status[k] = "held"
                  PROVE  FALSE
      OBVIOUS
    <3>1. PICK d \in Consumers : job[d].at = k
      BY DEF JobInv
    <3>2. job[d] # Idle
      BY <3>1 DEF Idle
    <3>3. Consumer(log[k]) = d
      BY <3>1, <3>2 DEF JobInv, Fits
    <3>. QED  BY <2>1, <3>2, <3>3
  <2>6. \A k \in 1..(i - 1) : Consumer(log[k]) = c => status[k] = "done"
    BY <1>0, <2>2, <2>4, <2>5
  <2>7. \A k \in 1..Len(log) : status'[k] = IF k = i THEN "held" ELSE status[k]
    BY <1>0, <2>1
  <2>8. ASSUME NEW h \in 1..Len(log), NEW k \in 1..Len(log), h < k,
               Consumer(log[h]) = Consumer(log[k]), status'[k] # "new"
        PROVE  status'[h] = "done"
    <3>1. CASE k = i
      <4>1. h \in 1..(i - 1) /\ Consumer(log[h]) = c
        BY <1>0, <2>1, <2>8, <3>1
      <4>. QED  BY <2>6, <2>7, <2>8, <3>1, <4>1
    <3>2. CASE k # i
      <4>1. status[k] # "new"
        BY <2>7, <2>8, <3>2
      <4>2. status[h] = "done"
        BY <2>3, <2>8, <4>1
      <4>. QED  BY <2>4, <2>7, <4>2
    <3>. QED  BY <3>1, <3>2
  <2>. QED  BY <2>1, <2>2, <2>7, <2>8 DEF InTurn
<1>3. ASSUME NEW c \in Consumers, job[c] # Idle, Release(c, "done"), faults' = faults
      PROVE  InTurn'
  <2>1. job[c].at \in 1..Len(log) /\ status[job[c].at] = "held"
    BY <1>3 DEF JobInv, Fits
  <2>2. log' = log /\ status' = [status EXCEPT ![job[c].at] = "done"]
    BY <1>3 DEF Release
  <2>3. \A k \in 1..Len(log) : status'[k] = IF k = job[c].at THEN "done" ELSE status[k]
    BY <1>0, <2>1, <2>2
  <2>. QED  BY <1>3, <2>1, <2>2, <2>3 DEF InTurn
<1>4. CASE log' = log /\ status' = status /\ faults' = faults
  BY <1>4 DEF InTurn
<1>5. ~Fault
  BY <1>0 DEF Fault
<1>6. (\E c \in Consumers : Work(c)) \/ UNCHANGED vars =>
        log' = log /\ status' = status /\ faults' = faults
  BY WorkJob DEF queueVars, vars
<1>. QED  BY <1>1, <1>2, <1>3, <1>4, <1>5, <1>6, Steps DEF Crash

-----------------------------------------------------------------------------
(* What has been applied.                                                   *)

\* i is applied: what remains is its acknowledgement.
Through(i) ==
  \/ status[i] = "done"
  \/ \E c \in Consumers : job[c].at = i /\ job[c].pc = "ack"

\* At work means not yet through.
LEMMA NotThrough ==
  ASSUME TypeOK, JobInv, NEW c \in Consumers, job[c] # Idle, job[c].pc # "ack"
  PROVE  ~Through(job[c].at)
<1>1. Fits(log, status, c, job[c])
  BY DEF JobInv
<1>2. \A d \in Consumers : job[d].at = job[c].at => d = c
  <2>. SUFFICES ASSUME NEW d \in Consumers, job[d].at = job[c].at PROVE d = c
    OBVIOUS
  <2>1. job[d] # Idle
    BY <1>1 DEF Fits, Idle
  <2>. QED  BY <1>1, <2>1 DEF JobInv, Fits
<1>. QED  BY <1>1, <1>2 DEF Through, Fits

\* A step of a handler can only bring its own event through.
LEMMA WorkThrough ==
  ASSUME TypeOK, JobInv, NEW c \in Consumers, Work(c)
  PROVE  /\ ~Through(job[c].at)
         /\ Through(job[c].at)' => job'[c].pc = "ack"
         /\ \A i \in 1..Len(log) \ {job[c].at} : Through(i)' <=> Through(i)
<1>1. /\ job[c] # Idle /\ job' = [job EXCEPT ![c] = job'[c]]
      /\ job'[c].at = job[c].at /\ status' = status
  BY WorkJob DEF queueVars
<1>2. job[c].pc # "ack"
  BY DEF Work, CheckRefused, AddFollower, PushPrivate, SetFollow, ReadFollowers,
         FanOut, DropIndex, Sweep, At
<1>3. ~Through(job[c].at)
  BY <1>1, <1>2, NotThrough
<1>4. job \in [Consumers -> Jobs]
  BY DEF TypeOK, Jobs
<1>5. \A d \in Consumers \ {c} : job'[d] = job[d]
  BY <1>1, <1>4
<1>6. \A d \in Consumers : job'[d].at = job[d].at
  BY <1>1, <1>5
<1>. QED  BY <1>1, <1>3, <1>5, <1>6 DEF Through

\* No other step brings an event other than a return through, and without faults
\* none undoes it.
LEMMA ThroughStep ==
  ASSUME TypeOK, JobInv, [Next]_vars, \A c \in Consumers : ~Work(c)
  PROVE  /\ log' \in Seq(Fact) /\ Len(log) \in 0..Len(log')
         /\ \A i \in 1..Len(log) : log'[i] = log[i]
         /\ UNCHANGED keyVars
         /\ \A i \in 1..Len(log') : Through(i)' /\ log'[i].kind # "returned"
              => i \in 1..Len(log) /\ Through(i)
         /\ faults' = 0 => \A i \in 1..Len(log) : Through(i) => Through(i)'
         /\ \A c \in Consumers : job'[c].pc \notin {"apply", "ack", "idle"} => job'[c] = job[c]
         /\ faults' = 0 => faults = 0
<1>0. /\ log \in Seq(Fact) /\ Len(log) \in Nat /\ job \in [Consumers -> Jobs]
      /\ status \in [1..Len(log) -> Statuses] /\ faults \in Nat
  BY ProjectionAssumption DEF TypeOK, Statuses, Jobs
<1>1. CASE \E fact \in Fact : Publish(fact)
  <2>1. PICK fact \in Fact : Publish(fact)
    BY <1>1
  <2>2. /\ log' \in Seq(Fact) /\ Len(log') = Len(log) + 1
        /\ \A i \in 1..Len(log) : log'[i] = log[i]
        /\ status'[Len(log) + 1] = "new"
        /\ \A i \in 1..Len(log) : status'[i] = status[i]
        /\ UNCHANGED <<job, keyVars, faults>>
    BY <2>1, PublishEffect
  <2>3. \A c \in Consumers : job[c].at # Len(log) + 1
    BY <1>0 DEF Jobs
  <2>4. PICK n : n = Len(log) + 1
    OBVIOUS
  <2>7. ~Through(n)'
    BY <2>2, <2>3, <2>4 DEF Through
  <2>5. \A i \in 1..Len(log) : Through(i)' <=> Through(i)
    BY <2>2 DEF Through
  <2>6. \A i \in 1..Len(log') : i \in 1..Len(log) \/ i = n
    BY <1>0, <2>2, <2>4
  <2>. QED  BY <1>0, <2>2, <2>5, <2>6, <2>7
<1>2. CASE \E c \in Consumers, i \in 1..Len(log) : Take(c, i)
  <2>1. PICK c \in Consumers, i \in 1..Len(log) : Take(c, i)
    BY <1>2
  <2>2. /\ job[c] = Idle /\ Consumer(log[i]) = c /\ status[i] \in {"late", "new"}
        /\ status' = [status EXCEPT ![i] = "held"]
        /\ job' = [job EXCEPT ![c] = job'[c]] /\ job'[c].at = i
        /\ job'[c].pc \in {"apply", "ack"} /\ (c # "returned" => job'[c].pc = "apply")
        /\ log' = log /\ UNCHANGED <<keyVars, faults>>
    BY <2>1, TakeEffect
  <2>3. \A d \in Consumers \ {c} : job'[d] = job[d]
    BY <1>0, <2>2
  <2>4. c = "returned" <=> log[i].kind = "returned"
    BY <1>0, <2>2, ConsumerOf
  <2>5. \A k \in 1..Len(log) \ {i} : status'[k] = status[k]
    BY <1>0, <2>2
  <2>6. \A d \in Consumers : job[d].at # i
    <3>. SUFFICES ASSUME NEW d \in Consumers, job[d].at = i PROVE FALSE
      OBVIOUS
    <3>1. job[d] # Idle
      BY DEF Idle
    <3>2. status[i] = "held"
      BY <3>1 DEF JobInv, Fits
    <3>. QED  BY <2>2, <3>2
  <2>7. ~Through(i) /\ (log[i].kind # "returned" => ~Through(i)')
    <3>1. \A d \in Consumers : job'[d].at = i => d = c
      BY <2>3, <2>6
    <3>2. status'[i] = "held"
      BY <1>0, <2>2
    <3>. QED  BY <2>2, <2>4, <2>6, <3>1, <3>2 DEF Through
  <2>8. \A k \in 1..Len(log) \ {i} : Through(k)' <=> Through(k)
    <3>1. \A k \in 1..Len(log) \ {i} : job[c].at # k /\ job'[c].at # k
      BY <2>2 DEF Idle
    <3>. QED  BY <2>3, <2>5, <3>1 DEF Through
  <2>. QED  BY <1>0, <2>2, <2>3, <2>7, <2>8
<1>3. CASE \E c \in Consumers, how \in {"late", "dead", "done"} :
             /\ job[c] # Idle /\ Release(c, how)
             /\ \/ how = "done" /\ job[c].pc = "ack" /\ faults' = faults
                \/ how # "done" /\ Fault
  <2>1. PICK c \in Consumers, how \in {"late", "dead", "done"} :
             /\ job[c] # Idle /\ Release(c, how)
             /\ \/ how = "done" /\ job[c].pc = "ack" /\ faults' = faults
                \/ how # "done" /\ Fault
    BY <1>3
  <2>11. PICK i : i = job[c].at
    OBVIOUS
  <2>2. /\ log' = log /\ UNCHANGED keyVars /\ job' = [job EXCEPT ![c] = Idle]
        /\ status' = [status EXCEPT ![i] = how] /\ i \in 1..Len(log) /\ status[i] = "held"
    BY <2>1, <2>11 DEF Release, JobInv, Fits
  <2>3. /\ \A d \in Consumers \ {c} : job'[d] = job[d]
        /\ job'[c] = Idle
        /\ \A k \in 1..Len(log) \ {i} : status'[k] = status[k]
        /\ status'[i] = how
    BY <1>0, <2>2
  <2>4. \A d \in Consumers \ {c} : job[d].at # i
    <3>. SUFFICES ASSUME NEW d \in Consumers \ {c}, job[d].at = i PROVE FALSE
      OBVIOUS
    <3>1. job[d] # Idle
      BY <2>2 DEF Idle
    <3>. QED  BY <2>1, <2>11, <3>1 DEF JobInv, Fits
  <2>5. \A k \in 1..Len(log) \ {i} : Through(k)' <=> Through(k)
    <3>1. \A k \in 1..Len(log) \ {i} : job[c].at # k /\ job'[c].at # k
      BY <2>3, <2>11 DEF Idle
    <3>. QED  BY <2>3, <3>1 DEF Through
  <2>6. how = "done" => Through(i)
    BY <2>1, <2>11 DEF Through
  <2>7. how # "done" => ~Through(i)'
    <3>1. \A d \in Consumers : job'[d].at # i
      BY <2>2, <2>3, <2>4 DEF Idle
    <3>. QED  BY <2>3, <3>1 DEF Through
  <2>8. how = "done" => Through(i)'
    BY <2>3 DEF Through
  <2>9. faults' = 0 => how = "done" /\ faults = 0
    BY <1>0, <2>1 DEF Fault
  <2>10. \A d \in Consumers : job'[d].pc # "idle" => job'[d] = job[d]
    BY <2>3 DEF Idle
  <2>. QED  BY <1>0, <2>2, <2>5, <2>6, <2>7, <2>8, <2>9, <2>10
<1>4. CASE Crash
  <2>1. /\ log' = log /\ UNCHANGED keyVars /\ job' = [c \in Consumers |-> Idle]
        /\ faults' = faults + 1
        /\ status' = [i \in 1..Len(log) |-> IF status[i] = "held" THEN "late" ELSE status[i]]
    BY <1>4 DEF Crash, Fault
  <2>2. \A i \in 1..Len(log) : Through(i)' => Through(i)
    BY <2>1 DEF Through, Idle
  <2>. QED  BY <1>0, <2>1, <2>2 DEF Idle
<1>5. CASE UNCHANGED vars
  BY <1>0, <1>5 DEF vars, queueVars, keyVars, Through
<1>. QED  BY <1>1, <1>2, <1>3, <1>4, <1>5, Steps

-----------------------------------------------------------------------------
(* An actor that never retired.                                             *)

\* What a step of a handler does to the keys while the actor lives: each step is
\* for the event i that the consumer took, and its player p.
LEMMA LivesWork ==
  ASSUME TypeOK, JobInv, Lives, NEW c \in Consumers, Work(c),
         NEW i, i = job[c].at, NEW p, p = log[i].player
  PROVE  /\ i \in 1..Len(log) /\ Consumer(log[i]) = c /\ status[i] = "held"
         /\ \/ /\ log[i].kind = "rel" /\ p \in Players /\ job[c].pc = "apply"
               /\ job'[c].pc = IF p \in refused THEN "receipt" ELSE "add"
               /\ UNCHANGED keyVars
            \/ /\ log[i].kind = "rel" /\ p \in Players /\ job[c].pc = "add"
               /\ job'[c].pc = "receipt"
               /\ followers' = followers \cup {p} /\ UNCHANGED <<refused, entries>>
            \/ /\ log[i].kind = "rel" /\ p \in Players /\ job[c].pc = "receipt"
               /\ job'[c].pc = "ack"
               /\ entries' = entries \cup {<<p, i>>} /\ UNCHANGED <<followers, refused>>
            \/ /\ log[i].kind = "reply" /\ p \in Players
               /\ job'[c].pc = "ack"
               /\ entries' = entries \cup {<<p, i>>} /\ UNCHANGED <<followers, refused>>
            \/ /\ log[i].kind = "follow" /\ p \in Players
               /\ job'[c].pc = "ack"
               /\ followers' = followers \cup {p} /\ refused' = refused \ {p}
               /\ UNCHANGED entries
            \/ /\ log[i].kind = "unfollow" /\ p \in Players
               /\ job'[c].pc = "ack"
               /\ followers' = followers \ {p} /\ refused' = refused \cup {p}
               /\ UNCHANGED entries
            \/ /\ log[i].kind = "post" /\ p \notin Players
               /\ entries \subseteq entries' /\ UNCHANGED <<followers, refused>>
<1>. DEFINE j == job[c]
<1>1. /\ job[c] # Idle /\ job \in [Consumers -> Jobs] /\ job[c] \in Jobs
      /\ Fits(log, status, c, job[c])
  BY WorkJob DEF TypeOK, JobInv, Jobs
<1>2. /\ i \in 1..Len(log) /\ log[i] \in Fact /\ Consumer(log[i]) = c /\ status[i] = "held"
      /\ log[i].kind \notin Lifecycle
  BY <1>1 DEF Fits, Lives, TypeOK
<1>3. c # "returned"
  BY <1>2, ConsumerOf DEF Lifecycle
<1>4. job[c].pc # "ack"
  BY DEF Work, CheckRefused, AddFollower, PushPrivate, SetFollow, ReadFollowers,
         FanOut, DropIndex, Sweep, At
<1>5. job[c].cur = i /\ Who(c) = p
  BY <1>1, <1>3, <1>4 DEF Fits, Who
<1>6. \A pc, kinds : At(c, pc, kinds) => job[c].pc = pc /\ log[i].kind \in kinds
  BY <1>5 DEF At
<1>7. \A pc : Goto(c, pc) => job'[c].pc = pc
  BY <1>1 DEF Goto, Jobs
<1>8. Done(c) => job'[c].pc = "ack"
  <2>. DEFINE k == [j EXCEPT !.seen = {}]
  <2>1. k \in Jobs /\ k.at = i
    BY <1>1 DEF Jobs
  <2>. HIDE DEF k
  <2>2. Applied(k).pc = "ack"
    BY <1>2, <1>3, <2>1, AppliedFits DEF TypeOK
  <2>3. Done(c) => job' = [job EXCEPT ![c] = Applied(k)]
    BY DEF Done, k
  <2>. QED  BY <1>1, <2>2, <2>3
<1>9. /\ log[i].kind \in Personal => p \in Players
      /\ log[i].kind = "post" => p \notin Players
  BY <1>2, KindOfFact DEF General
<1>. HIDE DEF j
<1>10. CASE CheckRefused(c)
  BY <1>2, <1>5, <1>6, <1>7, <1>9, <1>10 DEF CheckRefused, keyVars, Personal
<1>11. CASE AddFollower(c)
  BY <1>2, <1>5, <1>6, <1>7, <1>9, <1>11 DEF AddFollower, Personal
<1>12. CASE PushPrivate(c)
  <2>1. entries' = entries \cup {<<p, i>>}
    BY <1>5, <1>12 DEF PushPrivate, Deliver
  <2>. QED  BY <1>2, <1>5, <1>6, <1>8, <1>9, <1>12, <2>1 DEF PushPrivate, Personal
<1>13. CASE SetFollow(c)
  <2>1. log[i].kind \in Declaration /\ At(c, "apply", Declaration)
    BY <1>6, <1>13 DEF SetFollow
  <2>2. At(c, "apply", {"follow"}) <=> log[i].kind = "follow"
    BY <1>5, <2>1 DEF At
  <2>. QED  BY <1>2, <1>5, <1>8, <1>9, <1>13, <2>1, <2>2 DEF SetFollow, Personal, Declaration
<1>14. CASE ReadFollowers(c)
  BY <1>2, <1>6, <1>9, <1>14 DEF ReadFollowers, keyVars
<1>15. CASE FanOut(c)
  BY <1>2, <1>6, <1>9, <1>15 DEF FanOut, Deliver
<1>16. CASE DropIndex(c) \/ \E q \in Players : Sweep(c, q)
  BY <1>2, <1>6, <1>16 DEF DropIndex, Sweep, Lifecycle
<1>. QED  BY <1>10, <1>11, <1>12, <1>13, <1>14, <1>15, <1>16 DEF Work

\* A private message that was applied is where it belongs.
PrivateInv ==
  Lives => \A i \in 1..Len(log) :
    log[i].kind \in {"rel", "reply"} /\ Through(i)
      => <<log[i].player, i>> \in entries

\* An actor whose longer log has no lifecycle had none before.
LEMMA LivesBefore ==
  ASSUME Len(log) \in 0..Len(log'), Len(log') \in Nat,
         \A i \in 1..Len(log) : log'[i] = log[i], Lives'
  PROVE  Lives
BY DEF Lives

\* Whatever is applied to a living actor stays applied, and nothing is through
\* without its entry.
LEMMA PrivateStep == TypeOK /\ JobInv /\ PrivateInv /\ [Next]_vars => PrivateInv'
<1>. SUFFICES ASSUME TypeOK, JobInv, PrivateInv, [Next]_vars, Lives'
              PROVE  PrivateInv'
  BY DEF PrivateInv
<1>1. ASSUME NEW c \in Consumers, Work(c) PROVE PrivateInv'
  <2>1. PICK i : i = job[c].at
    OBVIOUS
  <2>2. PICK p : p = log[i].player
    OBVIOUS
  <2>3. log' = log
    BY <1>1, WorkJob DEF queueVars
  <2>4. Lives
    BY <2>3 DEF Lives
  <2>5. /\ Through(i)' => job'[c].pc = "ack"
        /\ \A k \in 1..Len(log) \ {i} : Through(k)' <=> Through(k)
    <3>1. /\ Through(job[c].at)' => job'[c].pc = "ack"
          /\ \A k \in 1..Len(log) \ {job[c].at} : Through(k)' <=> Through(k)
      BY <1>1, WorkThrough
    <3>2. job'[c].at = i
      BY <1>1, <2>1, WorkJob
    <3>. QED  BY <2>1, <3>1, <3>2 DEF Through
  <2>6. entries \subseteq entries'
    BY <1>1, <2>1, <2>2, <2>4, LivesWork DEF keyVars
  <2>7. log[i].kind \in {"rel", "reply"} /\ job'[c].pc = "ack" => <<log[i].player, i>> \in entries'
    BY <1>1, <2>1, <2>2, <2>4, LivesWork
  <2>. QED  BY <2>3, <2>4, <2>5, <2>6, <2>7 DEF PrivateInv
<1>2. CASE \A c \in Consumers : ~Work(c)
  <2>1. /\ log' \in Seq(Fact) /\ Len(log) \in 0..Len(log')
        /\ \A i \in 1..Len(log) : log'[i] = log[i]
        /\ entries' = entries
        /\ \A i \in 1..Len(log') : Through(i)' /\ log'[i].kind # "returned"
             => i \in 1..Len(log) /\ Through(i)
    BY <1>2, ThroughStep DEF keyVars
  <2>2. Lives
    BY <2>1, LivesBefore
  <2>. QED  BY <2>1, <2>2 DEF PrivateInv
<1>. QED  BY <1>1, <1>2

\* A reply or a receipt reaches the player it is for, whatever fails or crashes
\* between a write and its acknowledgement (redis_projector.py, timeline.py).
THEOREM PrivateMessagesArrive == Spec => []PrivateArrives
<1>1. Init => PrivateInv
  BY DEF Init, PrivateInv
<1>2. TypeOK /\ JobInv /\ PrivateInv => PrivateArrives
  BY DEF PrivateInv, PrivateArrives, Clean, Through
<1>3. Spec => [](TypeOK /\ JobInv /\ PrivateInv)
  BY <1>1, InitTyped, StepTyped, PrivateStep, PTL DEF Spec
<1>. QED  BY <1>2, <1>3, PTL

\* i is the last declaration of p that was applied.
LastThrough(i, p) ==
  /\ Through(i)
  /\ \A k \in (i + 1)..Len(log) : Says(log, k, Declaration, p) => ~Through(k)

\* Nobody follows without a reason, ...
Reasoned(p) == p \in followers => Happened({"rel", "follow"}, p)

\* ... who never withdrew is not lost, ...
Kept(p) ==
  ~Happened({"unfollow"}, p) =>
    /\ p \notin refused
    /\ \A i \in 1..Len(log) :
         \/ Says(log, i, {"rel", "follow"}, p) /\ Through(i)
         \/ Says(log, i, {"rel"}, p) /\ job["rel"].at = i /\ job["rel"].pc = "receipt"
         => p \in followers

\* ... and without faults the last declaration that was applied decides.
Ruled(p) ==
  faults = 0 => \A i \in 1..Len(log) : LastThrough(i, p) =>
    /\ Says(log, i, {"follow"}, p) => p \in followers
    /\ Says(log, i, {"unfollow"}, p) /\ ~Happened({"rel"}, p) => p \notin followers

ConvergeInv == Lives => \A p \in Players : Reasoned(p) /\ Kept(p) /\ Ruled(p)

\* What is through is no longer new.
LEMMA ThroughStatus ==
  ASSUME TypeOK, JobInv, NEW k \in 1..Len(log), Through(k)
  PROVE  status[k] \in {"held", "done"}
<1>1. CASE status[k] = "done"
  BY <1>1
<1>2. ASSUME NEW c \in Consumers, job[c].at = k, job[c].pc = "ack" PROVE status[k] = "held"
  BY <1>2 DEF JobInv, Fits, Idle
<1>. QED  BY <1>1, <1>2 DEF Through

\* Without faults a declaration is applied before any later one of the actor.
LEMMA DeclaredInTurn ==
  ASSUME TypeOK, JobInv, InTurn, faults = 0,
         NEW i \in 1..Len(log), status[i] = "held", log[i].kind \in Declaration,
         NEW k \in 1..Len(log), log[k].kind \in Declaration, Through(k)
  PROVE  k <= i
<1>. SUFFICES ASSUME i < k PROVE FALSE
  BY DEF TypeOK
<1>1. status[k] # "new"
  BY ThroughStatus
<1>2. log[i] \in Fact /\ log[k] \in Fact
  BY DEF TypeOK
<1>3. Consumer(log[i]) = Consumer(log[k])
  BY <1>2 DEF Consumer, Declaration
<1>. QED  BY <1>1, <1>3 DEF InTurn

\* A handler's step on a living actor keeps every player's membership in order:
\* only the player of its event is concerned.
LEMMA WorkConverges ==
  ASSUME TypeOK, JobInv, InTurn, Lives, NEW c \in Consumers, Work(c),
         NEW p \in Players, Reasoned(p), Kept(p), Ruled(p)
  PROVE  Reasoned(p)' /\ Kept(p)' /\ Ruled(p)'
<1>1. PICK i : i = job[c].at
  OBVIOUS
<1>2. PICK q : q = log[i].player
  OBVIOUS
<1>3. /\ log' = log /\ status' = status /\ faults' = faults /\ job'[c].at = i
      /\ job' = [job EXCEPT ![c] = job'[c]] /\ job \in [Consumers -> Jobs]
      /\ log \in Seq(Fact) /\ Len(log) \in Nat
  BY <1>1, WorkJob DEF queueVars, TypeOK, Jobs
<1>4. i \in 1..Len(log) /\ Consumer(log[i]) = c /\ status[i] = "held" /\ log[i] \in Fact
  BY <1>1, <1>2, <1>3, LivesWork
<1>5. /\ Through(i)' => job'[c].pc = "ack"
      /\ \A k \in 1..Len(log) \ {i} : Through(k)' <=> Through(k)
      /\ ~Through(i)
  <2>1. /\ Through(job[c].at)' => job'[c].pc = "ack"
        /\ \A k \in 1..Len(log) \ {job[c].at} : Through(k)' <=> Through(k)
        /\ ~Through(job[c].at)
    BY WorkThrough
  <2>. QED  BY <1>1, <1>3, <2>1 DEF Through
<1>6. \A d \in Consumers \ {c} : job'[d] = job[d]
  BY <1>3
<1>7. \A kinds : Happened(kinds, p)' <=> Happened(kinds, p)
  BY <1>3 DEF Happened, Says
<1>8. c = "rel" <=> log[i].kind = "rel"
  BY <1>4, ConsumerOf
<1>9. "rel" \in Consumers
  BY DEF Consumers
<1>10. \/ log[i].kind \notin {"rel", "follow", "unfollow"} \/ p # q
       => Reasoned(p)' /\ Kept(p)' /\ Ruled(p)'
  <2>. SUFFICES ASSUME log[i].kind \notin {"rel", "follow", "unfollow"} \/ p # q
                PROVE  Reasoned(p)' /\ Kept(p)' /\ Ruled(p)'
    OBVIOUS
  <2>1. /\ p \in followers' <=> p \in followers
        /\ p \in refused' <=> p \in refused
    BY <1>1, <1>2, LivesWork DEF keyVars
  <2>2. \A kinds : kinds \subseteq {"rel", "follow", "unfollow"} => ~Says(log, i, kinds, p)
    BY <1>2 DEF Says
  <2>3. Reasoned(p)'
    BY <1>7, <2>1 DEF Reasoned
  <2>4. Kept(p)'
    <3>. SUFFICES ASSUME ~Happened({"unfollow"}, p), NEW k \in 1..Len(log),
                         \/ Says(log, k, {"rel", "follow"}, p) /\ Through(k)'
                         \/ Says(log, k, {"rel"}, p) /\ job'["rel"].at = k
                            /\ job'["rel"].pc = "receipt"
                  PROVE  p \in followers
      BY <1>3, <1>7, <2>1 DEF Kept, Says
    <3>1. k # i
      BY <2>2
    <3>2. job'["rel"].at = k => job'["rel"] = job["rel"]
      BY <1>3, <1>6, <1>9, <3>1
    <3>. QED  BY <1>5, <3>1, <3>2 DEF Kept
  <2>5. Ruled(p)'
    <3>1. \A k \in 1..Len(log) : LastThrough(k, p)' /\ k # i => LastThrough(k, p)
      BY <1>3, <1>4, <1>5, <2>2 DEF LastThrough, Says, Declaration
    <3>. QED  BY <1>3, <1>7, <2>1, <2>2, <3>1 DEF Ruled, Says
  <2>. QED  BY <2>3, <2>4, <2>5
<1>11. ASSUME log[i].kind = "rel", p = q
       PROVE  Reasoned(p)' /\ Kept(p)' /\ Ruled(p)'
  <2>1. Happened({"rel"}, p) /\ Happened({"rel", "follow"}, p)
    BY <1>2, <1>4, <1>11 DEF Happened, Says
  <2>2. /\ refused' = refused /\ (p \in followers => p \in followers')
        /\ job'[c].pc = "receipt" => p \in followers' \/ p \in refused
        /\ job'[c].pc = "ack" => job[c].pc = "receipt"
    BY <1>1, <1>2, <1>11, LivesWork DEF keyVars
  <2>3. Reasoned(p)'
    BY <1>7, <2>1 DEF Reasoned
  <2>4. Kept(p)'
    <3>. SUFFICES ASSUME ~Happened({"unfollow"}, p), NEW k \in 1..Len(log),
                         \/ Says(log, k, {"rel", "follow"}, p) /\ Through(k)'
                         \/ Says(log, k, {"rel"}, p) /\ job'["rel"].at = k
                            /\ job'["rel"].pc = "receipt"
                  PROVE  p \in followers'
      BY <1>3, <1>7, <2>2 DEF Kept, Says
    <3>0. p \notin refused
      BY DEF Kept
    <3>1. CASE k # i
      BY <1>3, <1>5, <1>8, <1>11, <2>2, <3>1 DEF Kept
    <3>2. CASE k = i /\ job'[c].pc = "ack"
      <4>1. Says(log, i, {"rel"}, p) /\ job["rel"].at = i /\ job["rel"].pc = "receipt"
        BY <1>1, <1>2, <1>8, <1>11, <2>2, <3>2 DEF Says
      <4>. QED  BY <1>4, <2>2, <4>1 DEF Kept
    <3>3. CASE k = i /\ job'[c].pc # "ack"
      BY <1>5, <1>8, <1>11, <2>2, <3>0, <3>3
    <3>. QED  BY <3>1, <3>2, <3>3
  <2>5. Ruled(p)'
    <3>1. ~Says(log, i, Declaration, p)
      BY <1>11 DEF Says, Declaration
    <3>2. \A k \in 1..Len(log) : LastThrough(k, p)' /\ k # i => LastThrough(k, p)
      BY <1>3, <1>4, <1>5, <3>1 DEF LastThrough, Says
    <3>. QED  BY <1>3, <1>7, <2>1, <2>2, <3>1, <3>2 DEF Ruled, Says, Declaration
  <2>. QED  BY <2>3, <2>4, <2>5
<1>12. ASSUME log[i].kind \in Declaration, p = q, faults = 0,
              NEW k \in 1..Len(log), LastThrough(k, p)', Says(log, k, Declaration, p),
              job'[c].pc = "ack"
       PROVE  k = i
  <2>1. Through(i)' /\ Says(log, i, Declaration, p)
    BY <1>2, <1>3, <1>4, <1>12 DEF Through, Says
  <2>2. ~(k < i)
    BY <1>3, <1>4, <1>12, <2>1 DEF LastThrough, Says
  <2>3. CASE i < k
    <3>1. Through(k)
      BY <1>4, <1>5, <1>12, <2>3 DEF LastThrough
    <3>2. k <= i
      BY <1>4, <1>12, <3>1, DeclaredInTurn DEF Says
    <3>. QED  BY <1>4, <2>3, <3>2
  <2>. QED  BY <1>4, <2>2, <2>3
<1>13. ASSUME log[i].kind = "follow", p = q
       PROVE  Reasoned(p)' /\ Kept(p)' /\ Ruled(p)'
  <2>1. Happened({"rel", "follow"}, p)
    BY <1>2, <1>4, <1>13 DEF Happened, Says
  <2>2. p \in followers' /\ p \notin refused' /\ job'[c].pc = "ack"
    BY <1>1, <1>2, <1>13, LivesWork
  <2>3. Reasoned(p)' /\ Kept(p)'
    BY <1>7, <2>1, <2>2 DEF Reasoned, Kept
  <2>4. Ruled(p)'
    BY <1>3, <1>12, <1>13, <2>2 DEF Ruled, Says, Declaration
  <2>. QED  BY <2>3, <2>4
<1>14. ASSUME log[i].kind = "unfollow", p = q
       PROVE  Reasoned(p)' /\ Kept(p)' /\ Ruled(p)'
  <2>1. Happened({"unfollow"}, p)
    BY <1>2, <1>4, <1>14 DEF Happened, Says
  <2>2. p \notin followers' /\ job'[c].pc = "ack"
    BY <1>1, <1>2, <1>14, LivesWork
  <2>3. Reasoned(p)' /\ Kept(p)'
    BY <1>7, <2>1, <2>2 DEF Reasoned, Kept
  <2>4. Ruled(p)'
    BY <1>3, <1>12, <1>14, <2>2 DEF Ruled, Says, Declaration
  <2>. QED  BY <2>3, <2>4
<1>. QED  BY <1>10, <1>11, <1>13, <1>14

\* Other steps change no key and bring nothing through.
LEMMA ConvergeStep ==
  TypeOK /\ JobInv /\ InTurn /\ ConvergeInv /\ [Next]_vars => ConvergeInv'
<1>. SUFFICES ASSUME TypeOK, JobInv, InTurn, ConvergeInv, [Next]_vars, Lives',
                     NEW p \in Players
              PROVE  Reasoned(p)' /\ Kept(p)' /\ Ruled(p)'
  BY DEF ConvergeInv
<1>1. ASSUME NEW c \in Consumers, Work(c) PROVE Reasoned(p)' /\ Kept(p)' /\ Ruled(p)'
  <2>1. log' = log
    BY <1>1, WorkJob DEF queueVars
  <2>2. Lives
    BY <2>1 DEF Lives
  <2>. QED  BY <1>1, <2>2, WorkConverges DEF ConvergeInv
<1>2. CASE \A c \in Consumers : ~Work(c)
  <2>1. /\ log' \in Seq(Fact) /\ Len(log) \in 0..Len(log')
        /\ \A i \in 1..Len(log) : log'[i] = log[i]
        /\ followers' = followers /\ refused' = refused
        /\ \A i \in 1..Len(log') : Through(i)' /\ log'[i].kind # "returned"
             => i \in 1..Len(log) /\ Through(i)
        /\ faults' = 0 => \A i \in 1..Len(log) : Through(i) => Through(i)'
        /\ \A c \in Consumers : job'[c].pc \notin {"apply", "ack", "idle"} => job'[c] = job[c]
        /\ faults' = 0 => faults = 0
    BY <1>2, ThroughStep DEF keyVars
  <2>2. Lives
    BY <2>1, LivesBefore
  <2>3. Reasoned(p) /\ Kept(p) /\ Ruled(p)
    BY <2>2 DEF ConvergeInv
  <2>4. \A kinds : Happened(kinds, p) => Happened(kinds, p)'
    BY <2>1 DEF Happened, Says
  <2>5. \A i \in 1..Len(log') : Through(i)' => i \in 1..Len(log) /\ Through(i)
    BY <2>1 DEF Lives, Lifecycle
  <2>6. Reasoned(p)'
    BY <2>1, <2>3, <2>4 DEF Reasoned
  <2>7. Kept(p)'
    <3>. SUFFICES ASSUME ~Happened({"unfollow"}, p), NEW k \in 1..Len(log'),
                         \/ Says(log', k, {"rel", "follow"}, p) /\ Through(k)'
                         \/ Says(log', k, {"rel"}, p) /\ job'["rel"].at = k
                            /\ job'["rel"].pc = "receipt"
                  PROVE  p \in followers
      BY <2>1, <2>3, <2>4 DEF Kept, Says
    <3>1. CASE Says(log', k, {"rel", "follow"}, p) /\ Through(k)'
      BY <2>1, <2>3, <2>5, <3>1 DEF Kept, Says
    <3>2. CASE /\ Says(log', k, {"rel"}, p)
               /\ job'["rel"].at = k /\ job'["rel"].pc = "receipt"
      <4>1. job["rel"].at = k /\ job["rel"].pc = "receipt"
        BY <2>1, <3>2 DEF Consumers
      <4>2. k \in 1..Len(log)
        BY <4>1 DEF JobInv, Fits, Idle, Consumers
      <4>. QED  BY <2>1, <2>3, <3>2, <4>1, <4>2 DEF Kept, Says
    <3>. QED  BY <3>1, <3>2
  <2>8. Ruled(p)'
    <3>. SUFFICES ASSUME faults' = 0, NEW k \in 1..Len(log'), LastThrough(k, p)'
                  PROVE  /\ Says(log', k, {"follow"}, p) => p \in followers
                         /\ Says(log', k, {"unfollow"}, p) /\ ~Happened({"rel"}, p)
                              => p \notin followers
      BY <2>1, <2>4 DEF Ruled, Says
    <3>1. k \in 1..Len(log) /\ Through(k)
      BY <2>5 DEF LastThrough
    <3>2. LastThrough(k, p)
      BY <2>1, <3>1 DEF LastThrough, Says
    <3>. QED  BY <2>1, <2>3, <3>1, <3>2 DEF Ruled, Says
  <2>. QED  BY <2>6, <2>7, <2>8
<1>. QED  BY <1>1, <1>2

\* Once everything is applied, membership is what the log says.
LEMMA Converged ==
  TypeOK /\ JobInv /\ LogInv /\ ConvergeInv => FollowersConverge
<1>. SUFFICES ASSUME TypeOK, LogInv, ConvergeInv, Clean, Lives,
                     NEW p \in Players, ~Contested(p), ~Shuffled(p)
              PROVE  p \in followers <=> Follows(log, Len(log), p)
  <2>1. \A p \in Players : Follows(log, Len(log), p) \in BOOLEAN
    BY DEF Follows
  <2>. QED  BY <2>1 DEF FollowersConverge
<1>. DEFINE n == Len(log)
<1>0. log \in Seq(Fact) /\ n \in Nat /\ n \in 0..Len(log) /\ faults \in Nat
  BY ProjectionAssumption DEF TypeOK
<1>1. Reasoned(p) /\ Kept(p) /\ Ruled(p) /\ \A i \in 1..n : Through(i)
  BY DEF ConvergeInv, Clean, Through
<1>2. Declared(log, n, p) =>
        LastSays(log, n, "follow", p) \/ LastSays(log, n, "unfollow", p)
  BY <1>0 DEF LogInv, DecidedAt
<1>3. ASSUME NEW kind \in Declaration, LastSays(log, n, kind, p)
      PROVE  \E i \in 1..n :
               /\ Says(log, i, {kind}, p) /\ LastThrough(i, p)
               /\ \A j \in (i + 1)..n : ~Says(log, j, Declaration, p)
  BY <1>1, <1>3 DEF LastSays, LastThrough
<1>4. CASE ~Happened({"unfollow"}, p)
  <2>1. p \in followers <=> Happened({"rel", "follow"}, p)
    BY <1>1, <1>4 DEF Reasoned, Kept, Happened
  <2>2. ~LastSays(log, n, "unfollow", p)
    BY <1>4 DEF LastSays, Happened, Says
  <2>3. Follows(log, n, p) <=> Happened({"rel", "follow"}, p)
    BY <1>2, <1>4, <2>2 DEF Follows, LastSays, Declared, Happened, Says, Declaration
  <2>. QED  BY <2>1, <2>3
<1>5. CASE Happened({"unfollow"}, p)
  <2>1. PICK k \in 1..n : Says(log, k, {"unfollow"}, p)
    BY <1>5 DEF Happened
  <2>2. Says(log, k, Declaration, p) /\ Declared(log, n, p)
    BY <2>1 DEF Declared, Says, Declaration
  <2>3. CASE LastSays(log, n, "follow", p)
    <3>1. PICK i \in 1..n : Says(log, i, {"follow"}, p) /\ LastThrough(i, p)
      BY <1>3, <2>3 DEF Declaration
    <3>2. i # k /\ Says(log, i, Declaration, p)
      BY <2>1, <3>1 DEF Says, Declaration
    <3>3. faults = 0
      BY <1>0, <2>2, <3>2 DEF Shuffled
    <3>4. p \in followers
      BY <1>1, <3>1, <3>3 DEF Ruled
    <3>. QED  BY <2>3, <3>4 DEF Follows
  <2>4. CASE LastSays(log, n, "unfollow", p)
    <3>1. PICK i \in 1..n :
            /\ Says(log, i, {"unfollow"}, p) /\ LastThrough(i, p)
            /\ \A j \in (i + 1)..n : ~Says(log, j, Declaration, p)
      BY <1>3, <2>4 DEF Declaration
    <3>2. ~Happened({"rel"}, p)
      BY <2>4 DEF Contested
    <3>3. ~LastSays(log, n, "follow", p)
      <4>. SUFFICES ASSUME NEW j \in 1..n, Says(log, j, {"follow"}, p),
                           \A m \in (j + 1)..n : ~Says(log, m, Declaration, p)
                    PROVE  FALSE
        BY DEF LastSays
      <4>1. /\ Says(log, j, Declaration, p) /\ Says(log, i, Declaration, p)
            /\ i # j
        BY <3>1 DEF Says, Declaration
      <4>2. i < j \/ j < i
        BY <1>0, <4>1
      <4>. QED  BY <1>0, <3>1, <4>1, <4>2
    <3>4. p \notin followers
      <4>1. CASE faults = 0
        BY <1>1, <3>1, <3>2, <4>1 DEF Ruled
      <4>2. CASE faults # 0
        <5>1. \A j \in 1..n : Says(log, j, Declaration, p) => j = i
          BY <1>0, <3>1, <4>2 DEF Shuffled, Says, Declaration
        <5>2. ~Happened({"rel", "follow"}, p)
          BY <3>1, <3>2, <5>1 DEF Happened, Says, Declaration
        <5>. QED  BY <1>1, <5>2 DEF Reasoned
      <4>. QED  BY <4>1, <4>2
    <3>5. ~Follows(log, n, p)
      BY <2>2, <3>3 DEF Follows
    <3>. QED  BY <3>4, <3>5
  <2>. QED  BY <1>2, <2>2, <2>3, <2>4
<1>. QED  BY <1>4, <1>5

\* However the six consumers interleave, fail and crash, once everything is
\* consumed a living actor's index is the fold of its log, but for the players over
\* whom two consumers or two deliveries can race (timeline_verify.py).
THEOREM FollowersDoConverge == Spec => []FollowersConverge
<1>1. Init => LogInv /\ InTurn /\ ConvergeInv
  <2>. SUFFICES ASSUME Init PROVE LogInv /\ InTurn /\ ConvergeInv
    OBVIOUS
  <2>1. log = <<>> /\ Len(log) = 0 /\ followers = {} /\ refused = {}
    BY DEF Init
  <2>2. 1..Len(log) = {} /\ 0..Len(log) = {0}
    BY <2>1
  <2>3. LogInv
    BY <2>1, <2>2 DEF LogInv, DecidedAt, LastSays, Declared
  <2>4. InTurn
    BY <2>2 DEF InTurn
  <2>5. ConvergeInv
    BY <2>1, <2>2 DEF ConvergeInv, Reasoned, Kept, Ruled
  <2>. QED  BY <2>3, <2>4, <2>5
<1>2. Spec => [](TypeOK /\ JobInv /\ LogInv /\ InTurn /\ ConvergeInv)
  BY <1>1, InitTyped, StepTyped, LogStep, InTurnStep, ConvergeStep, PTL DEF Spec
<1>. QED  BY <1>2, Converged, PTL

-----------------------------------------------------------------------------
(* Keys while events come one by one: f and r stand for the two sets of the  *)
(* index, e for the entries, ok for a run without faults.                    *)

\* f is who follows after m events.
Members(l, m, f) == \A p \in Players : p \in f <=> Follows(l, m, p)

\* f and r are what the first n events make of them.
Standing(l, n, f, r) ==
  \A p \in Players : /\ p \in f <=> Follows(l, n, p)
                     /\ p \in r <=> LastSays(l, n, "unfollow", p)

\* The keys are what the first n events make them.
Exact(l, n, f, r, e, ok) ==
  IF RetiredAt(l, n) THEN f = {} /\ r = {} /\ e = {}
  ELSE /\ Standing(l, n, f, r)
       /\ Delivered(l, n) \subseteq e
       /\ ok => e = Delivered(l, n)

\* The n-th event, the last, is being applied, maybe not for the first time.
Between(l, n, f, r, e, ok) ==
  /\ \A p \in Players :
       /\ (p \in f <=> Follows(l, n - 1, p)) \/ (p \in f <=> Follows(l, n, p))
       /\ \/ p \in r <=> LastSays(l, n - 1, "unfollow", p)
          \/ p \in r <=> LastSays(l, n, "unfollow", p)
  /\ Delivered(l, n - 1) \subseteq e
  /\ ok => e = Delivered(l, n - 1)

InPart(l, n, f, r, e, ok, j) ==
  IF l[n].kind = "retired"
  THEN j.pc = "sweep" => f = {} /\ r = {} /\ \A d \in e : d[1] \in j.seen
  ELSE /\ Between(l, n, f, r, e, ok)
       /\ j.pc = "add" => l[n].player \notin r
       /\ j.pc = "receipt" => Members(l, n, f)
       /\ j.pc = "write" => j.seen = f

\* The first m of n events are applied again, to keys that earlier attempts may
\* have left: whoever declared something among them stands as declared; the
\* others may still be refused, but then have what they had before they declared.
AgainFor(l, m, n, f, r, e, p) ==
  /\ Declared(l, m, p) => /\ p \in r <=> LastSays(l, m, "unfollow", p)
                          /\ p \in f <=> Follows(l, m, p)
  /\ Follows(l, m, p) => p \in f \cup r
  /\ ~Declared(l, n, p) => p \notin r /\ (p \in f => Follows(l, n, p))
  /\ p \in r => \A i \in 1..n :
       <<p, i>> \in Delivered(l, n) /\ ~Declared(l, i, p) => <<p, i>> \in e

Again(l, m, n, f, r, e, ok) ==
  /\ \A p \in Players : AgainFor(l, m, n, f, r, e, p)
  /\ Delivered(l, m) \subseteq e
  /\ ok => /\ \A p \in Players : p \in r <=> LastSays(l, m, "unfollow", p)
           /\ e = Delivered(l, m)

\* The return at n is being applied: job j is at one of the events before it.
Returning(l, n, f, r, e, ok, j) ==
  /\ Again(l, j.cur - 1, n - 1, f, r, e, ok)
  /\ ok => Members(l, IF j.pc = "receipt" THEN j.cur ELSE j.cur - 1, f)
  /\ j.pc = "add" => l[j.cur].player \notin r
  /\ j.pc = "receipt" => l[j.cur].player \in f \cup r
  /\ j.pc = "write" => j.seen = f

\* What applying an event other than a lifecycle's makes of the keys.
Put(fact, n, f, r, e, f2, r2, e2) ==
  CASE fact.kind = "follow" ->
         f2 = f \cup {fact.player} /\ r2 = r \ {fact.player} /\ e2 = e
    [] fact.kind = "unfollow" ->
         f2 = f \ {fact.player} /\ r2 = r \cup {fact.player} /\ e2 = e
    [] fact.kind = "post" -> f2 = f /\ r2 = r /\ e2 = e \cup (f \X {n})
    [] OTHER -> f2 = f /\ r2 = r /\ e2 = e \cup ({fact.player} \X {n})

-----------------------------------------------------------------------------
(* The last event, applied once or several times.                           *)

\* A relationship's handler leaves the index right, whether its player is refused
\* or added.
LEMMA RelInPart ==
  ASSUME NEW l \in Seq(Fact), NEW n \in 1..Len(l), DecidedAt(l, n - 1),
         NEW f, NEW r, NEW e, NEW ok, 
         l[n].kind = "rel", Between(l, n, f, r, e, ok)
  PROVE  /\ l[n].player \in r => Members(l, n, f)
         /\ l[n].player \notin r => /\ Members(l, n, f \cup {l[n].player})
                          /\ Between(l, n, f \cup {l[n].player}, r, e, ok)
<1>. DEFINE q == l[n].player
<1>1. \A p \in Players :
        /\ LastSays(l, n, "unfollow", p) <=> LastSays(l, n - 1, "unfollow", p)
        /\ Follows(l, n, p) <=>
             \/ Follows(l, n - 1, p)
             \/ p = q /\ ~LastSays(l, n - 1, "unfollow", p)
  BY EventRules DEF Declaration
<1>2. \A p \in Players : p \in r <=> LastSays(l, n - 1, "unfollow", p)
  BY <1>1 DEF Between
<1>3. q \in r => Members(l, n, f)
  BY <1>1, <1>2 DEF Between, Members
<1>4. q \notin r => Members(l, n, f \cup {q})
  BY <1>1, <1>2 DEF Between, Members
<1>. QED  BY <1>3, <1>4 DEF Between, Members

\* An event applied to keys that lack it, or have it in part, is in the keys.
LEMMA PutInPart ==
  ASSUME NEW l \in Seq(Fact), NEW n \in 1..Len(l), DecidedAt(l, n - 1),
         ~RetiredAt(l, n - 1), l[n].kind \notin Lifecycle,
         NEW f \in SUBSET Players, NEW r, NEW e, NEW ok, Between(l, n, f, r, e, ok),
         NEW f2, NEW r2, NEW e2, Put(l[n], n, f, r, e, f2, r2, e2),
         l[n].kind = "rel" => Members(l, n, f)
  PROVE  Exact(l, n, f2, r2, e2, ok)
<1>. DEFINE k == l[n].kind
            q == l[n].player
<1>0. /\ k \in {"rel", "follow", "unfollow", "reply", "post"} /\ l[n] \in Fact
      /\ k # "post" => q \in Players
      /\ ~RetiredAt(l, n)
  BY KindOfFact, RetiredNext DEF Lifecycle, Personal, General
<1>1. \A p \in Players :
        /\ LastSays(l, n, "unfollow", p) <=>
             \/ k = "unfollow" /\ p = q
             \/ ~(k \in Declaration /\ p = q) /\ LastSays(l, n - 1, "unfollow", p)
        /\ Follows(l, n, p) <=>
             \/ k = "follow" /\ p = q
             \/ Follows(l, n - 1, p) /\ ~(k = "unfollow" /\ p = q)
             \/ k = "rel" /\ p = q /\ ~LastSays(l, n - 1, "unfollow", p)
  BY EventRules
<1>2. Delivered(l, n) = Delivered(l, n - 1) \cup (Audience(l, n) \X {n})
  BY DeliveryRules
<1>3. /\ k \in {"rel", "reply"} => Audience(l, n) = {q}
      /\ k \in Declaration => Audience(l, n) = {}
      /\ k = "post" => Audience(l, n) = {p \in Players : Follows(l, n - 1, p)}
  BY <1>0 DEF Audience, Says, Declaration
<1>. HIDE DEF k, q
<1>4. Standing(l, n, f2, r2)
  <2>1. CASE k = "follow" \/ k = "unfollow"
    BY <1>1, <2>1 DEF Standing, Between, Put, Declaration, k, q
  <2>2. CASE k \in {"rel", "reply", "post"}
    <3>1. f2 = f /\ r2 = r
      BY <2>2 DEF Put, k
    <3>2. Members(l, n, f)
      BY <1>1, <2>2 DEF Between, Declaration, Members, k
    <3>3. \A p \in Players : p \in r <=> LastSays(l, n, "unfollow", p)
      BY <1>1, <2>2 DEF Between, Declaration
    <3>. QED  BY <3>1, <3>2, <3>3 DEF Standing, Members
  <2>. QED  BY <1>0, <2>1, <2>2
<1>5. e2 = e \cup (Audience(l, n) \X {n})
  <2>1. CASE k \in Declaration
    <3>1. e2 = e
      BY <2>1 DEF Put, k, Declaration
    <3>. QED  BY <1>3, <2>1, <3>1
  <2>2. CASE k \in {"rel", "reply"}
    BY <1>3, <2>2 DEF Put, k, q
  <2>3. CASE k = "post"
    <3>1. f = {p \in Players : Follows(l, n - 1, p)}
      BY <1>1, <2>3 DEF Between, Declaration
    <3>. QED  BY <1>3, <2>3, <3>1 DEF Put, k
  <2>. QED  BY <1>0, <2>1, <2>2, <2>3 DEF Declaration
<1>. QED  BY <1>0, <1>2, <1>4, <1>5 DEF Exact, Between

-----------------------------------------------------------------------------
(* The past of a return, applied again.                                     *)

\* Declarations are not taken back by a longer log.
LEMMA DeclaredOn ==
  ASSUME NEW l \in Seq(Fact), NEW n \in 0..Len(l), NEW m \in 0..n, NEW p,
         Declared(l, m, p)
  PROVE  Declared(l, n, p)
BY DEF Declared

\* What is delivered by then is what was delivered among the first.
LEMMA DeliveredOn ==
  ASSUME NEW l \in Seq(Fact), NEW n \in 0..Len(l), NEW m \in 0..n
  PROVE  /\ Delivered(l, m) \subseteq Delivered(l, n)
         /\ \A d \in Delivered(l, n) : d[2] \in 1..m => d \in Delivered(l, m)
<1>1. \A i \in 1..m : i \in 1..n
  OBVIOUS
<1>. QED  BY <1>1 DEF Delivered

\* An event of the past, applied again, puts the keys one event further.
LEMMA PutAgain ==
  ASSUME NEW l \in Seq(Fact), NEW n \in 0..Len(l), NEW i \in 1..n,
         DecidedAt(l, i - 1), DecidedAt(l, i), l[i].kind \notin Lifecycle,
         NEW f \in SUBSET Players, NEW r, NEW e, NEW ok,
         Again(l, i - 1, n, f, r, e, ok),
         NEW f2, NEW r2, NEW e2, Put(l[i], i, f, r, e, f2, r2, e2),
         l[i].kind = "rel" => l[i].player \in f \cup r,
         ok => Members(l, IF l[i].kind = "rel" THEN i ELSE i - 1, f)
  PROVE  /\ Again(l, i, n, f2, r2, e2, ok)
         /\ ok => Members(l, i, f2)
<1>. DEFINE k == l[i].kind
            q == l[i].player
<1>0. /\ k \in {"rel", "follow", "unfollow", "reply", "post"} /\ l[i] \in Fact
      /\ k # "post" => q \in Players
      /\ i \in 1..Len(l) /\ i - 1 \in 0..Len(l) /\ i \in 0..Len(l)
  BY KindOfFact DEF Lifecycle, Personal, General
<1>1. \A p \in Players :
        /\ Declared(l, i, p) <=> Declared(l, i - 1, p) \/ (k \in Declaration /\ p = q)
        /\ LastSays(l, i, "unfollow", p) <=>
             \/ k = "unfollow" /\ p = q
             \/ ~(k \in Declaration /\ p = q) /\ LastSays(l, i - 1, "unfollow", p)
        /\ Follows(l, i, p) <=>
             \/ k = "follow" /\ p = q
             \/ Follows(l, i - 1, p) /\ ~(k = "unfollow" /\ p = q)
             \/ k = "rel" /\ p = q /\ ~LastSays(l, i - 1, "unfollow", p)
  BY <1>0, EventRules
<1>2. \A p \in Players :
        /\ LastSays(l, i - 1, "unfollow", p) => Declared(l, i - 1, p) /\ ~Follows(l, i - 1, p)
        /\ Declared(l, i - 1, p) /\ ~LastSays(l, i - 1, "unfollow", p) => Follows(l, i - 1, p)
  BY <1>0, DecisionRules
<1>3. \A p \in Players : Declared(l, i, p) => Declared(l, n, p)
  BY DeclaredOn
<1>4. Delivered(l, i) = Delivered(l, i - 1) \cup (Audience(l, i) \X {i})
  BY <1>0, DeliveryRules
<1>5. /\ k \in {"rel", "reply"} => Audience(l, i) = {q}
      /\ k \in Declaration => Audience(l, i) = {}
      /\ k = "post" => Audience(l, i) = {p \in Players : Follows(l, i - 1, p)}
  BY <1>0 DEF Audience, Says, Declaration
<1>6. /\ \A p \in Players : AgainFor(l, i - 1, n, f, r, e, p)
      /\ Delivered(l, i - 1) \subseteq e
      /\ ok => /\ \A p \in Players : p \in r <=> LastSays(l, i - 1, "unfollow", p)
               /\ e = Delivered(l, i - 1)
  BY DEF Again
<1>7. /\ e \subseteq e2
      /\ k \in Declaration => e2 = e
      /\ k \notin Declaration => f2 = f /\ r2 = r
      /\ k = "follow" => f2 = f \cup {q} /\ r2 = r \ {q}
      /\ k = "unfollow" => f2 = f \ {q} /\ r2 = r \cup {q}
      /\ k \in {"rel", "reply"} => e2 = e \cup ({q} \X {i})
      /\ k = "post" => e2 = e \cup (f \X {i})
  BY <1>0 DEF Put, Declaration
<1>8. k = "rel" /\ q \in Players => (~Declared(l, n, q) => Follows(l, n, q))
  BY DEF Follows, Says
<1>9. /\ k = "rel" => q \in f \cup r
      /\ ok => Members(l, IF k = "rel" THEN i ELSE i - 1, f)
  OBVIOUS
<1>. HIDE DEF k, q
<1>10. ASSUME NEW p \in Players PROVE AgainFor(l, i, n, f2, r2, e2, p)
  <2>1. AgainFor(l, i - 1, n, f, r, e, p)
    BY <1>6
  <2>2. CASE k \in Declaration /\ p = q
    <3>1. /\ Declared(l, i, p) /\ Declared(l, n, p)
          /\ p \in r2 <=> LastSays(l, i, "unfollow", p)
          /\ p \in f2 <=> Follows(l, i, p)
      BY <1>1, <1>3, <1>7, <2>2 DEF Declaration
    <3>2. ASSUME NEW m \in 1..n, <<p, m>> \in Delivered(l, n), ~Declared(l, m, p)
          PROVE  <<p, m>> \in e2
      <4>1. m \in 1..(i - 1)
        <5>1. ~(i <= m)
          <6>. SUFFICES ASSUME i <= m PROVE FALSE
            OBVIOUS
          <6>1. m \in 0..Len(l) /\ i \in 0..m
            OBVIOUS
          <6>. QED  BY <3>1, <3>2, <6>1, DeclaredOn
        <5>. QED  BY <5>1
      <4>2. <<p, m>> \in Delivered(l, i - 1)
        BY <1>0, <3>2, <4>1, DeliveredOn
      <4>. QED  BY <1>6, <1>7, <4>2
    <3>. QED  BY <3>1, <3>2 DEF AgainFor
  <2>3. CASE k \in Declaration /\ p # q
    BY <1>1, <1>7, <2>1, <2>3 DEF AgainFor, Declaration
  <2>4. CASE k \notin Declaration
    <3>1. f2 = f /\ r2 = r /\ e \subseteq e2
      BY <1>7, <2>4
    <3>2. /\ Declared(l, i, p) <=> Declared(l, i - 1, p)
          /\ LastSays(l, i, "unfollow", p) <=> LastSays(l, i - 1, "unfollow", p)
          /\ Follows(l, i, p) <=> \/ Follows(l, i - 1, p)
                                  \/ k = "rel" /\ p = q /\ ~LastSays(l, i - 1, "unfollow", p)
      BY <1>1, <2>4 DEF Declaration
    <3>3. Declared(l, i, p) => (p \in r2 <=> LastSays(l, i, "unfollow", p))
                               /\ (p \in f2 <=> Follows(l, i, p))
      BY <1>2, <2>1, <3>1, <3>2 DEF AgainFor
    <3>4. Follows(l, i, p) => p \in f2 \cup r2
      BY <1>9, <2>1, <3>1, <3>2 DEF AgainFor
    <3>. QED  BY <2>1, <3>1, <3>3, <3>4 DEF AgainFor
  <2>. QED  BY <2>2, <2>3, <2>4
<1>11. Delivered(l, i) \subseteq e2
  <2>1. CASE k \in Declaration
    BY <1>4, <1>5, <1>6, <1>7, <2>1
  <2>2. CASE k \in {"rel", "reply"}
    BY <1>4, <1>5, <1>6, <1>7, <2>2
  <2>3. CASE k = "post"
    <3>1. ASSUME NEW p \in Players, Follows(l, i - 1, p) PROVE <<p, i>> \in e2
      <4>1. AgainFor(l, i - 1, n, f, r, e, p)
        BY <1>6
      <4>2. CASE p \in f
        BY <1>7, <2>3, <4>2
      <4>3. CASE p \notin f
        <5>1. p \in r /\ ~Declared(l, i - 1, p)
          BY <3>1, <4>1, <4>3 DEF AgainFor
        <5>2. ~Declared(l, i, p)
          BY <1>1, <2>3, <5>1 DEF Declaration
        <5>3. <<p, i>> \in Delivered(l, i)
          BY <1>4, <1>5, <2>3, <3>1
        <5>4. <<p, i>> \in Delivered(l, n)
          BY <5>3, DeliveredOn
        <5>. QED  BY <1>7, <4>1, <5>1, <5>2, <5>4 DEF AgainFor
      <4>. QED  BY <4>2, <4>3
    <3>. QED  BY <1>4, <1>5, <1>6, <1>7, <2>3, <3>1
  <2>. QED  BY <1>0, <2>1, <2>2, <2>3 DEF Declaration
<1>12. ASSUME ok
       PROVE  /\ \A p \in Players : p \in r2 <=> LastSays(l, i, "unfollow", p)
              /\ Members(l, i, f2)
              /\ e2 = Delivered(l, i)
  <2>1. \A p \in Players : p \in r2 <=> LastSays(l, i, "unfollow", p)
    BY <1>0, <1>1, <1>6, <1>7, <1>12 DEF Declaration
  <2>2. Members(l, i, f2)
    <3>1. CASE k = "rel"
      BY <1>7, <1>9, <1>12, <3>1 DEF Declaration
    <3>2. CASE k # "rel"
      BY <1>0, <1>1, <1>7, <1>9, <1>12, <3>2 DEF Declaration, Members
    <3>. QED  BY <3>1, <3>2
  <2>3. e2 = Delivered(l, i)
    <3>1. CASE k \in Declaration
      BY <1>4, <1>5, <1>6, <1>7, <1>12, <3>1
    <3>2. CASE k \in {"rel", "reply"}
      BY <1>4, <1>5, <1>6, <1>7, <1>12, <3>2
    <3>3. CASE k = "post"
      <4>1. f = {p \in Players : Follows(l, i - 1, p)}
        BY <1>9, <1>12, <3>3 DEF Members
      <4>. QED  BY <1>4, <1>5, <1>6, <1>7, <1>12, <3>3, <4>1
    <3>. QED  BY <1>0, <3>1, <3>2, <3>3 DEF Declaration
  <2>. QED  BY <2>1, <2>2, <2>3
<1>. QED  BY <1>10, <1>11, <1>12 DEF Again

\* Skipping lifecycle events goes on as far as they reach.
LEMMA SkipAgain ==
  ASSUME NEW l \in Seq(Fact), NEW n \in 0..Len(l), NEW a \in 0..n, NEW b \in a..n,
         \A m \in (a + 1)..b : l[m].kind \in Lifecycle,
         NEW f, NEW r, NEW e, NEW ok, Again(l, a, n, f, r, e, ok)
  PROVE  /\ Again(l, b, n, f, r, e, ok)
         /\ \A p \in Players : Follows(l, b, p) <=> Follows(l, a, p)
<1>1. a \in 0..Len(l) /\ b \in a..Len(l)
  OBVIOUS
<1>2. /\ \A p : Declared(l, b, p) <=> Declared(l, a, p)
      /\ \A p : LastSays(l, b, "unfollow", p) <=> LastSays(l, a, "unfollow", p)
      /\ \A p : Follows(l, b, p) <=> Follows(l, a, p)
      /\ Delivered(l, b) = Delivered(l, a)
  BY <1>1, SilentStretch DEF Declaration
<1>3. \A p \in Players : AgainFor(l, b, n, f, r, e, p)
  BY <1>2 DEF Again, AgainFor
<1>. QED  BY <1>2, <1>3 DEF Again

\* When the whole past was applied again, the return is.
LEMMA ReturnedExact ==
  ASSUME NEW l \in Seq(Fact), NEW n \in 1..Len(l), DecidedAt(l, n - 1),
         l[n].kind = "returned",
         NEW f, NEW r, NEW e, NEW ok, Again(l, n - 1, n - 1, f, r, e, ok)
  PROVE  Exact(l, n, f, r, e, ok)
<1>1. ~RetiredAt(l, n)
  BY RetiredNext
<1>2. n - 1 \in 0..Len(l) /\ n \in (n - 1)..Len(l) /\ \A m \in ((n - 1) + 1)..n : l[m].kind \in Lifecycle
  BY DEF Lifecycle
<1>3. /\ \A p : LastSays(l, n, "unfollow", p) <=> LastSays(l, n - 1, "unfollow", p)
      /\ \A p : Follows(l, n, p) <=> Follows(l, n - 1, p)
      /\ Delivered(l, n) = Delivered(l, n - 1)
  BY <1>2, SilentStretch DEF Declaration
<1>4. \A p \in Players : LastSays(l, n - 1, "unfollow", p) => Declared(l, n - 1, p)
  BY <1>2, DecisionRules
<1>5. \A p \in Players : AgainFor(l, n - 1, n - 1, f, r, e, p)
  BY DEF Again
<1>6. Standing(l, n, f, r)
  BY <1>3, <1>4, <1>5 DEF Standing, AgainFor
<1>. QED  BY <1>1, <1>3, <1>6 DEF Exact, Again

\* A return starts over from keys that a retirement emptied, ...
LEMMA AgainFromNothing ==
  ASSUME NEW l \in Seq(Fact), NEW n \in 0..Len(l), NEW ok
  PROVE  Again(l, 0, n, {}, {}, {}, ok)
<1>1. /\ \A p \in Players : ~Follows(l, 0, p) /\ ~LastSays(l, 0, "unfollow", p)
      /\ Delivered(l, 0) = {}
  BY KeysAtStart DEF Keys, Wanted, Refusing
<1>2. \A p : ~Declared(l, 0, p)
  BY DEF Declared
<1>. QED  BY <1>1, <1>2 DEF Again, AgainFor

\* ... from wherever an attempt stopped, ...
LEMMA AgainFromPart ==
  ASSUME NEW l \in Seq(Fact), NEW n \in 0..Len(l), NEW m \in 0..n,
         NEW f, NEW r, NEW e, NEW ok, Again(l, m, n, f, r, e, ok)
  PROVE  Again(l, 0, n, f, r, e, FALSE)
<1>1. \A p \in Players : ~Follows(l, 0, p)
  BY KeysAtStart DEF Keys, Wanted, Refusing
<1>2. \A p : ~Declared(l, 0, p)
  BY DEF Declared
<1>3. Delivered(l, 0) = {}
  BY KeysAtStart DEF Keys
<1>. QED  BY <1>1, <1>2, <1>3 DEF Again, AgainFor

\* ... or from keys that are already right.
LEMMA AgainFromExact ==
  ASSUME NEW l \in Seq(Fact), NEW n \in 1..Len(l), DecidedAt(l, n - 1),
         l[n].kind = "returned",
         NEW f, NEW r, NEW e, NEW ok, Exact(l, n, f, r, e, ok)
  PROVE  Again(l, 0, n - 1, f, r, e, FALSE)
<1>1. ~RetiredAt(l, n)
  BY RetiredNext
<1>2. n - 1 \in 0..Len(l) /\ n \in (n - 1)..Len(l) /\ \A m \in ((n - 1) + 1)..n : l[m].kind \in Lifecycle
  BY DEF Lifecycle
<1>3. /\ \A p : LastSays(l, n, "unfollow", p) <=> LastSays(l, n - 1, "unfollow", p)
      /\ \A p : Follows(l, n, p) <=> Follows(l, n - 1, p)
      /\ Delivered(l, n) = Delivered(l, n - 1)
  BY <1>2, SilentStretch DEF Declaration
<1>4. \A p \in Players : LastSays(l, n - 1, "unfollow", p) => Declared(l, n - 1, p)
  BY <1>2, DecisionRules
<1>5. \A p \in Players : ~Follows(l, 0, p) /\ ~Declared(l, 0, p)
  <2>1. \A p : ~Declared(l, 0, p)
    BY DEF Declared
  <2>2. \A p \in Players : ~Follows(l, 0, p)
    BY KeysAtStart DEF Keys, Wanted
  <2>. QED  BY <2>1, <2>2
<1>6. Delivered(l, 0) = {}
  BY KeysAtStart DEF Keys
<1>7. Standing(l, n, f, r) /\ Delivered(l, n - 1) \subseteq e
  BY <1>1, <1>3 DEF Exact
<1>8. \A p \in Players : AgainFor(l, 0, n - 1, f, r, e, p)
  BY <1>3, <1>4, <1>5, <1>7 DEF AgainFor, Standing
<1>. QED  BY <1>6, <1>8 DEF Again

\* A relationship either finds its player refused or makes it a follower.
LEMMA RelMembers ==
  ASSUME NEW l \in Seq(Fact), NEW i \in 1..Len(l), DecidedAt(l, i - 1), l[i].kind = "rel",
         NEW f, NEW r, Members(l, i - 1, f),
         \A p \in Players : p \in r <=> LastSays(l, i - 1, "unfollow", p)
  PROVE  Members(l, i, IF l[i].player \in r THEN f ELSE f \cup {l[i].player})
<1>1. \A p \in Players :
        Follows(l, i, p) <=> \/ Follows(l, i - 1, p)
                             \/ p = l[i].player /\ ~LastSays(l, i - 1, "unfollow", p)
  BY EventRules DEF Declaration
<1>. QED  BY <1>1 DEF Members

\* Adding the player of a relationship, when it is not refused, takes nothing back.
LEMMA RelAgain ==
  ASSUME NEW l \in Seq(Fact), NEW n \in 0..Len(l), NEW i \in 1..n,
         DecidedAt(l, i - 1), l[i].kind = "rel",
         NEW f, NEW r, NEW e, NEW ok, Again(l, i - 1, n, f, r, e, ok),
         l[i].player \notin r
  PROVE  Again(l, i - 1, n, f \cup {l[i].player}, r, e, ok)
<1>. DEFINE q == l[i].player
<1>1. \A p \in Players :
        Declared(l, i - 1, p) /\ ~LastSays(l, i - 1, "unfollow", p) => Follows(l, i - 1, p)
  <2>1. i - 1 \in 0..Len(l)
    OBVIOUS
  <2>. QED  BY <2>1, DecisionRules
<1>2. \A p \in Players : AgainFor(l, i - 1, n, f, r, e, p)
  BY DEF Again
<1>3. ~Declared(l, n, q) => Follows(l, n, q)
  BY DEF Follows, Says
<1>4. ASSUME NEW p \in Players PROVE AgainFor(l, i - 1, n, f \cup {q}, r, e, p)
  BY <1>1, <1>2, <1>3 DEF AgainFor
<1>. QED  BY <1>4 DEF Again

\* Where the consumer of the last event stands.
AtLast(l, n, f, r, e, ok, j) ==
  IF j.pc = "ack" THEN Exact(l, n, f, r, e, ok)
  ELSE IF l[n].kind # "returned" THEN InPart(l, n, f, r, e, ok, j)
  ELSE IF j.pc = "idle" THEN Again(l, 0, n - 1, f, r, e, ok)
  ELSE Returning(l, n, f, r, e, ok, j)

\* The next event of the past finds the keys as the ones before left them.
LEMMA ReturnGoesOn ==
  ASSUME NEW l \in Seq(Fact), NEW n \in 1..Len(l), DecidedAt(l, n - 1),
         l[n].kind = "returned", NEW a \in 0..(n - 1),
         NEW f, NEW r, NEW e, NEW ok, Again(l, a, n - 1, f, r, e, ok),
         ok => Members(l, a, f),
         NEW j, Moves(l, n, a, j)
  PROVE  AtLast(l, n, f, r, e, ok, j)
<1>0. n - 1 \in 0..Len(l) /\ n - 1 \in Nat
  OBVIOUS
<1>1. CASE j.pc = "ack"
  <2>1. n - 1 \in a..(n - 1) /\ \A m \in (a + 1)..(n - 1) : l[m].kind \in Lifecycle
    BY <1>1 DEF Moves
  <2>2. Again(l, n - 1, n - 1, f, r, e, ok)
    BY <1>0, <2>1, SkipAgain
  <2>. QED  BY <1>1, <2>2, ReturnedExact DEF AtLast
<1>2. CASE j.pc # "ack"
  <2>1. /\ j.pc = "apply" /\ j.cur \in (a + 1)..(n - 1)
        /\ \A m \in (a + 1)..(j.cur - 1) : l[m].kind \in Lifecycle
    BY <1>2 DEF Moves
  <2>2. j.cur - 1 \in a..(n - 1)
    BY <2>1
  <2>3. /\ Again(l, j.cur - 1, n - 1, f, r, e, ok)
        /\ \A p \in Players : Follows(l, j.cur - 1, p) <=> Follows(l, a, p)
    BY <1>0, <2>1, <2>2, SkipAgain
  <2>. QED  BY <2>1, <2>3 DEF AtLast, Returning, Members
<1>. QED  BY <1>1, <1>2

\* A handler that fails, or a crash, leaves keys the next attempt can start from.
LEMMA Abandoned ==
  ASSUME NEW l \in Seq(Fact), NEW n \in 1..Len(l), DecidedAt(l, n - 1),
         l[n].kind = "returned" <=> RetiredAt(l, n - 1),
         NEW f, NEW r, NEW e, NEW ok, NEW j, AtLast(l, n, f, r, e, ok, j),
         l[n].kind = "returned" /\ j.pc \notin {"idle", "ack"} => j.cur \in 1..(n - 1)
  PROVE  AtLast(l, n, f, r, e, FALSE, Idle)
<1>0. n - 1 \in 0..Len(l) /\ Idle.pc = "idle"
  BY DEF Idle
<1>1. CASE l[n].kind = "returned"
  <2>1. CASE j.pc = "ack"
    BY <1>0, <1>1, <2>1, AgainFromExact DEF AtLast
  <2>2. CASE j.pc = "idle"
    <3>1. Again(l, 0, n - 1, f, r, e, ok)
      BY <1>1, <2>2 DEF AtLast
    <3>. QED  BY <1>0, <1>1, <3>1 DEF AtLast, Again
  <2>3. CASE j.pc \notin {"idle", "ack"}
    <3>1. j.cur - 1 \in 0..(n - 1) /\ Again(l, j.cur - 1, n - 1, f, r, e, ok)
      BY <1>1, <2>3 DEF AtLast, Returning
    <3>2. Again(l, 0, n - 1, f, r, e, FALSE)
      BY <1>0, <3>1, AgainFromPart
    <3>. QED  BY <1>0, <1>1, <3>2 DEF AtLast
  <2>. QED  BY <2>1, <2>2, <2>3
<1>2. CASE l[n].kind # "returned"
  <2>1. CASE j.pc # "ack"
    BY <1>0, <1>2, <2>1 DEF AtLast, InPart, Between
  <2>2. CASE j.pc = "ack" /\ l[n].kind = "retired"
    BY <1>0, <1>2, <2>2 DEF AtLast, InPart
  <2>3. CASE j.pc = "ack" /\ l[n].kind # "retired"
    <3>1. ~RetiredAt(l, n)
      BY <1>2, <2>3, RetiredNext
    <3>2. Standing(l, n, f, r) /\ Delivered(l, n) \subseteq e
      BY <2>3, <3>1 DEF AtLast, Exact
    <3>3. n \in 0..Len(l) /\ n - 1 \in 0..n
      OBVIOUS
    <3>4. Delivered(l, n - 1) \subseteq e
      BY <3>2, <3>3, DeliveredOn
    <3>. QED  BY <1>0, <1>2, <2>3, <3>2, <3>4 DEF AtLast, InPart, Between, Standing
  <2>. QED  BY <2>1, <2>2, <2>3
<1>. QED  BY <1>1, <1>2

\* A longer log leaves the keys as exact as they were.
LEMMA ExactAppend ==
  ASSUME NEW l \in Seq(Fact), NEW fact \in Fact, NEW n \in 0..Len(l),
         NEW f, NEW r, NEW e, NEW ok, Exact(l, n, f, r, e, ok)
  PROVE  Exact(Append(l, fact), n, f, r, e, ok)
<1>1. \A p \in Players :
        /\ Follows(Append(l, fact), n, p) <=> Follows(l, n, p)
        /\ LastSays(Append(l, fact), n, "unfollow", p) <=> LastSays(l, n, "unfollow", p)
  BY PrefixFollows, PrefixLast
<1>2. Delivered(Append(l, fact), n) = Delivered(l, n)
  BY PrefixDelivered
<1>3. RetiredAt(Append(l, fact), n) <=> RetiredAt(l, n)
  BY PrefixRetired
<1>. QED  BY <1>1, <1>2, <1>3 DEF Exact, Standing

-----------------------------------------------------------------------------
(* The steps.                                                               *)

\* Consumer c is through with its event, or with one of the past.
Finished(c, i, j) == IF c = "returned" THEN Moves(log, job[c].at, i, j) ELSE j.pc = "ack"

\* What a step of a handler does, by the event i that it applies and its player q.
Effect(c, i, q) ==
  \/ /\ log[i].kind = "rel" /\ job[c].pc = "apply" /\ UNCHANGED keyVars
     /\ job'[c] = [job[c] EXCEPT !.pc = IF q \in refused THEN "receipt" ELSE "add"]
  \/ /\ log[i].kind = "rel" /\ job[c].pc = "add"
     /\ followers' = followers \cup {q} /\ UNCHANGED <<refused, entries>>
     /\ job'[c] = [job[c] EXCEPT !.pc = "receipt"]
  \/ /\ log[i].kind = "post" /\ job[c].pc = "apply" /\ UNCHANGED keyVars
     /\ job'[c] = [job[c] EXCEPT !.pc = "write", !.seen = followers]
  \/ /\ log[i].kind = "retired" /\ job[c].pc = "apply"
     /\ followers' = {} /\ refused' = {} /\ UNCHANGED entries
     /\ job'[c] = [job[c] EXCEPT !.pc = "sweep", !.seen = Players]
  \/ /\ log[i].kind = "retired" /\ job[c].pc = "sweep"
     /\ UNCHANGED <<followers, refused>>
     /\ \E p \in Players :
          /\ entries' = {d \in entries : d[1] # p}
          /\ IF job[c].seen = {p} THEN Finished(c, i, job'[c])
             ELSE job'[c] = [job[c] EXCEPT !.seen = @ \ {p}]
  \/ /\ log[i].kind \notin Lifecycle
     /\ log[i].kind = "rel" => job[c].pc = "receipt"
     /\ job[c].pc = "write" => log[i].kind = "post"
     /\ (job[c].pc = "write" => job[c].seen = followers) =>
          Put(log[i], i, followers, refused, entries, followers', refused', entries')
     /\ Finished(c, i, job'[c])

\* That is what it does.
LEMMA WorkEffect ==
  ASSUME TypeOK, JobInv, NEW c \in Consumers, Work(c),
         NEW i, i = job[c].cur, NEW q, q = log[i].player
  PROVE  i \in 1..Len(log) /\ Effect(c, i, q)
<1>1. /\ job[c] # Idle /\ job \in [Consumers -> Jobs] /\ job[c] \in Jobs
      /\ Fits(log, status, c, job[c]) /\ log \in Seq(Fact)
  BY WorkJob DEF TypeOK, JobInv, Jobs
<1>2. job[c].pc \notin {"idle", "ack"}
  BY <1>1 DEF Work, CheckRefused, AddFollower, PushPrivate, SetFollow, ReadFollowers,
         FanOut, DropIndex, Sweep, At
<1>3. i \in 1..Len(log)
  BY <1>1, <1>2 DEF Fits
<1>4. Who(c) = q /\ \A pc, kinds : At(c, pc, kinds) <=> job[c].pc = pc /\ log[i].kind \in kinds
  BY DEF Who, At
<1>5. Done(c) => Finished(c, i, job'[c])
  <2>. DEFINE j == job[c]
              k == [j EXCEPT !.seen = {}]
  <2>1. k \in Jobs /\ k.at = job[c].at /\ k.cur = i
    BY <1>1 DEF Jobs
  <2>2. Done(c) => job' = [job EXCEPT ![c] = Applied(k)]
    BY DEF Done
  <2>. HIDE DEF k, j
  <2>3. Done(c) => job'[c] = Applied(k)
    BY <1>1, <2>2
  <2>4. job[c].at \in 1..Len(log) /\ status[job[c].at] = "held" /\ Consumer(log[job[c].at]) = c
    BY <1>1 DEF Fits
  <2>5. log[job[c].at] \in Fact
    BY <1>1, <2>4
  <2>6. CASE c = "returned"
    <3>1. Applied(k) = Past(k)
      BY <2>1, <2>4, <2>5, <2>6, ConsumerOf DEF Applied
    <3>2. Moves(log, k.at, k.cur, Past(k))
      BY <1>1, <2>1, <2>4, PastMoves
    <3>. QED  BY <2>1, <2>3, <2>6, <3>1, <3>2 DEF Finished
  <2>7. CASE c # "returned"
    <3>1. Applied(k).pc = "ack"
      BY <1>1, <2>1, <2>4, <2>7, AppliedFits
    <3>. QED  BY <2>3, <2>7, <3>1 DEF Finished
  <2>. QED  BY <2>6, <2>7
<1>6. \A x : Goto(c, x) => job'[c] = [job[c] EXCEPT !.pc = x]
  BY <1>1 DEF Goto
<1>7. CASE CheckRefused(c)
  BY <1>3, <1>4, <1>6, <1>7 DEF CheckRefused, Effect
<1>8. CASE AddFollower(c)
  BY <1>3, <1>4, <1>6, <1>8 DEF AddFollower, Effect
<1>9. CASE PushPrivate(c)
  <2>1. entries' = entries \cup ({q} \X {i}) /\ UNCHANGED <<followers, refused>>
    BY <1>4, <1>9 DEF PushPrivate, Deliver
  <2>2. \/ log[i].kind = "rel" /\ job[c].pc = "receipt"
        \/ log[i].kind = "reply" /\ job[c].pc = "apply"
    BY <1>4, <1>9 DEF PushPrivate
  <2>3. Put(log[i], i, followers, refused, entries, followers', refused', entries')
    BY <2>1, <2>2 DEF Put
  <2>. QED  BY <1>3, <1>5, <1>9, <2>2, <2>3 DEF PushPrivate, Lifecycle, Effect
<1>10. CASE SetFollow(c)
  <2>1. log[i].kind \in Declaration /\ job[c].pc = "apply"
    BY <1>4, <1>10 DEF SetFollow
  <2>2. Put(log[i], i, followers, refused, entries, followers', refused', entries')
    BY <1>4, <1>10, <2>1 DEF SetFollow, Put, Declaration
  <2>. QED  BY <1>3, <1>5, <1>10, <2>1, <2>2 DEF SetFollow, Lifecycle, Declaration, Effect
<1>11. CASE ReadFollowers(c)
  <2>1. log[i].kind = "post" /\ job[c].pc = "apply" /\ UNCHANGED keyVars
    BY <1>4, <1>11 DEF ReadFollowers
  <2>2. CASE followers = {}
    <3>1. entries' = entries \cup (followers \X {i})
      BY <2>1, <2>2 DEF keyVars
    <3>2. Put(log[i], i, followers, refused, entries, followers', refused', entries')
      BY <2>1, <3>1 DEF Put, keyVars
    <3>. QED  BY <1>3, <1>5, <1>11, <2>1, <2>2, <3>2 DEF ReadFollowers, Lifecycle, Effect
  <2>3. CASE followers # {}
    BY <1>1, <1>3, <1>11, <2>1, <2>3 DEF ReadFollowers, Effect
  <2>. QED  BY <2>2, <2>3
<1>12. CASE FanOut(c)
  <2>1. /\ log[i].kind = "post" /\ job[c].pc = "write"
        /\ entries' = entries \cup (job[c].seen \X {i}) /\ UNCHANGED <<followers, refused>>
    BY <1>4, <1>12 DEF FanOut, Deliver
  <2>2. job[c].seen = followers =>
          Put(log[i], i, followers, refused, entries, followers', refused', entries')
    BY <2>1 DEF Put
  <2>. QED  BY <1>3, <1>5, <1>12, <2>1, <2>2 DEF FanOut, Lifecycle, Effect
<1>13. CASE DropIndex(c)
  BY <1>1, <1>3, <1>4, <1>13 DEF DropIndex, Effect
<1>14. CASE \E p \in Players : Sweep(c, p)
  <2>1. PICK p \in Players : Sweep(c, p)
    BY <1>14
  <2>2. /\ log[i].kind = "retired" /\ job[c].pc = "sweep"
        /\ UNCHANGED <<followers, refused>> /\ entries' = {d \in entries : d[1] # p}
    BY <1>4, <2>1 DEF Sweep
  <2>3. IF job[c].seen = {p} THEN Finished(c, i, job'[c])
        ELSE job'[c] = [job[c] EXCEPT !.seen = @ \ {p}]
    BY <1>1, <1>5, <2>1 DEF Sweep
  <2>. QED  BY <1>3, <2>2, <2>3 DEF Effect
<1>. QED  BY <1>7, <1>8, <1>9, <1>10, <1>11, <1>12, <1>13, <1>14 DEF Work

\* The keys, by what the last of n events has come to.
Stage(l, st, jb, n, f, r, e, ok) ==
  IF n = 0 \/ st[n] = "done" THEN Exact(l, n, f, r, e, ok)
  ELSE IF st[n] = "new" THEN Exact(l, n - 1, f, r, e, ok)
  ELSE AtLast(l, n, f, r, e, ok, jb[Consumer(l[n])])

\* As long as none was parked the keys are as far as the last event is.
SettleInv ==
  calm =>
    /\ \A i \in 1..(Len(log) - 1) : status[i] \in {"done", "dead"}
    /\ (\A i \in 1..Len(log) : status[i] # "dead") =>
         Stage(log, status, job, Len(log), followers, refused, entries, faults = 0)

\* When events come one by one only the last is in anybody's hands.
LEMMA OnlyLast ==
  ASSUME TypeOK, JobInv, SettleInv, calm, NEW c \in Consumers, job[c] # Idle
  PROVE  /\ job[c].at = Len(log) /\ Len(log) \in 1..Len(log)
         /\ status[Len(log)] = "held" /\ Consumer(log[Len(log)]) = c
<1>1. Fits(log, status, c, job[c]) /\ Len(log) \in Nat
  BY DEF JobInv, TypeOK
<1>2. job[c].at \in 1..Len(log) /\ status[job[c].at] = "held"
  BY <1>1 DEF Fits
<1>3. job[c].at \notin 1..(Len(log) - 1)
  BY <1>2 DEF SettleInv
<1>4. job[c].at = Len(log)
  BY <1>1, <1>2, <1>3
<1>. QED  BY <1>1, <1>2, <1>4 DEF Fits

\* A handler's step takes the keys on with the event in hand.
LEMMA WorkSettles ==
  ASSUME TypeOK, JobInv, LogInv, NEW c \in Consumers, Work(c),
         NEW n, n = Len(log), job[c].at = n, Consumer(log[n]) = c, n \in 1..Len(log),
         NEW ok, AtLast(log, n, followers, refused, entries, ok, job[c])
  PROVE  AtLast(log, n, followers', refused', entries', ok, job'[c])
<1>. DEFINE j == job[c]
            k == job'[c]
<1>0. /\ log \in Seq(Fact) /\ n - 1 \in 0..Len(log) /\ n - 1 \in Nat
      /\ job[c] # Idle /\ job[c] \in Jobs /\ Fits(log, status, c, job[c]) /\ log[n] \in Fact
      /\ followers \in SUBSET Players /\ entries \subseteq Players \X (1..Len(log))
  BY WorkJob DEF TypeOK, JobInv, Jobs
<1>1. /\ \A m \in 0..Len(log) : DecidedAt(log, m)
      /\ log[n].kind = "returned" <=> RetiredAt(log, n - 1)
      /\ c = "returned" <=> log[n].kind = "returned"
  BY <1>0, ConsumerOf DEF LogInv
<1>2. j.pc \notin {"idle", "ack"}
  BY <1>0 DEF Work, CheckRefused, AddFollower, PushPrivate, SetFollow, ReadFollowers,
         FanOut, DropIndex, Sweep, At, Fits
<1>3. PICK i : i = job[c].cur
  OBVIOUS
<1>4. PICK q : q = log[i].player
  OBVIOUS
<1>7. Effect(c, i, q)
  BY <1>3, <1>4, WorkEffect
<1>5. CASE c # "returned"
  <2>1. i = n /\ InPart(log, n, followers, refused, entries, ok, j)
    BY <1>0, <1>1, <1>2, <1>3, <1>5 DEF Fits, AtLast
  <2>2. ~RetiredAt(log, n - 1) /\ DecidedAt(log, n - 1) /\ log[n].kind # "returned"
    BY <1>0, <1>1, <1>5
  <2>3. log[n].kind # "retired" =>
          /\ Between(log, n, followers, refused, entries, ok)
          /\ j.pc = "add" => q \notin refused
          /\ j.pc = "receipt" => Members(log, n, followers)
          /\ j.pc = "write" => j.seen = followers
    BY <1>4, <2>1 DEF InPart
  <2>4. CASE /\ log[i].kind = "rel" /\ UNCHANGED keyVars
             /\ k = [j EXCEPT !.pc = IF q \in refused THEN "receipt" ELSE "add"]
    <3>1. k.pc = IF q \in refused THEN "receipt" ELSE "add"
      BY <1>0, <2>4 DEF Jobs
    <3>2. /\ log \in Seq(Fact) /\ n \in 1..Len(log) /\ DecidedAt(log, n - 1)
          /\ q = log[n].player /\ log[n].kind = "rel"
          /\ Between(log, n, followers, refused, entries, ok)
      BY <1>0, <1>4, <2>1, <2>2, <2>3, <2>4
    <3>3. q \in refused => Members(log, n, followers)
      BY <3>2, RelInPart
    <3>. QED  BY <1>4, <2>1, <2>2, <2>3, <2>4, <3>1, <3>3 DEF AtLast, InPart, keyVars
  <2>5. CASE /\ log[i].kind = "rel" /\ j.pc = "add"
             /\ followers' = followers \cup {q} /\ UNCHANGED <<refused, entries>>
             /\ k = [j EXCEPT !.pc = "receipt"]
    <3>1. k.pc = "receipt"
      BY <1>0, <2>5 DEF Jobs
    <3>2. /\ log \in Seq(Fact) /\ n \in 1..Len(log) /\ DecidedAt(log, n - 1)
          /\ q = log[n].player /\ log[n].kind = "rel" /\ q \notin refused
          /\ Between(log, n, followers, refused, entries, ok)
      BY <1>0, <1>4, <2>1, <2>2, <2>3, <2>5
    <3>3. /\ Members(log, n, followers \cup {q})
          /\ Between(log, n, followers \cup {q}, refused, entries, ok)
      BY <3>2, RelInPart
    <3>. QED  BY <2>1, <2>2, <2>5, <3>1, <3>3 DEF AtLast, InPart
  <2>6. CASE /\ log[i].kind = "post" /\ UNCHANGED keyVars
             /\ k = [j EXCEPT !.pc = "write", !.seen = followers]
    <3>1. k.pc = "write" /\ k.seen = followers
      BY <1>0, <2>6 DEF Jobs
    <3>. QED  BY <2>1, <2>2, <2>3, <2>6, <3>1 DEF AtLast, InPart, keyVars
  <2>7. CASE /\ log[i].kind = "retired"
             /\ followers' = {} /\ refused' = {} /\ UNCHANGED entries
             /\ k = [j EXCEPT !.pc = "sweep", !.seen = Players]
    <3>1. k.pc = "sweep" /\ k.seen = Players
      BY <1>0, <2>7 DEF Jobs
    <3>. QED  BY <1>0, <2>1, <2>7, <3>1 DEF AtLast, InPart
  <2>8. CASE /\ log[i].kind = "retired" /\ j.pc = "sweep"
             /\ UNCHANGED <<followers, refused>>
             /\ \E p \in Players :
                  /\ entries' = {d \in entries : d[1] # p}
                  /\ IF j.seen = {p} THEN Finished(c, i, k)
                     ELSE k = [j EXCEPT !.seen = @ \ {p}]
    <3>1. PICK p \in Players :
                  /\ entries' = {d \in entries : d[1] # p}
                  /\ IF j.seen = {p} THEN Finished(c, i, k)
                     ELSE k = [j EXCEPT !.seen = @ \ {p}]
      BY <2>8
    <3>2. followers = {} /\ refused = {} /\ \A d \in entries : d[1] \in j.seen
      BY <2>1, <2>8 DEF InPart
    <3>3. CASE j.seen = {p}
      <4>1. k.pc = "ack" /\ entries' = {}
        BY <1>5, <3>1, <3>2, <3>3 DEF Finished
      <4>2. RetiredAt(log, n)
        BY <1>0, <2>1, <2>8, RetiredNext
      <4>. QED  BY <2>8, <3>2, <4>1, <4>2 DEF AtLast, Exact
    <3>4. CASE j.seen # {p}
      <4>1. k.pc = "sweep" /\ k.seen = j.seen \ {p}
        BY <1>0, <2>8, <3>1, <3>4 DEF Jobs
      <4>. QED  BY <2>1, <2>8, <3>1, <3>2, <4>1 DEF AtLast, InPart
    <3>. QED  BY <3>3, <3>4
  <2>9. CASE /\ log[i].kind \notin Lifecycle
             /\ log[i].kind = "rel" => j.pc = "receipt"
             /\ (j.pc = "write" => j.seen = followers) =>
                  Put(log[i], i, followers, refused, entries, followers', refused', entries')
             /\ Finished(c, i, k)
    <3>1. k.pc = "ack"
      BY <1>5, <2>9 DEF Finished
    <3>2. log[n].kind # "retired"
      BY <2>1, <2>9 DEF Lifecycle
    <3>3. /\ Between(log, n, followers, refused, entries, ok)
          /\ Put(log[n], n, followers, refused, entries, followers', refused', entries')
          /\ log[n].kind = "rel" => Members(log, n, followers)
      BY <2>1, <2>3, <2>9, <3>2
    <3>4. Exact(log, n, followers', refused', entries', ok)
      BY <1>0, <2>1, <2>2, <2>9, <3>3, PutInPart
    <3>. QED  BY <3>1, <3>4 DEF AtLast
  <2>. QED  BY <1>7, <2>4, <2>5, <2>6, <2>7, <2>8, <2>9 DEF Effect
<1>6. CASE c = "returned"
  <2>0. log[n].kind = "returned" /\ Returning(log, n, followers, refused, entries, ok, j)
    BY <1>1, <1>2, <1>6 DEF AtLast
  <2>1. /\ i \in 1..(n - 1) /\ log[i].kind \notin Lifecycle
        /\ Returning(log, n, followers, refused, entries, ok, j)
        /\ log[n].kind = "returned"
    BY <1>0, <1>2, <1>3, <1>6, <2>0 DEF Fits
  <2>2. /\ DecidedAt(log, n - 1) /\ DecidedAt(log, i - 1) /\ DecidedAt(log, i)
        /\ i \in 0..(n - 1)
    BY <1>0, <1>1, <2>1
  <2>3. /\ Again(log, i - 1, n - 1, followers, refused, entries, ok)
        /\ ok => Members(log, IF j.pc = "receipt" THEN i ELSE i - 1, followers)
        /\ j.pc = "add" => q \notin refused
        /\ j.pc = "receipt" => q \in followers \cup refused
        /\ j.pc = "write" => j.seen = followers
    BY <1>3, <1>4, <2>1 DEF Returning
  <2>4. CASE /\ log[i].kind = "rel" /\ j.pc = "apply" /\ UNCHANGED keyVars
             /\ k = [j EXCEPT !.pc = IF q \in refused THEN "receipt" ELSE "add"]
    <3>1. k.pc = (IF q \in refused THEN "receipt" ELSE "add") /\ k.cur = i
      BY <1>0, <1>3, <2>4 DEF Jobs
    <3>2. ok => Members(log, i - 1, followers)
      BY <2>3, <2>4
    <3>3. q \in refused /\ ok => Members(log, i, followers)
      <4>. SUFFICES ASSUME q \in refused, ok PROVE Members(log, i, followers)
        OBVIOUS
      <4>1. /\ log \in Seq(Fact) /\ i \in 1..Len(log) /\ DecidedAt(log, i - 1)
            /\ log[i].kind = "rel" /\ log[i].player \in refused
            /\ Members(log, i - 1, followers)
            /\ \A p \in Players : p \in refused <=> LastSays(log, i - 1, "unfollow", p)
        BY <1>0, <1>4, <2>1, <2>2, <2>3, <2>4, <3>2 DEF Again
      <4>. QED  BY <4>1, RelMembers
    <3>. QED  BY <1>4, <2>1, <2>3, <2>4, <3>1, <3>2, <3>3 DEF AtLast, Returning, keyVars
  <2>5. CASE /\ log[i].kind = "rel" /\ j.pc = "add"
             /\ followers' = followers \cup {q} /\ UNCHANGED <<refused, entries>>
             /\ k = [j EXCEPT !.pc = "receipt"]
    <3>1. k.pc = "receipt" /\ k.cur = i
      BY <1>0, <1>3, <2>5 DEF Jobs
    <3>2. ok => Members(log, i - 1, followers)
      BY <2>3, <2>5
    <3>3. Again(log, i - 1, n - 1, followers \cup {q}, refused, entries, ok)
      <4>1. /\ log \in Seq(Fact) /\ n - 1 \in 0..Len(log) /\ i \in 1..(n - 1)
            /\ DecidedAt(log, i - 1) /\ log[i].kind = "rel"
            /\ Again(log, i - 1, n - 1, followers, refused, entries, ok)
            /\ log[i].player \notin refused
        BY <1>0, <1>4, <2>1, <2>2, <2>3, <2>5
      <4>. QED  BY <1>4, <4>1, RelAgain
    <3>4. ok => Members(log, i, followers \cup {q})
      <4>. SUFFICES ASSUME ok PROVE Members(log, i, followers \cup {q})
        OBVIOUS
      <4>1. /\ log \in Seq(Fact) /\ i \in 1..Len(log) /\ DecidedAt(log, i - 1)
            /\ log[i].kind = "rel" /\ log[i].player \notin refused
            /\ Members(log, i - 1, followers)
            /\ \A p \in Players : p \in refused <=> LastSays(log, i - 1, "unfollow", p)
        BY <1>0, <1>4, <2>1, <2>2, <2>3, <2>5, <3>2 DEF Again
      <4>. QED  BY <1>4, <4>1, RelMembers
    <3>. QED  BY <1>4, <2>1, <2>5, <3>1, <3>3, <3>4 DEF AtLast, Returning
  <2>6. CASE /\ log[i].kind = "post" /\ j.pc = "apply" /\ UNCHANGED keyVars
             /\ k = [j EXCEPT !.pc = "write", !.seen = followers]
    <3>1. k.pc = "write" /\ k.seen = followers /\ k.cur = i
      BY <1>0, <1>3, <2>6 DEF Jobs
    <3>. QED  BY <2>1, <2>3, <2>6, <3>1 DEF AtLast, Returning, keyVars
  <2>7. CASE /\ log[i].kind \notin Lifecycle
             /\ log[i].kind = "rel" => j.pc = "receipt"
             /\ j.pc = "write" => log[i].kind = "post"
             /\ (j.pc = "write" => j.seen = followers) =>
                  Put(log[i], i, followers, refused, entries, followers', refused', entries')
             /\ Finished(c, i, k)
    <3>1. /\ Moves(log, n, i, k)
          /\ Put(log[i], i, followers, refused, entries, followers', refused', entries')
          /\ log[i].kind = "rel" => log[i].player \in followers \cup refused
      BY <1>4, <1>6, <2>3, <2>7 DEF Finished
    <3>2. ok => Members(log, IF log[i].kind = "rel" THEN i ELSE i - 1, followers)
      <4>1. j.pc = "receipt" => log[i].kind = "rel"
        BY <1>0, <1>3, <1>6 DEF Fits
      <4>. QED  BY <2>3, <2>7, <4>1
    <3>4. /\ log \in Seq(Fact) /\ n - 1 \in 0..Len(log) /\ i \in 1..(n - 1)
          /\ DecidedAt(log, i - 1) /\ DecidedAt(log, i) /\ log[i].kind \notin Lifecycle
          /\ followers \in SUBSET Players
          /\ Again(log, i - 1, n - 1, followers, refused, entries, ok)
      BY <1>0, <2>1, <2>2, <2>3
    <3>3. /\ Again(log, i, n - 1, followers', refused', entries', ok)
          /\ ok => Members(log, i, followers')
      BY <3>1, <3>2, <3>4, PutAgain
    <3>. QED  BY <1>0, <2>1, <2>2, <3>1, <3>3, ReturnGoesOn
  <2>8. log[i].kind # "retired"
    BY <2>1 DEF Lifecycle
  <2>. QED  BY <1>7, <2>4, <2>5, <2>6, <2>7, <2>8 DEF Effect
<1>. QED  BY <1>5, <1>6

\* A consumer that takes the last event finds keys to start from.
LEMMA TakeSettles ==
  ASSUME TypeOK, JobInv, LogInv, InTurn, NEW n, n = Len(log), n \in 1..Len(log),
         NEW c \in Consumers, Take(c, n),
         Stage(log, status, job, n, followers, refused, entries, faults = 0)
  PROVE  AtLast(log, n, followers, refused, entries, faults = 0, job'[c])
<1>1. /\ job[c] = Idle /\ Consumer(log[n]) = c /\ status[n] \in {"late", "new"}
      /\ c # "returned" => job'[c].pc = "apply"
      /\ c = "returned" => Moves(log, n, 0, job'[c])
  BY TakeEffect
<1>2. /\ log \in Seq(Fact) /\ log[n] \in Fact /\ n - 1 \in 0..Len(log) /\ 0 \in 0..(n - 1)
      /\ Idle.pc = "idle"
  BY DEF TypeOK, Idle
<1>3. /\ DecidedAt(log, n - 1)
      /\ log[n].kind = "returned" <=> RetiredAt(log, n - 1)
      /\ c = "returned" <=> log[n].kind = "returned"
  BY <1>1, <1>2, ConsumerOf DEF LogInv
<1>4. CASE status[n] = "new"
  <2>1. Exact(log, n - 1, followers, refused, entries, faults = 0)
    BY <1>2, <1>4 DEF Stage
  <2>2. CASE c # "returned"
    <3>1. /\ Standing(log, n - 1, followers, refused)
          /\ Delivered(log, n - 1) \subseteq entries
          /\ faults = 0 => entries = Delivered(log, n - 1)
      BY <1>3, <2>1, <2>2 DEF Exact
    <3>. QED  BY <1>1, <1>3, <2>2, <3>1 DEF AtLast, InPart, Between, Standing
  <2>3. CASE c = "returned"
    <3>0. RetiredAt(log, n - 1)
      BY <1>3, <2>3
    <3>1. followers = {} /\ refused = {} /\ entries = {}
      BY <2>1, <3>0 DEF Exact
    <3>2. Again(log, 0, n - 1, followers, refused, entries, faults = 0)
      BY <1>2, <3>1, AgainFromNothing
    <3>3. Members(log, 0, followers)
      <4>1. Wanted(log, 0) = {}
        BY KeysAtStart DEF Keys
      <4>. QED  BY <3>1, <4>1 DEF Wanted, Members
    <3>. QED  BY <1>1, <1>2, <1>3, <2>3, <3>2, <3>3, ReturnGoesOn
  <2>. QED  BY <2>2, <2>3
<1>5. CASE status[n] = "late"
  <2>1. ~(faults = 0)
    BY <1>5 DEF InTurn
  <2>2. AtLast(log, n, followers, refused, entries, faults = 0, Idle)
    BY <1>1, <1>2, <1>5 DEF Stage
  <2>3. CASE c # "returned"
    BY <1>1, <1>2, <1>3, <2>2, <2>3 DEF AtLast, InPart
  <2>4. CASE c = "returned"
    <3>1. Again(log, 0, n - 1, followers, refused, entries, faults = 0)
      BY <1>2, <1>3, <2>2, <2>4 DEF AtLast
    <3>2. log[n].kind = "returned" /\ Moves(log, n, 0, job'[c])
      BY <1>1, <1>3, <2>4
    <3>3. /\ log \in Seq(Fact) /\ n \in 1..Len(log) /\ DecidedAt(log, n - 1)
          /\ 0 \in 0..(n - 1)
      BY <1>2, <1>3
    <3>. QED  BY <2>1, <3>1, <3>2, <3>3, ReturnGoesOn
  <2>. QED  BY <2>3, <2>4
<1>. QED  BY <1>1, <1>4, <1>5

\* No step leaves the keys anywhere else.
LEMMA SettleStep ==
  TypeOK /\ JobInv /\ LogInv /\ InTurn /\ SettleInv /\ [Next]_vars => SettleInv'
<1>. SUFFICES ASSUME TypeOK, JobInv, LogInv, InTurn, SettleInv, [Next]_vars, calm'
              PROVE  SettleInv'
  BY DEF SettleInv
<1>0. /\ log \in Seq(Fact) /\ Len(log) \in Nat /\ faults \in Nat /\ calm
      /\ status \in [1..Len(log) -> Statuses] /\ job \in [Consumers -> Jobs]
  <2>1. calm' = calm
    BY DEF Next, vars
  <2>. QED  BY <2>1, ProjectionAssumption DEF TypeOK, Statuses, Jobs
<1>1. \A i \in 1..(Len(log) - 1) : status[i] \in {"done", "dead"}
  BY <1>0 DEF SettleInv
<1>2. (\A i \in 1..Len(log) : status[i] # "dead") =>
        Stage(log, status, job, Len(log), followers, refused, entries, faults = 0)
  BY <1>0 DEF SettleInv
<1>3. ASSUME NEW fact \in Fact, Publish(fact) PROVE SettleInv'
  <2>. DEFINE n == Len(log)
  <2>1. /\ log' = Append(log, fact) /\ Len(log') = n + 1 /\ status'[n + 1] = "new"
        /\ \A i \in 1..n : status'[i] = status[i]
        /\ UNCHANGED <<job, keyVars, faults>>
    BY <1>3, PublishEffect
  <2>2. \A i \in 1..n : status[i] \in {"done", "dead"}
    BY <1>0, <1>3 DEF Publish, Settled
  <2>3. \A i \in 1..(Len(log') - 1) : status'[i] \in {"done", "dead"}
    BY <1>0, <2>1, <2>2
  <2>4. ASSUME \A i \in 1..Len(log') : status'[i] # "dead"
        PROVE  Stage(log', status', job', Len(log'), followers', refused', entries', faults' = 0)
    <3>1. \A i \in 1..n : status[i] # "dead"
      BY <1>0, <2>1, <2>4
    <3>2. n = 0 \/ status[n] = "done"
      BY <1>0, <2>2, <3>1
    <3>3. Exact(log, n, followers, refused, entries, faults = 0)
      BY <1>2, <3>1, <3>2 DEF Stage
    <3>4. Exact(log', n, followers, refused, entries, faults = 0)
      BY <1>0, <2>1, <3>3, ExactAppend
    <3>5. n + 1 # 0 /\ (n + 1) - 1 = n
      BY <1>0
    <3>. HIDE DEF n
    <3>. QED  BY <2>1, <3>4, <3>5 DEF Stage, keyVars
  <2>. QED  BY <2>3, <2>4 DEF SettleInv
<1>4. ASSUME log' = log, \A i \in 1..(Len(log) - 1) : status'[i] = status[i],
             (\A i \in 1..Len(log) : status[i] # "dead" /\ status'[i] # "dead") =>
               Stage(log, status', job', Len(log), followers', refused', entries', faults' = 0),
             \A i \in 1..Len(log) : status[i] = "dead" => status'[i] = "dead"
      PROVE  SettleInv'
  BY <1>1, <1>4 DEF SettleInv
<1>5. ASSUME NEW c \in Consumers, NEW i \in 1..Len(log), Take(c, i) PROVE SettleInv'
  <2>1. PICK n : n = Len(log)
    OBVIOUS
  <2>2. /\ job[c] = Idle /\ Consumer(log[i]) = c /\ status[i] \in {"late", "new"}
        /\ status' = [status EXCEPT ![i] = "held"]
        /\ UNCHANGED <<log, keyVars, faults>>
    BY <1>5, TakeEffect
  <2>3. i = n /\ n \in 1..Len(log)
    <3>1. i \notin 1..(Len(log) - 1)
      BY <1>1, <2>2
    <3>. QED  BY <1>0, <2>1, <3>1
  <2>4. status'[n] = "held" /\ \A k \in 1..Len(log) : k # n => status'[k] = status[k]
    BY <1>0, <2>2, <2>3
  <2>5. ASSUME \A k \in 1..Len(log) : status[k] # "dead"
        PROVE  AtLast(log, n, followers, refused, entries, faults = 0, job'[c])
    BY <1>2, <1>5, <2>1, <2>3, <2>5, TakeSettles
  <2>6. ASSUME \A k \in 1..Len(log) : status[k] # "dead"
        PROVE  Stage(log, status', job', n, followers', refused', entries', faults' = 0)
    BY <2>2, <2>3, <2>4, <2>5, <2>6 DEF Stage, keyVars
  <2>7. \A k \in 1..(Len(log) - 1) : status'[k] = status[k]
    BY <1>0, <2>1, <2>4
  <2>8. \A k \in 1..Len(log) : status[k] = "dead" => status'[k] = "dead"
    BY <2>2, <2>3, <2>4
  <2>. QED  BY <1>4, <2>1, <2>2, <2>6, <2>7, <2>8
<1>6. ASSUME NEW c \in Consumers, job[c] # Idle, Work(c) PROVE SettleInv'
  <2>1. PICK n : n = Len(log)
    OBVIOUS
  <2>2. /\ job[c].at = n /\ n \in 1..Len(log) /\ status[n] = "held" /\ Consumer(log[n]) = c
    BY <1>0, <1>6, <2>1, OnlyLast
  <2>3. log' = log /\ status' = status /\ faults' = faults
    BY <1>6, WorkJob DEF queueVars
  <2>4. ASSUME \A k \in 1..Len(log) : status[k] # "dead"
        PROVE  Stage(log, status', job', n, followers', refused', entries', faults' = 0)
    <3>1. AtLast(log, n, followers, refused, entries, faults = 0, job[c])
      BY <1>0, <1>2, <2>1, <2>2, <2>4 DEF Stage
    <3>2. AtLast(log, n, followers', refused', entries', faults = 0, job'[c])
      BY <1>6, <2>1, <2>2, <3>1, WorkSettles
    <3>. QED  BY <1>0, <2>1, <2>2, <2>3, <3>2 DEF Stage
  <2>. QED  BY <1>4, <2>1, <2>3, <2>4
<1>7. ASSUME NEW c \in Consumers, job[c] # Idle, NEW how \in {"done", "late", "dead"},
             Release(c, how),
             \/ how = "done" /\ job[c].pc = "ack" /\ faults' = faults
             \/ how # "done" /\ Fault
      PROVE  SettleInv'
  <2>1. PICK n : n = Len(log)
    OBVIOUS
  <2>2. /\ job[c].at = n /\ n \in 1..Len(log) /\ status[n] = "held" /\ Consumer(log[n]) = c
    BY <1>0, <1>7, <2>1, OnlyLast
  <2>3. /\ log' = log /\ UNCHANGED keyVars /\ job'[c] = Idle /\ status'[n] = how
        /\ \A k \in 1..Len(log) : k # n => status'[k] = status[k]
    BY <1>0, <1>7, <2>2 DEF Release
  <2>4. ASSUME \A k \in 1..Len(log) : status[k] # "dead" /\ status'[k] # "dead"
        PROVE  Stage(log, status', job', n, followers', refused', entries', faults' = 0)
    <3>1. AtLast(log, n, followers, refused, entries, faults = 0, job[c])
      BY <1>0, <1>2, <2>1, <2>2, <2>4 DEF Stage
    <3>2. CASE how = "done"
      BY <1>7, <2>3, <3>1, <3>2 DEF AtLast, Stage, keyVars
    <3>3. CASE how = "late"
      <4>1. ~(faults' = 0)
        BY <1>0, <1>7, <3>3 DEF Fault
      <4>2. /\ DecidedAt(log, n - 1)
            /\ log[n].kind = "returned" <=> RetiredAt(log, n - 1)
        BY <1>0, <2>1, <2>2 DEF LogInv
      <4>3. log[n].kind = "returned" /\ job[c].pc \notin {"idle", "ack"} => job[c].cur \in 1..(n - 1)
        <5>1. c = "returned" <=> log[n].kind = "returned"
          BY <1>0, <2>2, ConsumerOf
        <5>. QED  BY <1>7, <2>2, <5>1 DEF JobInv, Fits
      <4>4. AtLast(log, n, followers, refused, entries, FALSE, Idle)
        BY <1>0, <2>2, <3>1, <4>2, <4>3, Abandoned
      <4>5. (faults' = 0) = FALSE
        BY <4>1
      <4>6. n # 0 /\ status'[n] = "late"
        BY <2>2, <2>3, <3>3
      <4>. QED  BY <2>2, <2>3, <4>4, <4>5, <4>6 DEF Stage, keyVars
    <3>4. how # "dead"
      BY <2>2, <2>3, <2>4
    <3>. QED  BY <3>2, <3>3, <3>4
  <2>5. \A k \in 1..(Len(log) - 1) : status'[k] = status[k]
    BY <1>0, <2>1, <2>3
  <2>6. \A k \in 1..Len(log) : status[k] = "dead" => status'[k] = "dead"
    BY <2>2, <2>3
  <2>. QED  BY <1>4, <2>1, <2>3, <2>4, <2>5, <2>6
<1>8. CASE Crash
  <2>1. PICK c \in Consumers : job[c] # Idle
    BY <1>8 DEF Crash
  <2>2. PICK n : n = Len(log)
    OBVIOUS
  <2>3. /\ job[c].at = n /\ n \in 1..Len(log) /\ status[n] = "held" /\ Consumer(log[n]) = c
    BY <1>0, <2>1, <2>2, OnlyLast
  <2>4. /\ log' = log /\ UNCHANGED keyVars /\ job'[c] = Idle /\ status'[n] = "late"
        /\ faults' = faults + 1
        /\ \A k \in 1..Len(log) : status'[k] = IF status[k] = "held" THEN "late" ELSE status[k]
    BY <1>0, <1>8, <2>3 DEF Crash, Fault
  <2>5. ASSUME \A k \in 1..Len(log) : status[k] # "dead" /\ status'[k] # "dead"
        PROVE  Stage(log, status', job', n, followers', refused', entries', faults' = 0)
    <3>1. AtLast(log, n, followers, refused, entries, faults = 0, job[c])
      BY <1>0, <1>2, <2>2, <2>3, <2>5 DEF Stage
    <3>2. (faults' = 0) = FALSE
      BY <1>0, <2>4
    <3>3. /\ DecidedAt(log, n - 1)
          /\ log[n].kind = "returned" <=> RetiredAt(log, n - 1)
      BY <1>0, <2>2, <2>3 DEF LogInv
    <3>4. log[n].kind = "returned" /\ job[c].pc \notin {"idle", "ack"} => job[c].cur \in 1..(n - 1)
      <4>1. c = "returned" <=> log[n].kind = "returned"
        BY <1>0, <2>3, ConsumerOf
      <4>. QED  BY <2>1, <2>3, <4>1 DEF JobInv, Fits
    <3>5. AtLast(log, n, followers, refused, entries, FALSE, Idle)
      BY <1>0, <2>3, <3>1, <3>3, <3>4, Abandoned
    <3>6. n # 0
      BY <2>3
    <3>. QED  BY <2>3, <2>4, <3>2, <3>5, <3>6 DEF Stage, keyVars
  <2>6. \A k \in 1..(Len(log) - 1) : status'[k] = status[k]
    BY <1>0, <1>1, <2>4
  <2>7. \A k \in 1..Len(log) : status[k] = "dead" => status'[k] = "dead"
    BY <2>4
  <2>. QED  BY <1>4, <2>2, <2>4, <2>5, <2>6, <2>7
<1>9. CASE UNCHANGED vars
  BY <1>2, <1>4, <1>9 DEF vars, queueVars, keyVars
<1>10. \A c \in Consumers : Work(c) => job[c] # Idle
  BY WorkJob
<1>. QED  BY <1>3, <1>5, <1>6, <1>7, <1>8, <1>9, <1>10, Steps

\* When events come one by one, delivery at least once is enough: whatever fails,
\* crashes, retires and returns on the way, the index is the fold of the log and
\* the timelines hold what the actor is owed (timeline.py, redis_projector.py).
THEOREM TimelinesDoSettle == Spec => []TimelinesSettle
<1>1. Init => LogInv /\ InTurn /\ SettleInv
  <2>. SUFFICES ASSUME Init PROVE LogInv /\ InTurn /\ SettleInv
    OBVIOUS
  <2>1. log = <<>> /\ Len(log) = 0 /\ followers = {} /\ refused = {} /\ entries = {}
    BY DEF Init
  <2>2. 1..Len(log) = {} /\ 0..Len(log) = {0} /\ 1..(Len(log) - 1) = {}
    BY <2>1
  <2>3. LogInv
    BY <2>1, <2>2 DEF LogInv, DecidedAt, LastSays, Declared
  <2>4. InTurn
    BY <2>2 DEF InTurn
  <2>5. Exact(log, 0, {}, {}, {}, faults = 0)
    BY KeysAtStart DEF Exact, Standing, Keys, Wanted, Refusing
  <2>6. SettleInv
    BY <2>1, <2>2, <2>5 DEF SettleInv, Stage
  <2>. QED  BY <2>3, <2>4, <2>6
<1>2. TypeOK /\ SettleInv => TimelinesSettle
  <2>. SUFFICES ASSUME TypeOK, SettleInv, calm, Clean
                PROVE  /\ followers = Fold(log)
                       /\ IF RetiredAt(log, Len(log)) THEN entries = {}
                          ELSE /\ Delivered(log, Len(log)) \subseteq entries
                               /\ faults = 0 => entries = Delivered(log, Len(log))
    BY DEF TimelinesSettle
  <2>1. Len(log) \in Nat /\ followers \subseteq Players
    BY DEF TypeOK
  <2>2. Exact(log, Len(log), followers, refused, entries, faults = 0)
    BY <2>1 DEF SettleInv, Stage, Clean
  <2>. QED  BY <2>1, <2>2 DEF Exact, Standing, Fold, Wanted
<1>3. Spec => [](TypeOK /\ JobInv /\ LogInv /\ InTurn /\ SettleInv)
  BY <1>1, InitTyped, StepTyped, LogStep, InTurnStep, SettleStep, PTL DEF Spec
<1>. QED  BY <1>2, <1>3, PTL
=============================================================================
