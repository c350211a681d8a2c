-------------------------- MODULE TimelineProjection --------------------------
(***************************************************************************)
(* The live timeline projector (services/projector: redis_projector.py,    *)
(* timeline.py).  Six durable consumers, one per kind of event, write the  *)
(* same Redis keys; each takes its own events in order, nothing orders one *)
(* consumer after another, and every await is a point where the others go  *)
(* on.  A handler that fails asks for redelivery and its consumer goes on  *)
(* with the next event; a message delivered too often is parked; a crash   *)
(* delivers again what was not acknowledged.                               *)
(*                                                                         *)
(* One actor; timelines are not trimmed (TIMELINE_CAP is out of reach), a  *)
(* batch is one message.                                                   *)
(***************************************************************************)
EXTENDS TimelineFold

CONSTANTS
  MaxCalm,     \* bound: events in the log when they come one by one
  MaxRush,     \* bound: events in the log when they do not
  MaxDeliver,  \* Config.max_deliver
  MaxFaults    \* bound: failed handlers and crashes

ASSUME ProjectionAssumption ==
  /\ {MaxCalm, MaxRush, MaxFaults} \subseteq Nat
  /\ MaxDeliver \in Nat \ {0}
  /\ Players # {}

VARIABLES
  calm,       \* in this behaviour an event happens only when all before it settled
  log,        \* the events of the actor, in the order of the event store
  status,     \* what JetStream knows of each of them
  tries,      \* num_delivered
  job,        \* what each consumer is doing
  followers,  \* lf:tlflw of the actor
  refused,    \* lf:tlunfl of the actor
  entries,    \* <<player, event>>: the actor's entries in the lf:tl keys
  faults

queueVars == <<log, status, tries>>
keyVars == <<followers, refused, entries>>
vars == <<calm, queueVars, job, keyVars, faults>>

Consumers == {"rel", "follow", "post", "reply", "retired", "returned"}

\* _sources: the consumer that hears of an event.
Consumer(fact) == IF fact.kind = "unfollow" THEN "follow" ELSE fact.kind

Idle == [at |-> 0, cur |-> 0, pc |-> "idle", seen |-> {}]

\* at: the event taken; cur: the event being applied, one of the past when at is
\* a return; seen: the players a step has read and still has to write to.
TypeOK ==
  /\ calm \in BOOLEAN
  /\ log \in Seq(Fact)
  /\ status \in [1..Len(log) -> {"new", "held", "late", "done", "dead"}]
  /\ tries \in [1..Len(log) -> Nat]
  /\ job \in [Consumers ->
                [at : 0..Len(log), cur : 0..Len(log), seen : SUBSET Players,
                 pc : {"idle", "apply", "add", "receipt", "write", "sweep",
                       "ack"}]]
  /\ followers \subseteq Players /\ refused \subseteq Players
  /\ entries \subseteq Players \X (1..Len(log))
  /\ faults \in 0..MaxFaults

Init ==
  /\ calm \in BOOLEAN
  /\ log = <<>> /\ status = <<>> /\ tries = <<>>
  /\ job = [c \in Consumers |-> Idle]
  /\ followers = {} /\ refused = {} /\ entries = {}
  /\ faults = 0

Settled == \A i \in 1..Len(log) : status[i] \in {"done", "dead"}

Publish(fact) ==
  /\ Len(log) < IF calm THEN MaxCalm ELSE MaxRush
  /\ calm => Settled
  /\ MayFollow(log, fact)
  /\ log' = Append(log, fact)
  /\ status' = Append(status, "new")
  /\ tries' = Append(tries, 0)
  /\ UNCHANGED <<job, keyVars, faults>>

-----------------------------------------------------------------------------
\* return_envelopes: the actor's events before its return, in order, without
\* its lifecycle.
Past(j) ==
  LET rest == {k \in (j.cur + 1)..(j.at - 1) : log[k].kind \notin Lifecycle}
  IN IF rest = {} THEN [j EXCEPT !.pc = "ack"]
     ELSE [j EXCEPT !.pc = "apply",
                    !.cur = CHOOSE k \in rest : \A m \in rest : k <= m]

Applied(j) == IF log[j.at].kind = "returned" THEN Past(j)
                                             ELSE [j EXCEPT !.pc = "ack"]

\* Mutant: a consumer takes its events in any order.
TakeAny(c, i) ==
  /\ job[c] = Idle
  /\ Consumer(log[i]) = c
  /\ status[i] \in {"late", "new"}
  /\ status' = [status EXCEPT ![i] = "held"]
  /\ tries' = [tries EXCEPT ![i] = @ + 1]
  /\ LET j == [at |-> i, cur |-> i, pc |-> "apply", seen |-> {}]
     IN job' = [job EXCEPT ![c] = IF log[i].kind = "returned"
                                  THEN Past([j EXCEPT !.cur = 0]) ELSE j]
  /\ UNCHANGED <<log, keyVars, faults>>

\* In the order of the stream, redeliveries whenever they are due.
Take(c, i) ==
  /\ job[c] = Idle
  /\ Consumer(log[i]) = c
  /\ \/ status[i] = "late"
     \/ /\ status[i] = "new"
        /\ \A k \in 1..(i - 1) : Consumer(log[k]) = c => status[k] # "new"
  /\ status' = [status EXCEPT ![i] = "held"]
  /\ tries' = [tries EXCEPT ![i] = @ + 1]
  /\ LET j == [at |-> i, cur |-> i, pc |-> "apply", seen |-> {}]
     IN job' = [job EXCEPT ![c] = IF log[i].kind = "returned"
                                  THEN Past([j EXCEPT !.cur = 0]) ELSE j]
  /\ UNCHANGED <<log, keyVars, faults>>

\* Consumer c is at this point of applying an event of one of these kinds.
At(c, pc, kinds) == job[c].pc = pc /\ log[job[c].cur].kind \in kinds

Who(c) == log[job[c].cur].player

Goto(c, pc) == job' = [job EXCEPT ![c].pc = pc]
Done(c) == job' = [job EXCEPT ![c] = Applied([@ EXCEPT !.seen = {}])]

Deliver(c, players) == entries' = entries \cup (players \X {job[c].cur})

\* register_follower: SISMEMBER of the refusals ...
CheckRefused(c) ==
  /\ At(c, "apply", {"rel"})
  /\ Goto(c, IF Who(c) \in refused THEN "receipt" ELSE "add")
  /\ UNCHANGED <<queueVars, keyVars, faults>>

\* ... then SADD.
AddFollower(c) ==
  /\ At(c, "add", {"rel"})
  /\ followers' = followers \cup {Who(c)}
  /\ Goto(c, "receipt")
  /\ UNCHANGED <<queueVars, refused, entries, faults>>

\* push_receipt and push_reply.
PushPrivate(c) ==
  /\ At(c, "receipt", {"rel"}) \/ At(c, "apply", {"reply"})
  /\ Deliver(c, {Who(c)})
  /\ Done(c)
  /\ UNCHANGED <<queueVars, followers, refused, faults>>

\* set_follow, one MULTI.
SetFollow(c) ==
  /\ At(c, "apply", Declaration)
  /\ IF At(c, "apply", {"follow"})
     THEN followers' = followers \cup {Who(c)} /\ refused' = refused \ {Who(c)}
     ELSE followers' = followers \ {Who(c)} /\ refused' = refused \cup {Who(c)}
  /\ Done(c)
  /\ UNCHANGED <<queueVars, entries, faults>>

\* fan_out_post: SMEMBERS of the followers ...
ReadFollowers(c) ==
  /\ At(c, "apply", {"post"})
  /\ IF followers = {} THEN Done(c)
     ELSE job' = [job EXCEPT ![c].pc = "write", ![c].seen = followers]
  /\ UNCHANGED <<queueVars, keyVars, faults>>

\* ... then ZADD to each of them, one MULTI.
FanOut(c) ==
  /\ At(c, "write", {"post"})
  /\ Deliver(c, job[c].seen)
  /\ Done(c)
  /\ UNCHANGED <<queueVars, followers, refused, faults>>

\* retire_actor: DEL of both sets ...
DropIndex(c) ==
  /\ At(c, "apply", {"retired"})
  /\ followers' = {} /\ refused' = {}
  /\ job' = [job EXCEPT ![c].pc = "sweep", ![c].seen = Players]
  /\ UNCHANGED <<queueVars, entries, faults>>

\* Mutant: one timeline only.
SweepFirst(c, p) ==
  /\ At(c, "sweep", {"retired"})
  /\ p \in job[c].seen
  /\ entries' = {e \in entries : e[1] # p}
  /\ Done(c)
  /\ UNCHANGED <<queueVars, followers, refused, faults>>

\* ... then one timeline after the other, in the order of SCAN.
Sweep(c, p) ==
  /\ At(c, "sweep", {"retired"})
  /\ p \in job[c].seen
  /\ entries' = {e \in entries : e[1] # p}
  /\ IF job[c].seen = {p} THEN Done(c)
     ELSE job' = [job EXCEPT ![c].seen = @ \ {p}]
  /\ UNCHANGED <<queueVars, followers, refused, faults>>

Release(c, how) ==
  /\ status' = [status EXCEPT ![job[c].at] = how]
  /\ job' = [job EXCEPT ![c] = Idle]
  /\ UNCHANGED <<log, tries, keyVars>>

Ack(c) ==
  /\ job[c].pc = "ack"
  /\ Release(c, "done")
  /\ UNCHANGED faults

Fault == faults < MaxFaults /\ faults' = faults + 1

\* Mutant: a failed message is acknowledged.
FailsAcked(c) ==
  /\ job[c] # Idle
  /\ Fault
  /\ Release(c, "done")

\* An exception: nak with a delay, or parked.
Fails(c) ==
  /\ job[c] # Idle
  /\ Fault
  /\ Release(c, IF tries[job[c].at] >= MaxDeliver THEN "dead" ELSE "late")

\* Mutant: JetStream does not deliver again what a crash left unacknowledged.
CrashForgotten ==
  /\ \E c \in Consumers : job[c] # Idle
  /\ Fault
  /\ job' = [c \in Consumers |-> Idle]
  /\ UNCHANGED <<queueVars, keyVars>>

Crash ==
  /\ \E c \in Consumers : job[c] # Idle
  /\ Fault
  /\ job' = [c \in Consumers |-> Idle]
  /\ status' = [i \in 1..Len(log) |->
                  IF status[i] = "held" THEN "late" ELSE status[i]]
  /\ UNCHANGED <<log, tries, keyVars>>

Handle(c) ==
  \/ \E i \in 1..Len(log) : Take(c, i)
  \/ CheckRefused(c) \/ AddFollower(c) \/ PushPrivate(c)
  \/ SetFollow(c)
  \/ ReadFollowers(c) \/ FanOut(c)
  \/ DropIndex(c) \/ \E p \in Players : Sweep(c, p)
  \/ Ack(c)

Next ==
  /\ \/ \E fact \in Fact : Publish(fact)
     \/ \E c \in Consumers : Handle(c) \/ Fails(c)
     \/ Crash
  /\ UNCHANGED calm

Spec == Init /\ [][Next]_vars
-----------------------------------------------------------------------------
\* Types, and: an event is out for delivery exactly while its consumer works on it,
\* a consumer only ever applies that event or, of a return, one of its past, and
\* it has read what it still has to write, so nothing is stuck and nothing is
\* applied that was not taken.
ProjectorInv ==
  /\ TypeOK
  /\ \A i \in 1..Len(log) :
       status[i] = "held" <=> \E c \in Consumers : job[c] # Idle /\ job[c].at = i
  /\ \A c \in Consumers : job[c] # Idle =>
       /\ Consumer(log[job[c].at]) = c
       /\ job[c].pc # "ack" =>
            IF c = "returned" THEN job[c].cur \in 1..(job[c].at - 1)
                              ELSE job[c].cur = job[c].at
       /\ job[c].pc \in {"write", "sweep"} => job[c].seen # {}

\* Every event was applied, none was parked.
Clean == \A i \in 1..Len(log) : status[i] = "done"

Happened(kinds, p) == \E i \in 1..Len(log) : Says(log, i, kinds, p)

Lives == \A i \in 1..Len(log) : log[i].kind \notin Lifecycle

\* p both has a relationship and withdrew: two consumers write its membership.
Contested(p) == Happened({"rel"}, p) /\ LastSays(log, Len(log), "unfollow", p)

\* p's declarations may have been redelivered out of order.
Shuffled(p) ==
  faults > 0 /\ \E i, k \in 1..Len(log) :
    i # k /\ Says(log, i, Declaration, p) /\ Says(log, k, Declaration, p)

\* However the six consumers interleave, once everything is consumed the index of
\* an actor that never retired is the fold of the log (timeline_verify.py), except
\* for players over whom two consumers, or two deliveries, can race.
FollowersConverge ==
  Clean /\ Lives =>
    \A p \in Players : ~Contested(p) /\ ~Shuffled(p) =>
      (p \in followers) = Follows(log, Len(log), p)

\* A reply or a receipt reaches the player it is for, also when handlers fail or
\* the projector crashes between a write and its acknowledgement.
PrivateArrives ==
  Clean /\ Lives =>
    \A i \in 1..Len(log) :
      log[i].kind \in {"rel", "reply"} => <<log[i].player, i>> \in entries

\* When events come one by one, delivery at least once is enough: through failures,
\* crashes, retirements and returns the index is the fold of the log; a retired actor
\* has left every timeline, a returned one is back with everything it had sent, and
\* without faults with nothing else (timeline.py retire_actor, redis_projector.py).
TimelinesSettle ==
  calm /\ Clean =>
    /\ followers = Fold(log)
    /\ IF RetiredAt(log, Len(log)) THEN entries = {}
       ELSE /\ Delivered(log, Len(log)) \subseteq entries
            /\ faults = 0 => entries = Delivered(log, Len(log))

-----------------------------------------------------------------------------
\* timeline.py:5-6: a withdrawal wins, also over a relationship that exists.
WithdrawalWins ==
  Clean /\ Lives =>
    \A p \in Players : LastSays(log, Len(log), "unfollow", p) => p \notin followers
=============================================================================
