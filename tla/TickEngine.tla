------------------------------ MODULE TickEngine ------------------------------
(***************************************************************************)
(* The heartbeat of a world (engine/tick, engine.py; engine/actor,         *)
(* shard_barrier.py).  One worker leads: it holds a PostgreSQL session     *)
(* advisory lock and appends started / completed events to the tick        *)
(* stream.  In distributed mode the others follow: the leader pushes the   *)
(* tick number to their signal list in Redis, they run the tick for the    *)
(* actors of their shards and write an ack, and the leader completes the   *)
(* tick when all acks are there or a deadline has passed.  A follower that *)
(* hears nothing for a while tries to take the lead.                       *)
(*                                                                         *)
(* The leader's appends use the very session that holds the lock.  When    *)
(* that session is lost the lock is free, but the worker notices at its    *)
(* next append only; until then it still signals and runs its shard.       *)
(* Redis survives its clients: signals and acks stay when a worker dies.   *)
(***************************************************************************)
EXTENDS Integers, Sequences

CONSTANTS
  Workers,      \* actor-runtime processes, each owning its own shards
  NoWorker,     \* the advisory lock is free
  Distributed,  \* is there a shard barrier (LF_NUM_SHARDS > 1)?
  MaxTick,      \* bound: last tick that is run
  MaxFaults     \* bound: crashes and lost sessions

ASSUME TickAssumption ==
  /\ NoWorker \notin Workers
  /\ Distributed \in BOOLEAN
  /\ MaxTick \in Nat
  /\ MaxFaults \in Nat

VARIABLES
  log,      \* the tick stream: <<started 0, completed 0, started 1, ...>>
  lock,     \* holder of the world's leadership lock
  worker,   \* what each worker is doing, at which tick, its view of the head
  go,       \* lf:tickgo, the ticks signalled to a worker and not taken yet
  acks,     \* lf:tickack, <<tick, worker>> pairs
  ran,      \* the last tick each worker ran for its shards, -1 for none
  faults    \* faults so far

vars == <<log, lock, worker, go, acks, ran, faults>>

Event == [type : {"started", "completed"}, tick : Nat]

Leading == {"lead", "signal", "phases", "acks", "complete"}
Worker == [pc : {"down", "idle", "wait", "run", "ack"} \cup Leading,
           tick : Nat, head : Nat, todo : SUBSET Workers]

TypeOK ==
  /\ log \in Seq(Event)
  /\ lock \in Workers \cup {NoWorker}
  /\ worker \in [Workers -> Worker]
  /\ go \in [Workers -> SUBSET Nat]
  /\ acks \subseteq Nat \X Workers
  /\ ran \in [Workers -> Nat \cup {-1}]
  /\ faults \in 0..MaxFaults

At(pc) == [pc |-> pc, tick |-> 0, head |-> 0, todo |-> {}]

Init ==
  /\ log = <<>>
  /\ lock = NoWorker
  /\ worker = [w \in Workers |-> At("idle")]
  /\ go = [w \in Workers |-> {}]
  /\ acks = {}
  /\ ran = [w \in Workers |-> -1]
  /\ faults = 0

-----------------------------------------------------------------------------
Goto(w, pc) == worker' = [worker EXCEPT ![w].pc = pc]

\* Mutant: a started tick is taken for done.
PositionSkips ==
  IF log = <<>> THEN 0 ELSE log[Len(log)].tick + 1

\* Mutant: the last tick of the log is run again, completed or not.
PositionRepeats ==
  IF log = <<>> THEN 0 ELSE log[Len(log)].tick

\* restore_position: after a completed tick the next one, after a started one
\* the same one again.
Position ==
  IF log = <<>> THEN 0
  ELSE LET last == log[Len(log)]
       IN IF last.type = "completed" THEN last.tick + 1 ELSE last.tick

\* Mutant: the result of pg_try_advisory_lock is not looked at.
LeadAnyway(w) ==
  /\ worker[w].pc = "idle"
  /\ lock' = w
  /\ worker' = [worker EXCEPT ![w] = [pc |-> "lead", tick |-> Position,
                                      head |-> Len(log), todo |-> {}]]
  /\ UNCHANGED <<log, go, acks, ran, faults>>

\* try_acquire_world_leadership succeeds.
Lead(w) ==
  /\ worker[w].pc = "idle"
  /\ lock = NoWorker
  /\ lock' = w
  /\ worker' = [worker EXCEPT ![w] = [pc |-> "lead", tick |-> Position,
                                      head |-> Len(log), todo |-> {}]]
  /\ UNCHANGED <<log, go, acks, ran, faults>>

\* Mutant: a refused append is logged and the loop goes on.
AppendTickOrIgnore(w, type) ==
  log' = IF lock = w /\ worker[w].head = Len(log)
         THEN Append(log, [type |-> type, tick |-> worker[w].tick])
         ELSE log

\* append with expected_head, on the session that holds the lock.
AppendTick(w, type) ==
  /\ lock = w
  /\ worker[w].head = Len(log)
  /\ log' = Append(log, [type |-> type, tick |-> worker[w].tick])

\* run_tick: the started event is appended before anyone runs the tick.
BeginTick(w) ==
  /\ worker[w].pc = "lead"
  /\ worker[w].tick <= MaxTick
  /\ AppendTick(w, "started")
  /\ worker' = [worker EXCEPT ![w] =
                  [pc   |-> IF Distributed THEN "signal" ELSE "phases",
                   tick |-> @.tick, head |-> @.head + 1,
                   todo |-> IF Distributed THEN Workers \ {w} ELSE {}]]
  /\ UNCHANGED <<lock, go, acks, ran, faults>>

\* barrier.signal, one list after the other.
Signal(w, v) ==
  /\ worker[w].pc = "signal"
  /\ v \in worker[w].todo
  /\ go' = [go EXCEPT ![v] = @ \cup {worker[w].tick}]
  /\ worker' = [worker EXCEPT ![w].todo = @ \ {v}]
  /\ UNCHANGED <<log, lock, acks, ran, faults>>

\* _run_phases: world, perceive, decide, resolve, consolidate for own shards.
LeaderRuns(w) ==
  /\ \/ worker[w].pc = "phases"
     \/ worker[w].pc = "signal" /\ worker[w].todo = {}
  /\ ran' = [ran EXCEPT ![w] = worker[w].tick]
  /\ Goto(w, IF Distributed THEN "acks" ELSE "complete")
  /\ UNCHANGED <<log, lock, go, acks, faults>>

\* wait_acks: the hash of the tick has every other shard.
AllAcked(w) ==
  /\ worker[w].pc = "acks"
  /\ \A v \in Workers \ {w} : <<worker[w].tick, v>> \in acks
  /\ Goto(w, "complete")
  /\ UNCHANGED <<log, lock, go, acks, ran, faults>>

\* Mutant: the deadline is not checked.
AckNoTimeout(w) ==
  /\ worker[w].pc = "acks"
  /\ \A v \in Workers \ {w} : <<worker[w].tick, v>> \in acks
  /\ Goto(w, "complete")
  /\ UNCHANGED <<log, lock, go, acks, ran, faults>>

\* ... or the deadline passes: the missing shards were silent in this tick.
AckTimeout(w) ==
  /\ worker[w].pc = "acks"
  /\ Goto(w, "complete")
  /\ UNCHANGED <<log, lock, go, acks, ran, faults>>

\* Mutant: the loop forgets to advance its tick.
CompleteTickStays(w) ==
  /\ worker[w].pc = "complete"
  /\ AppendTick(w, "completed")
  /\ worker' = [worker EXCEPT ![w] = [pc |-> "lead", tick |-> @.tick,
                                      head |-> @.head + 1, todo |-> {}]]
  /\ UNCHANGED <<lock, go, acks, ran, faults>>

CompleteTick(w) ==
  /\ worker[w].pc = "complete"
  /\ AppendTick(w, "completed")
  /\ worker' = [worker EXCEPT ![w] = [pc |-> "lead", tick |-> @.tick + 1,
                                      head |-> @.head + 1, todo |-> {}]]
  /\ UNCHANGED <<lock, go, acks, ran, faults>>

\* The append of a leader without a session, or with a stale head, raises out
\* of the loop and the process ends.
Fenced(w) ==
  /\ worker[w].pc \in {"lead", "complete"}
  /\ lock # w \/ worker[w].head # Len(log)
  /\ worker' = [worker EXCEPT ![w] = At("down")]
  /\ lock' = IF lock = w THEN NoWorker ELSE lock
  /\ UNCHANGED <<log, go, acks, ran, faults>>

-----------------------------------------------------------------------------
\* The lock is taken; without a barrier the worker stands by and tries again.
Follow(w) ==
  /\ worker[w].pc = "idle"
  /\ Distributed
  /\ lock # NoWorker
  /\ Goto(w, "wait")
  /\ UNCHANGED <<log, lock, go, acks, ran, faults>>

\* next_signal: all pending signals are drained, the newest one is followed.
TakeSignal(w, t) ==
  /\ worker[w].pc = "wait"
  /\ t \in go[w] /\ \A u \in go[w] : u <= t
  /\ go' = [go EXCEPT ![w] = {}]
  /\ worker' = [worker EXCEPT ![w].pc = "run", ![w].tick = t]
  /\ UNCHANGED <<log, lock, acks, ran, faults>>

FollowerRuns(w) ==
  /\ worker[w].pc = "run"
  /\ ran' = [ran EXCEPT ![w] = worker[w].tick]
  /\ Goto(w, "ack")
  /\ UNCHANGED <<log, lock, go, acks, faults>>

Ack(w) ==
  /\ worker[w].pc = "ack"
  /\ acks' = acks \cup {<<worker[w].tick, w>>}
  /\ Goto(w, "wait")
  /\ UNCHANGED <<log, lock, go, ran, faults>>

\* next_signal gave up after the silence budget: try to lead.
Silence(w) ==
  /\ worker[w].pc = "wait"
  /\ go[w] = {}
  /\ Goto(w, "idle")
  /\ UNCHANGED <<log, lock, go, acks, ran, faults>>

-----------------------------------------------------------------------------
Fault == faults < MaxFaults /\ faults' = faults + 1

Crash(w) ==
  /\ worker[w].pc # "down"
  /\ Fault
  /\ worker' = [worker EXCEPT ![w] = At("down")]
  /\ lock' = IF lock = w THEN NoWorker ELSE lock
  /\ UNCHANGED <<log, go, acks, ran>>

LoseSession(w) ==
  /\ lock = w
  /\ Fault
  /\ lock' = NoWorker
  /\ UNCHANGED <<log, worker, go, acks, ran>>

Restart(w) ==
  /\ worker[w].pc = "down"
  /\ worker' = [worker EXCEPT ![w] = At("idle")]
  /\ UNCHANGED <<log, lock, go, acks, ran, faults>>

Work(w) ==
  \/ Lead(w) \/ BeginTick(w) \/ LeaderRuns(w) \/ CompleteTick(w) \/ Fenced(w)
  \/ \E v \in Workers : Signal(w, v)
  \/ AllAcked(w) \/ AckTimeout(w)
  \/ \E t \in go[w] : TakeSignal(w, t)
  \/ FollowerRuns(w) \/ Ack(w)
  \/ Follow(w) \/ Silence(w)
  \/ Restart(w)

Next == \E w \in Workers : Work(w) \/ Crash(w) \/ LoseSession(w)

Spec == Init /\ [][Next]_vars

\* Every wait of a worker has a deadline, and the deployment restarts it.
FairSpec == Spec /\ \A w \in Workers : WF_vars(Work(w))

-----------------------------------------------------------------------------
\* World time neither skips nor repeats, whoever led when and whatever crashed:
\* a tick completes right after it started, the next one starts after it
\* completed, and a tick that was interrupted is started again under the same
\* number (engine.py: restore_position, _lead).
NoTickSkippedOrRepeated ==
  \A i \in 1..Len(log) :
    LET e == log[i]
        before == IF i = 1 THEN [type |-> "completed", tick |-> -1]
                  ELSE log[i - 1]
    IN IF e.type = "completed"
       THEN before = [type |-> "started", tick |-> e.tick]
       ELSE IF before.type = "completed" THEN e.tick = before.tick + 1
                                         ELSE e.tick = before.tick

Started(t) == \E i \in 1..Len(log) : log[i] = [type |-> "started", tick |-> t]

\* No shard runs a tick the log does not say has started.
NoRunAhead ==
  \A w \in Workers : ran[w] # -1 => Started(ran[w])

\* Without a fault no tick is started twice: late acks, silent signals and
\* impatient followers are not enough to make one run again.
RerunOnlyAfterFault ==
  faults = 0 => \A i, j \in 1..Len(log) : log[i] = log[j] => i = j

\* Every tick completes, after any bounded number of crashes and lost sessions.
EveryTickCompletes ==
  \A t \in 0..MaxTick :
    <>(\E i \in 1..Len(log) : log[i] = [type |-> "completed", tick |-> t])

-----------------------------------------------------------------------------
Running == log # <<>> /\ log[Len(log)].type = "started"

\* The tick stream seen as a clock: crashes, failovers and reruns do not show.
Clock == INSTANCE WorldClock WITH now <- Position, running <- Running

ClockSpec == Clock!Spec

\* The holder of the lock knows the head and is at the tick the log says.
LeaderInv ==
  \A w \in Workers : lock = w =>
    /\ worker[w].pc \in Leading
    /\ worker[w].head = Len(log)
    /\ worker[w].tick = Position
    /\ worker[w].pc # "lead" => Running

\* Signals and running shards stem from started ticks, a stale leader's too.
StartedInv ==
  \A w \in Workers :
    /\ \A t \in go[w] : Started(t)
    /\ worker[w].pc \in {"signal", "phases", "acks", "complete", "run", "ack"}
       => Started(worker[w].tick)
    /\ ran[w] # -1 => Started(ran[w])

\* The inductive invariant behind NoTickSkippedOrRepeated and NoRunAhead.
TickInv == TypeOK /\ NoTickSkippedOrRepeated /\ LeaderInv /\ StartedInv

\* What makes RerunOnlyAfterFault inductive: the log is of ticks before the
\* position but for a start of the one that runs, and until something fails the
\* leader that started it is still there to complete it.
RerunInv ==
  /\ \A i \in 1..Len(log) :
       /\ log[i].tick <= Position
       /\ log[i].tick = Position => log[i].type = "started" /\ Running
  /\ faults = 0 /\ Running => \E w \in Workers : lock = w /\ worker[w].pc # "lead"
  /\ RerunOnlyAfterFault
=============================================================================
