--------------------------- MODULE TickEngineProofs ---------------------------
(* World time neither skips nor repeats, for any number of workers, ticks    *)
(* and faults, with and without shards.                                      *)
EXTENDS TickEngine, TLAPS

\* Idle workers and an empty tick stream satisfy the invariant.
LEMMA InitTickInv == Init => TickInv
<1> SUFFICES ASSUME Init PROVE TickInv
  OBVIOUS
<1>1. TypeOK
  BY TickAssumption DEF Init, TypeOK, At, Worker, Leading
<1>2. LeaderInv
  BY TickAssumption DEF Init, LeaderInv
<1>3. StartedInv
  BY DEF Init, StartedInv, At
<1>4. NoTickSkippedOrRepeated
  BY DEF Init, NoTickSkippedOrRepeated
<1>5. QED
  BY <1>1, <1>2, <1>3, <1>4 DEF TickInv

(* Steps that append nothing and give the lock to nobody.                    *)
LEMMA QuietTickInv ==
  ASSUME TickInv, TypeOK', log' = log, NEW w \in Workers,
         lock' = lock \/ lock' = NoWorker,
         \A v \in Workers \ {w} : worker'[v] = worker[v],
         lock' = w => /\ worker'[w].pc \in Leading
                      /\ worker'[w].head = worker[w].head
                      /\ worker'[w].tick = worker[w].tick
                      /\ (worker'[w].pc = "lead") <=> (worker[w].pc = "lead"),
         \A v \in Workers : \A t \in go'[v] \ go[v] : Started(t),
         \A v \in Workers : ran'[v] # ran[v] => Started(ran'[v]),
         worker'[w].pc \in {"signal", "phases", "acks", "complete", "run", "ack"}
           => Started(worker'[w].tick)
  PROVE  TickInv'
<1>1. Position' = Position /\ Running' = Running
      /\ (\A t : Started(t)' <=> Started(t))
  BY DEF Position, Running, Started
<1>2. NoTickSkippedOrRepeated'
  BY DEF TickInv, NoTickSkippedOrRepeated
<1>3. LeaderInv'
  BY <1>1, TickAssumption DEF TickInv, LeaderInv
<1>4. StartedInv'
  BY <1>1 DEF TickInv, StartedInv
<1>5. QED
  BY <1>2, <1>3, <1>4 DEF TickInv

\* Every step of a worker keeps the types.
LEMMA StepTypeOK ==
  ASSUME TypeOK, NEW w \in Workers, Work(w) \/ Crash(w) \/ LoseSession(w)
  PROVE  TypeOK'
<1>1. worker[w] \in Worker /\ worker \in [Workers -> Worker]
  BY DEF TypeOK
<1>2. Position \in Nat /\ Len(log) \in Nat
  <2>1. log \in Seq(Event) /\ Len(log) \in Nat
    BY DEF TypeOK
  <2>2. log # <<>> => log[Len(log)] \in Event
    BY <2>1
  <2>3. log # <<>> => log[Len(log)].tick \in Nat
    BY <2>2 DEF Event
  <2>4. QED
    BY <2>1, <2>3 DEF Position
<1>3. At("down") \in Worker /\ At("idle") \in Worker
  BY DEF At, Worker
<1>4. ASSUME NEW pc \in {"down", "idle", "wait", "run", "ack"} \cup Leading,
             Goto(w, pc)
      PROVE  worker' \in [Workers -> Worker]
  <2>1. [worker[w] EXCEPT !.pc = pc] \in Worker
    BY <1>1 DEF Worker
  <2>2. QED
    BY <1>1, <1>4, <2>1 DEF Goto
<1>5. ASSUME NEW type \in {"started", "completed"}, AppendTick(w, type)
      PROVE  log' \in Seq(Event)
  BY <1>1, <1>5 DEF AppendTick, TypeOK, Event, Worker
<1>6. CASE Lead(w)
  <2>1. [pc |-> "lead", tick |-> Position, head |-> Len(log), todo |-> {}]
          \in Worker
    BY <1>2 DEF Worker, Leading
  <2>2. QED
    BY <1>1, <1>6, <2>1 DEF Lead, TypeOK
<1>7. CASE BeginTick(w)
  <2>1. /\ worker' \in [Workers -> Worker]
    <3>1. \A pc \in Leading, todo \in SUBSET Workers :
            [pc |-> pc, tick |-> worker[w].tick, head |-> worker[w].head + 1,
             todo |-> todo] \in Worker
      BY <1>1 DEF Worker
    <3>2. PICK pc \in Leading, todo \in SUBSET Workers :
            worker' = [worker EXCEPT ![w] =
                        [pc |-> pc, tick |-> worker[w].tick,
                         head |-> worker[w].head + 1, todo |-> todo]]
      BY <1>7 DEF BeginTick, Leading
    <3>3. QED
      BY <1>1, <3>1, <3>2
  <2>2. QED
    BY <1>5, <1>7, <2>1 DEF BeginTick, TypeOK
<1>8. CASE \E v \in Workers : Signal(w, v)
  <2>1. PICK v \in Workers : Signal(w, v)
    BY <1>8
  <2>2. [worker[w] EXCEPT !.todo = @ \ {v}] \in Worker
    BY <1>1 DEF Worker
  <2>3. worker[w].tick \in Nat
    BY <1>1 DEF Worker
  <2>4. QED
    BY <1>1, <2>1, <2>2, <2>3 DEF Signal, TypeOK
<1>9. CASE LeaderRuns(w)
  <2>1. worker[w].tick \in Nat
    BY <1>1 DEF Worker
  <2>2. QED
    BY <1>4, <1>9, <2>1 DEF LeaderRuns, TypeOK, Leading
<1>10. CASE AllAcked(w) \/ AckTimeout(w)
  BY <1>4, <1>10 DEF AllAcked, AckTimeout, TypeOK, Leading
<1>11. CASE CompleteTick(w)
  <2>1. [pc |-> "lead", tick |-> worker[w].tick + 1,
         head |-> worker[w].head + 1, todo |-> {}] \in Worker
    BY <1>1 DEF Worker, Leading
  <2>2. QED
    BY <1>1, <1>5, <1>11, <2>1 DEF CompleteTick, TypeOK
<1>12. CASE Fenced(w) \/ Restart(w)
  BY <1>1, <1>3, <1>12 DEF Fenced, Restart, TypeOK
<1>13. CASE Follow(w) \/ Silence(w)
  BY <1>4, <1>13 DEF Follow, Silence, TypeOK
<1>14. CASE \E t \in go[w] : TakeSignal(w, t)
  <2>1. PICK t \in go[w] : TakeSignal(w, t)
    BY <1>14
  <2>2. t \in Nat
    BY DEF TypeOK
  <2>3. [worker[w] EXCEPT !.pc = "run", !.tick = t] \in Worker
    BY <1>1, <2>2 DEF Worker
  <2>4. QED
    BY <1>1, <2>1, <2>3 DEF TakeSignal, TypeOK
<1>15. CASE FollowerRuns(w)
  <2>1. worker[w].tick \in Nat
    BY <1>1 DEF Worker
  <2>2. QED
    BY <1>4, <1>15, <2>1 DEF FollowerRuns, TypeOK
<1>16. CASE Ack(w)
  <2>1. worker[w].tick \in Nat
    BY <1>1 DEF Worker
  <2>2. QED
    BY <1>4, <1>16, <2>1 DEF Ack, TypeOK
<1>17. CASE Crash(w)
  BY <1>1, <1>3, <1>17, TickAssumption DEF Crash, Fault, TypeOK
<1>18. CASE LoseSession(w)
  BY <1>18, TickAssumption DEF LoseSession, Fault, TypeOK
<1>19. QED
  BY <1>6, <1>7, <1>8, <1>9, <1>10, <1>11, <1>12, <1>13, <1>14, <1>15, <1>16,
     <1>17, <1>18 DEF Work

(* An append by the holder of the lock extends a well-formed tick stream.    *)
LEMMA AppendTickInv ==
  ASSUME TickInv, TypeOK', NEW w \in Workers,
         NEW type \in {"started", "completed"}, AppendTick(w, type),
         (type = "completed") <=> (worker[w].pc # "lead"),
         \A v \in Workers \ {w} : worker'[v] = worker[v],
         worker'[w].head = worker[w].head + 1,
         worker'[w].tick = worker[w].tick + (IF type = "completed" THEN 1 ELSE 0),
         (type = "completed") <=> (worker'[w].pc = "lead"),
         worker'[w].pc \in Leading,
         UNCHANGED <<lock, go, ran>>
  PROVE  /\ TickInv'
         /\ Position' = Position + (IF type = "completed" THEN 1 ELSE 0)
         /\ type = "started" => Running' = TRUE
         /\ type = "completed" => Running' = FALSE /\ Running
<1> DEFINE e == [type |-> type, tick |-> worker[w].tick]
<1>1. /\ log \in Seq(Event) /\ log' = Append(log, e) /\ lock = w
      /\ worker[w].head = Len(log) /\ worker[w].tick \in Nat
      /\ worker[w].tick = Position
  BY DEF TickInv, TypeOK, AppendTick, LeaderInv, Worker
<1>2. /\ Len(log') = Len(log) + 1 /\ Len(log) \in Nat /\ log' # <<>>
      /\ log'[Len(log')] = e
      /\ \A i \in 1..Len(log) : log'[i] = log[i]
  BY <1>1
<1>3. Position' = Position + (IF type = "completed" THEN 1 ELSE 0)
  BY <1>1, <1>2 DEF Position
<1>4. Running' = (type = "started")
  BY <1>2 DEF Running
<1>5. type = "completed" => Running
  BY <1>1 DEF TickInv, LeaderInv
<1> DEFINE Later(t) ==
             \E i \in 1..Len(log') : log'[i] = [type |-> "started", tick |-> t]
<1>6. \A t : Started(t) => Later(t)
  BY <1>2 DEF Started
<1>7. type = "started" => Later(worker[w].tick)
  BY <1>2
<1>8. LeaderInv'
  BY <1>1, <1>2, <1>3, <1>4 DEF TickInv, LeaderInv
<1>9. StartedInv'
  <2>2. worker'[w].pc # "lead" => Later(worker'[w].tick)
    BY <1>1, <1>7
  <2> HIDE DEF Later
  <2>3. SUFFICES ASSUME NEW v \in Workers
                 PROVE  /\ \A t \in go'[v] : Later(t)
                        /\ worker'[v].pc \in {"signal", "phases", "acks",
                                              "complete", "run", "ack"}
                           => Later(worker'[v].tick)
                        /\ ran'[v] # -1 => Later(ran'[v])
    BY DEF StartedInv, Started, Later
  <2>4. /\ \A t \in go[v] : Started(t)
        /\ worker[v].pc \in {"signal", "phases", "acks", "complete", "run", "ack"}
           => Started(worker[v].tick)
        /\ ran[v] # -1 => Started(ran[v])
    BY DEF TickInv, StartedInv
  <2>5. QED
    BY <1>6, <2>2, <2>4
<1>10. NoTickSkippedOrRepeated'
  <2> DEFINE Before(i) == IF i = 1 THEN [type |-> "completed", tick |-> -1]
                          ELSE log[i - 1]
             After(i) == IF i = 1 THEN [type |-> "completed", tick |-> -1]
                         ELSE log'[i - 1]
  <2>1. SUFFICES ASSUME NEW i \in 1..Len(log')
                 PROVE  IF log'[i].type = "completed"
                        THEN After(i) = [type |-> "started", tick |-> log'[i].tick]
                        ELSE IF After(i).type = "completed"
                             THEN log'[i].tick = After(i).tick + 1
                             ELSE log'[i].tick = After(i).tick
    BY DEF NoTickSkippedOrRepeated
  <2>2. CASE i \in 1..Len(log)
    <3>1. log'[i] = log[i] /\ After(i) = Before(i)
      BY <1>2, <2>2
    <3>2. IF log[i].type = "completed"
          THEN Before(i) = [type |-> "started", tick |-> log[i].tick]
          ELSE IF Before(i).type = "completed"
               THEN log[i].tick = Before(i).tick + 1
               ELSE log[i].tick = Before(i).tick
      BY <2>2 DEF TickInv, NoTickSkippedOrRepeated
    <3> HIDE DEF Before, After
    <3>3. QED
      BY <3>1, <3>2
  <2>3. CASE i = Len(log')
    <3>1. log'[i] = e
      BY <1>2, <2>3
    <3>2. CASE log = <<>>
      <4>1. i = 1 /\ Position = 0 /\ ~Running
        BY <1>2, <2>3, <3>2 DEF Position, Running
      <4>2. After(i) = [type |-> "completed", tick |-> -1]
        BY <4>1
      <4>3. type = "started" /\ e.tick = 0
        BY <1>1, <1>5, <4>1
      <4>4. QED
        BY <3>1, <4>2, <4>3
    <3>3. CASE log # <<>>
      <4>1. i # 1 /\ After(i) = log[Len(log)] /\ log[Len(log)] \in Event
        BY <1>1, <1>2, <2>3, <3>3
      <4>2. CASE type = "completed"
        <5>1. log[Len(log)].type = "started"
          BY <1>5, <4>2 DEF Running
        <5>2. Position = log[Len(log)].tick
          BY <3>3, <5>1 DEF Position
        <5>3. log[Len(log)] = [type |-> "started", tick |-> worker[w].tick]
          BY <1>1, <4>1, <5>1, <5>2 DEF Event
        <5>4. QED
          BY <3>1, <4>1, <4>2, <5>3
      <4>3. CASE type = "started"
        BY <1>1, <3>1, <3>3, <4>1, <4>3 DEF Position
      <4>4. QED
        BY <4>2, <4>3
    <3>4. QED
      BY <3>2, <3>3
  <2>4. QED
    BY <1>2, <2>2, <2>3
<1>11. (type = "started" => Running' = TRUE) /\ (type = "completed" => Running' = FALSE)
  BY <1>4
<1>12. QED
  BY <1>3, <1>5, <1>8, <1>9, <1>10, <1>11 DEF TickInv

\* A step of one worker keeps the invariant and moves the clock as WorldClock
\* does.
LEMMA WorkerStep ==
  ASSUME TickInv, NEW w \in Workers, Work(w) \/ Crash(w) \/ LoseSession(w)
  PROVE  TickInv' /\ [Clock!Next]_Clock!vars
<1> USE DEF Clock!Next, Clock!vars, Clock!Begin, Clock!Finish
<1>1. TypeOK' /\ worker \in [Workers -> Worker] /\ worker[w] \in Worker
  BY StepTypeOK DEF TickInv, TypeOK
<1>2. /\ worker[w].tick \in Nat /\ worker[w].head \in Nat
      /\ Position \in Nat
  <2>1. log \in Seq(Event)
    BY DEF TickInv, TypeOK
  <2>2. log # <<>> => log[Len(log)] \in Event
    BY <2>1
  <2>3. log # <<>> => log[Len(log)].tick \in Nat
    BY <2>2 DEF Event
  <2>4. QED
    BY <1>1, <2>3 DEF Worker, Position
<1>3. ran \in [Workers -> Nat \cup {-1}] /\ go \in [Workers -> SUBSET Nat]
  BY DEF TickInv, TypeOK
<1> DEFINE Moved(pc) == /\ worker'[w].pc = pc
                        /\ worker'[w].tick = worker[w].tick
                        /\ worker'[w].head = worker[w].head
                        /\ \A v \in Workers \ {w} : worker'[v] = worker[v]
<1>0. ASSUME NEW pc, Goto(w, pc)
       PROVE  Moved(pc)
  BY <1>1, <1>0 DEF Goto, Worker
<1>4. ASSUME log' = log
      PROVE  Position' = Position /\ Running' = Running
  BY <1>4 DEF Position, Running
<1>5. Running \in BOOLEAN
  BY DEF Running
<1>6. worker[w].pc \in {"signal", "phases", "acks", "complete", "run", "ack"}
      => Started(worker[w].tick)
  BY DEF TickInv, StartedInv
<1>7. CASE Lead(w)
  <2>1. /\ worker'[w] = [pc |-> "lead", tick |-> Position, head |-> Len(log),
                          todo |-> {}]
        /\ \A v \in Workers \ {w} : worker'[v] = worker[v]
        /\ UNCHANGED <<log, go, ran>> /\ lock' = w
    BY <1>1, <1>7 DEF Lead
  <2>2. Position' = Position /\ Running' = Running
    BY <1>4, <2>1
  <2>3. LeaderInv'
    BY <1>2, <2>1, <2>2 DEF LeaderInv, Leading
  <2>4. StartedInv'
    <3>1. \A t : Started(t)' <=> Started(t)
      BY <2>1 DEF Started
    <3>2. QED
      BY <2>1, <3>1 DEF TickInv, StartedInv
  <2>5. NoTickSkippedOrRepeated'
    BY <2>1 DEF TickInv, NoTickSkippedOrRepeated
  <2>6. QED
    BY <1>1, <2>2, <2>3, <2>4, <2>5 DEF TickInv
<1>8. CASE BeginTick(w)
  <2>1. /\ worker'[w].pc \in Leading \ {"lead"}
        /\ worker'[w].tick = worker[w].tick
        /\ worker'[w].head = worker[w].head + 1
        /\ \A v \in Workers \ {w} : worker'[v] = worker[v]
        /\ UNCHANGED <<lock, go, ran>>
        /\ worker[w].pc = "lead" /\ AppendTick(w, "started")
    BY <1>1, <1>8 DEF BeginTick, Leading
  <2>2. /\ ("started" = "completed") <=> (worker[w].pc # "lead")
        /\ ("started" = "completed") <=> (worker'[w].pc = "lead")
        /\ worker'[w].pc \in Leading
        /\ worker'[w].tick
             = worker[w].tick + (IF "started" = "completed" THEN 1 ELSE 0)
    BY <1>2, <2>1 DEF Leading
  <2>3. /\ TickInv'
        /\ Position' = Position + (IF "started" = "completed" THEN 1 ELSE 0)
        /\ Running' = TRUE
    BY <1>1, <2>1, <2>2, AppendTickInv
  <2>4. Position' = Position
    BY <1>2, <2>3
  <2>5. QED
    BY <1>5, <2>3, <2>4
<1>9. CASE CompleteTick(w)
  <2>1. /\ worker'[w].pc = "lead"
        /\ worker'[w].tick = worker[w].tick + 1
        /\ worker'[w].head = worker[w].head + 1
        /\ \A v \in Workers \ {w} : worker'[v] = worker[v]
        /\ UNCHANGED <<lock, go, ran>>
        /\ worker[w].pc # "lead" /\ AppendTick(w, "completed")
    BY <1>1, <1>9 DEF CompleteTick
  <2>2. TickInv' /\ Position' = Position + 1 /\ Running' = FALSE /\ Running
    BY <1>1, <1>2, <2>1, AppendTickInv DEF Leading
  <2>3. QED
    BY <2>2
<1>10. CASE \E v \in Workers : Signal(w, v)
  <2>1. PICK v \in Workers : Signal(w, v)
    BY <1>10
  <2>2. /\ worker'[w] = [worker[w] EXCEPT !.todo = @ \ {v}]
        /\ \A u \in Workers \ {w} : worker'[u] = worker[u]
        /\ UNCHANGED <<log, lock, ran>> /\ worker[w].pc = "signal"
        /\ go' = [go EXCEPT ![v] = @ \cup {worker[w].tick}]
    BY <1>1, <2>1 DEF Signal
  <2>3. /\ worker'[w].pc = "signal" /\ worker'[w].tick = worker[w].tick
        /\ worker'[w].head = worker[w].head
    BY <1>1, <2>2 DEF Worker
  <2>4. \A u \in Workers : \A t \in go'[u] \ go[u] : Started(t)
    BY <1>3, <1>6, <2>2
  <2>5. TickInv'
    BY <1>1, <1>6, <2>2, <2>3, <2>4, QuietTickInv DEF Leading
  <2>6. QED
    BY <1>4, <2>2, <2>5
<1>11. CASE LeaderRuns(w) \/ FollowerRuns(w)
  <2>1. /\ worker'[w].pc \in {"acks", "complete", "ack"}
        /\ worker'[w].tick = worker[w].tick /\ worker'[w].head = worker[w].head
        /\ \A v \in Workers \ {w} : worker'[v] = worker[v]
        /\ UNCHANGED <<log, lock, go>>
        /\ worker[w].pc \in {"phases", "signal", "run"}
        /\ (worker[w].pc = "run") <=> (worker'[w].pc = "ack")
        /\ ran' = [ran EXCEPT ![w] = worker[w].tick]
    <3>1. CASE LeaderRuns(w)
      <4>1. PICK pc \in {"acks", "complete"} : Goto(w, pc)
        BY <3>1 DEF LeaderRuns
      <4>2. Moved(pc)
        BY <4>1, <1>0
      <4>3. QED
        BY <3>1, <4>2 DEF LeaderRuns
    <3>2. CASE FollowerRuns(w)
      <4>1. Moved("ack")
        BY <3>2, <1>0 DEF FollowerRuns
      <4>2. QED
        BY <3>2, <4>1 DEF FollowerRuns
    <3>3. QED
      BY <1>11, <3>1, <3>2
  <2>2. Started(worker[w].tick)
    BY <1>6, <2>1
  <2>3. lock = w => worker[w].pc \in Leading
    BY DEF TickInv, LeaderInv
  <2>4. \A v \in Workers : ran'[v] # ran[v] => Started(ran'[v])
    BY <1>3, <2>1, <2>2
  <2>5. TickInv'
    BY <1>1, <2>1, <2>2, <2>3, <2>4, QuietTickInv DEF Leading
  <2>6. QED
    BY <1>4, <2>1, <2>5
<1>12. CASE AllAcked(w) \/ AckTimeout(w)
  <2>1. /\ Moved("complete") /\ worker[w].pc = "acks"
        /\ UNCHANGED <<log, lock, go, ran>>
    BY <1>12, <1>0 DEF AllAcked, AckTimeout
  <2>2. TickInv'
    BY <1>1, <1>6, <2>1, QuietTickInv DEF Leading
  <2>3. QED
    BY <1>4, <2>1, <2>2
<1>13. CASE Follow(w) \/ Silence(w) \/ Ack(w)
  <2>1. /\ Moved("wait") \/ Moved("idle")
        /\ worker[w].pc \in {"idle", "wait", "ack"}
        /\ UNCHANGED <<log, lock, go, ran>>
    BY <1>13, <1>0 DEF Follow, Silence, Ack
  <2>2. lock # w
    BY <2>1 DEF TickInv, LeaderInv, Leading
  <2>3. TickInv'
    BY <1>1, <2>1, <2>2, QuietTickInv
  <2>4. QED
    BY <1>4, <2>1, <2>3
<1>14. CASE \E t \in go[w] : TakeSignal(w, t)
  <2>1. PICK t \in go[w] : TakeSignal(w, t)
    BY <1>14
  <2>2. /\ worker'[w].pc = "run" /\ worker'[w].tick = t
        /\ \A v \in Workers \ {w} : worker'[v] = worker[v]
        /\ UNCHANGED <<log, lock, ran>> /\ worker[w].pc = "wait"
        /\ \A v \in Workers : go'[v] \subseteq go[v]
    BY <1>1, <1>3, <2>1 DEF TakeSignal, Worker
  <2>3. lock # w
    BY <2>2 DEF TickInv, LeaderInv, Leading
  <2>4. Started(t)
    BY DEF TickInv, StartedInv
  <2>5. TickInv'
    BY <1>1, <2>2, <2>3, <2>4, QuietTickInv
  <2>6. QED
    BY <1>4, <2>2, <2>5
<1>15. CASE Fenced(w) \/ Crash(w) \/ Restart(w)
  <2>1. /\ worker'[w].pc \in {"down", "idle"}
        /\ \A v \in Workers \ {w} : worker'[v] = worker[v]
        /\ UNCHANGED <<log, go, ran>>
        /\ lock' = lock \/ lock' = NoWorker
        /\ lock = w => lock' = NoWorker \/ worker[w].pc = "down"
    BY <1>1, <1>15 DEF Fenced, Crash, Restart, At
  <2>2. lock' # w
    BY <2>1, TickAssumption DEF TickInv, LeaderInv, Leading
  <2>3. TickInv'
    BY <1>1, <2>1, <2>2, QuietTickInv
  <2>4. QED
    BY <1>4, <2>1, <2>3
<1>16. CASE LoseSession(w)
  <2>1. UNCHANGED <<log, worker, go, ran>> /\ lock' = NoWorker
    BY <1>16 DEF LoseSession
  <2>2. TickInv'
    BY <1>1, <1>6, <2>1, QuietTickInv, TickAssumption
  <2>3. QED
    BY <1>4, <2>1, <2>2
<1>17. QED
  BY <1>7, <1>8, <1>9, <1>10, <1>11, <1>12, <1>13, <1>14, <1>15, <1>16 DEF Work

\* Every step keeps the invariant and is a step of the clock or a stutter.
LEMMA NextTickInv == TickInv /\ [Next]_vars => TickInv' /\ [Clock!Next]_Clock!vars
<1> SUFFICES ASSUME TickInv, [Next]_vars
             PROVE  TickInv' /\ [Clock!Next]_Clock!vars
  OBVIOUS
<1>1. CASE Next
  BY <1>1, WorkerStep DEF Next
<1>2. CASE UNCHANGED vars
  <2>1. UNCHANGED <<Position, Running>>
    BY <1>2 DEF vars, Position, Running
  <2>2. TickInv'
    BY <1>2, <2>1 DEF vars, TickInv, TypeOK, NoTickSkippedOrRepeated, LeaderInv,
                      StartedInv, Started
  <2>3. QED
    BY <2>1, <2>2 DEF Clock!vars
<1>3. QED
  BY <1>1, <1>2

\* In every reachable state the holder of the lock knows the head and the tick
\* of the log, and signals and runs stem from started ticks.
THEOREM TickInvariant == Spec => []TickInv
<1>1. QED
  BY InitTickInv, NextTickInv, PTL DEF Spec

(* Whoever leads and whatever crashes, the ticks of a world follow each other *)
(* without a gap and without a repetition.                                    *)
THEOREM TicksAreContiguous == Spec => []NoTickSkippedOrRepeated
<1>1. TickInv => NoTickSkippedOrRepeated
  BY DEF TickInv
<1>2. QED
  BY TickInvariant, <1>1, PTL

(* A shard runs started ticks only, also on a signal of a replaced leader.    *)
THEOREM ShardsFollowTheLog == Spec => []NoRunAhead
<1>1. TickInv => NoRunAhead
  BY DEF TickInv, StartedInv, NoRunAhead
<1>2. QED
  BY TickInvariant, <1>1, PTL

(* The tick engines implement the world clock.                                *)
THEOREM EnginesImplementClock == Spec => ClockSpec
<1>1. Init => Clock!Init
  BY DEF Init, Clock!Init, Position, Running
<1>2. QED
  BY <1>1, NextTickInv, TickInvariant, PTL DEF Spec, ClockSpec, Clock!Spec

-----------------------------------------------------------------------------
(* No tick is started twice before the first fault.                          *)

\* Nothing has started initially.
LEMMA InitRerunInv == Init => RerunInv
BY DEF Init, RerunInv, RerunOnlyAfterFault, Running

\* Steps that append nothing and leave a leader in its tick.
LEMMA QuietRerunInv ==
  ASSUME RerunInv, log' = log, faults \in Nat,
         faults' = 0 => /\ faults = 0
                        /\ \A v \in Workers :
                             lock = v /\ worker[v].pc # "lead" =>
                               lock' = v /\ worker'[v].pc # "lead"
  PROVE  RerunInv'
<1>1. Position' = Position /\ Running' = Running
  BY DEF Position, Running
<1>2. QED
  BY <1>1 DEF RerunInv, RerunOnlyAfterFault

\* An append of the leader is new: no start while a tick runs, and one
\* completion.
LEMMA AppendRerunInv ==
  ASSUME TickInv, RerunInv, NEW w \in Workers,
         NEW type \in {"started", "completed"}, AppendTick(w, type),
         (type = "completed") <=> (worker[w].pc # "lead"),
         Position' = Position + (IF type = "completed" THEN 1 ELSE 0),
         type = "started" => Running' = TRUE,
         type = "completed" => Running' = FALSE /\ Running,
         type = "started" => lock' = w /\ worker'[w].pc # "lead",
         faults' = faults
  PROVE  RerunInv'
<1> DEFINE e == [type |-> type, tick |-> worker[w].tick]
<1>1. /\ log \in Seq(Event) /\ log' = Append(log, e) /\ lock = w
      /\ worker[w].tick \in Nat /\ worker[w].tick = Position
  BY DEF TickInv, TypeOK, AppendTick, LeaderInv, Worker
<1>2. /\ Len(log') = Len(log) + 1 /\ Len(log) \in Nat
      /\ log'[Len(log')] = e
      /\ \A i \in 1..Len(log) : log'[i] = log[i]
  BY <1>1
<1>3. \A i \in 1..Len(log) : log[i].tick \in Nat
  <2>1. \A i \in 1..Len(log) : log[i] \in Event
    BY <1>1
  <2>2. QED
    BY <2>1 DEF Event
<1>4. \A i \in 1..Len(log) :
        /\ log[i].tick <= Position
        /\ log[i].tick = Position => log[i].type = "started" /\ Running
  BY DEF RerunInv
<1>5. e.type = type /\ e.tick = Position
  BY <1>1
<1> HIDE DEF e
<1>6. ASSUME NEW i \in 1..Len(log')
      PROVE  /\ log'[i].tick <= Position'
             /\ log'[i].tick = Position' => log'[i].type = "started" /\ Running'
  <2>1. CASE i \in 1..Len(log)
    <3>1. log'[i] = log[i] /\ log[i].tick \in Nat /\ Position \in Nat
      BY <1>1, <1>2, <1>3, <2>1
    <3>2. CASE type = "started"
      BY <1>4, <2>1, <3>1, <3>2
    <3>3. CASE type = "completed"
      <4>1. Position' = Position + 1
        BY <3>3
      <4>2. QED
        BY <1>4, <2>1, <3>1, <4>1
    <3>4. QED
      BY <3>2, <3>3
  <2>2. CASE i = Len(log')
    BY <1>1, <1>2, <1>5, <2>2
  <2>3. QED
    BY <1>2, <2>1, <2>2
<1>7. ASSUME faults = 0, NEW i \in 1..Len(log) PROVE log[i] # e
  <2>1. CASE type = "started"
    <3>1. ~ Running
      BY <1>1, <1>7, <2>1 DEF RerunInv
    <3>2. QED
      BY <1>4, <1>5, <3>1
  <2>2. CASE type = "completed"
    BY <1>4, <1>5, <2>2
  <2>3. QED
    BY <2>1, <2>2
<1>8. RerunOnlyAfterFault'
  <2> SUFFICES ASSUME faults = 0, NEW i \in 1..Len(log'), NEW j \in 1..Len(log'),
                      log'[i] = log'[j]
               PROVE  i = j
    BY DEF RerunOnlyAfterFault
  <2>1. CASE i \in 1..Len(log) /\ j \in 1..Len(log)
    BY <1>2, <2>1 DEF RerunInv, RerunOnlyAfterFault
  <2>2. CASE i \in 1..Len(log) /\ j = Len(log')
    BY <1>2, <1>7, <2>2
  <2>3. CASE j \in 1..Len(log) /\ i = Len(log')
    BY <1>2, <1>7, <2>3
  <2>4. QED
    BY <1>2, <2>1, <2>2, <2>3
<1>9. faults' = 0 /\ Running' => \E v \in Workers : lock' = v /\ worker'[v].pc # "lead"
  OBVIOUS
<1>10. QED
  BY <1>6, <1>8, <1>9 DEF RerunInv

\* Every step of a worker: a leader leaves its tick by completing it or by a
\* fault.
LEMMA WorkerRerunInv ==
  ASSUME TickInv, RerunInv, NEW w \in Workers, Work(w) \/ Crash(w) \/ LoseSession(w)
  PROVE  RerunInv'
<1>1. /\ worker \in [Workers -> Worker] /\ worker[w] \in Worker
      /\ faults \in Nat /\ NoWorker \notin Workers
  BY TickAssumption DEF TickInv, TypeOK
<1>2. CASE BeginTick(w)
  <2>1. /\ worker'[w].pc \in Leading \ {"lead"}
        /\ worker'[w].tick = worker[w].tick
        /\ worker'[w].head = worker[w].head + 1
        /\ \A v \in Workers \ {w} : worker'[v] = worker[v]
        /\ UNCHANGED <<lock, go, ran, faults>>
        /\ worker[w].pc = "lead" /\ AppendTick(w, "started")
    BY <1>1, <1>2 DEF BeginTick, Leading
  <2>2. /\ ("started" = "completed") <=> (worker[w].pc # "lead")
        /\ ("started" = "completed") <=> (worker'[w].pc = "lead")
        /\ worker'[w].pc \in Leading
        /\ worker'[w].tick
             = worker[w].tick + (IF "started" = "completed" THEN 1 ELSE 0)
    BY <1>1, <2>1 DEF Leading, Worker
  <2>3. /\ Position' = Position + (IF "started" = "completed" THEN 1 ELSE 0)
        /\ Running' = TRUE
    BY <2>1, <2>2, AppendTickInv, StepTypeOK DEF TickInv
  <2>4. lock = w
    BY <2>1 DEF AppendTick
  <2>5. QED
    BY <2>1, <2>2, <2>3, <2>4, AppendRerunInv
<1>3. CASE CompleteTick(w)
  <2>1. /\ worker'[w].pc = "lead"
        /\ worker'[w].tick = worker[w].tick + 1
        /\ worker'[w].head = worker[w].head + 1
        /\ \A v \in Workers \ {w} : worker'[v] = worker[v]
        /\ UNCHANGED <<lock, go, ran, faults>>
        /\ worker[w].pc # "lead" /\ AppendTick(w, "completed")
    BY <1>1, <1>3 DEF CompleteTick
  <2>2. Position' = Position + 1 /\ Running' = FALSE /\ Running
    BY <2>1, AppendTickInv, StepTypeOK DEF TickInv, Leading
  <2>3. QED
    BY <2>1, <2>2, AppendRerunInv
<1>4. CASE Crash(w) \/ LoseSession(w)
  <2>1. log' = log /\ faults' # 0
    BY <1>1, <1>4 DEF Crash, LoseSession, Fault
  <2>2. QED
    BY <1>1, <2>1, QuietRerunInv
<1>5. ASSUME UNCHANGED <<log, lock, faults>>,
             worker' = worker
             \/ /\ \A v \in Workers \ {w} : worker'[v] = worker[v]
                /\ lock # w \/ worker[w].pc = "lead" \/ worker'[w].pc # "lead"
      PROVE  RerunInv'
  BY <1>1, <1>5, QuietRerunInv
<1>6. CASE Lead(w)
  <2>1. log' = log /\ faults' = faults /\ lock = NoWorker
    BY <1>6 DEF Lead
  <2>2. QED
    BY <1>1, <2>1, QuietRerunInv
<1>7. CASE Fenced(w)
  <2>1. /\ worker' = [worker EXCEPT ![w] = At("down")] /\ lock # w
        /\ UNCHANGED <<log, faults>> /\ lock' = lock
    BY <1>7 DEF Fenced, TickInv, LeaderInv
  <2>2. QED
    BY <1>1, <1>5, <2>1
<1>8. CASE Restart(w)
  <2>1. /\ worker' = [worker EXCEPT ![w] = At("idle")]
        /\ UNCHANGED <<log, lock, faults>>
    BY <1>8 DEF Restart
  <2>2. worker'[w].pc = "idle" /\ \A v \in Workers \ {w} : worker'[v] = worker[v]
    BY <1>1, <2>1 DEF At
  <2>3. QED
    BY <1>5, <2>1, <2>2
<1>9. ASSUME NEW pc, pc # "lead", Goto(w, pc), UNCHANGED <<log, lock, faults>>
      PROVE  RerunInv'
  <2>1. worker'[w].pc = pc /\ \A v \in Workers \ {w} : worker'[v] = worker[v]
    BY <1>1, <1>9 DEF Goto, Worker
  <2>2. QED
    BY <1>5, <1>9, <2>1
<1>10. CASE LeaderRuns(w) \/ FollowerRuns(w) \/ AllAcked(w) \/ AckTimeout(w)
            \/ Ack(w) \/ Follow(w) \/ Silence(w)
  BY <1>9, <1>10 DEF LeaderRuns, FollowerRuns, AllAcked, AckTimeout, Ack, Follow,
                     Silence
<1>11. CASE \E v \in Workers : Signal(w, v)
  <2>1. PICK v \in Workers : Signal(w, v)
    BY <1>11
  <2>2. /\ worker' = [worker EXCEPT ![w].todo = @ \ {v}]
        /\ UNCHANGED <<log, lock, faults>> /\ worker[w].pc = "signal"
    BY <2>1 DEF Signal
  <2>3. worker'[w].pc = "signal" /\ \A u \in Workers \ {w} : worker'[u] = worker[u]
    BY <1>1, <2>2 DEF Worker
  <2>4. QED
    BY <1>5, <2>2, <2>3
<1>12. CASE \E t \in go[w] : TakeSignal(w, t)
  <2>1. PICK t \in go[w] : TakeSignal(w, t)
    BY <1>12
  <2>2. /\ worker' = [worker EXCEPT ![w].pc = "run", ![w].tick = t]
        /\ UNCHANGED <<log, lock, faults>>
    BY <2>1 DEF TakeSignal
  <2>3. worker'[w].pc = "run" /\ \A u \in Workers \ {w} : worker'[u] = worker[u]
    BY <1>1, <2>2 DEF Worker
  <2>4. QED
    BY <1>5, <2>2, <2>3
<1>13. QED
  BY <1>2, <1>3, <1>4, <1>6, <1>7, <1>8, <1>10, <1>11, <1>12 DEF Work

(* Late acks, silent signals and impatient followers never make a tick run    *)
(* again: until a worker died or lost its session every entry of the tick     *)
(* stream is there once.                                                      *)
THEOREM TicksRunOnceWithoutFaults == Spec => []RerunOnlyAfterFault
<1>1. TickInv /\ RerunInv /\ [Next]_vars => RerunInv'
  <2> SUFFICES ASSUME TickInv, RerunInv, [Next]_vars PROVE RerunInv'
    OBVIOUS
  <2>1. CASE Next
    BY <2>1, WorkerRerunInv DEF Next
  <2>2. CASE UNCHANGED vars
    <3>1. UNCHANGED <<log, lock, worker, faults>> /\ faults \in Nat
      BY <2>2, TickAssumption DEF vars, TickInv, TypeOK
    <3>2. QED
      BY <3>1, QuietRerunInv
  <2>3. QED
    BY <2>1, <2>2
<1>2. RerunInv => RerunOnlyAfterFault
  BY DEF RerunInv
<1>3. QED
  BY <1>1, <1>2, InitRerunInv, TickInvariant, PTL DEF Spec
=============================================================================
