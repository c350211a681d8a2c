# Living Feed: a verification project

TLA+ models of the Living Feed world server, TLC runs that check them on small
instances, and TLAPS proofs of what matters most for every instance. The models
are read off the code; where this text quotes the code, it gives the path under
`src/`.

## 1. The system

A *world* of language-model actors lives in ticks. Everything that happens is an
event in one append-only store; everything else is derived from it.

```
 gateway ----\                                        /--> projectors (timelines, graph, search)
 tick engine --> event store -> outbox -> relay -> JetStream --> mailbox router -> actor mailboxes
 actor tick --/    (PostgreSQL)          (dispatcher)   \--> feed composer, director (append again)
```

| Part | State it keeps | Operations | Talks to | What is hard | What makes it correct |
|---|---|---|---|---|---|
| Event store (`packages/eventstore`) | `es.events`, `es.stream_heads`, `es.outbox` | `append`, `current_head`, `read_stream` | everyone, by SQL | overlapping transactions; identity values drawn at INSERT, visible at COMMIT | streams dense, one writer wins, stream order = global order |
| Dispatcher (`services/dispatcher`) | advisory lock, batch in memory | `relay_once`, `run_relay`, purge | event store, JetStream | crash and lost session in mid-batch, standby that takes over, duplicate window | no event lost, streams delivered in order |
| Tick engine (`engine/tick`, `shard_barrier.py`) | tick stream, leadership lock, Redis signals and acks | `run_tick`, `run_tick_loop`, `signal`, `wait_acks`, `next_signal`, `ack` | actor shards | stale leader, late acks, followers that give up waiting | world time contiguous, shards never ahead of the log |
| Actor worker (`engine/actor`) | Redis mailboxes, edges, memories; PostgreSQL streams; phase state in memory | mailbox router; PERCEIVE, DECIDE, RESOLVE, CONSOLIDATE | JetStream, Redis, AI runtime, event store | router and tick interleave; interrupted ticks run again; several stores, no common transaction | interactions answered once, first contact once, life told in order |
| Timeline projector (`services/projector`) | Redis follower index, refusals, timelines | six consumers, retirement, return, rebuild, verify | JetStream, Redis, event store | consumers unordered among each other, redelivery, multi-step handlers | index is the fold of the log, private messages arrive |
| PostgreSQL projector (`pg_projector.py`, `pg_read.py`) | six tables in schema `read` | upserts, retirement, return, rebuild, verify | JetStream, event store | three durables write the same tables statement by statement, redelivery | the tables are what the log says |
| Other projectors | OpenSearch, graph | upserts, verify | JetStream | redelivery out of order | last writer by event order |
| Feed composer (`engine/feed`) | boosts, repeat and rarity trackers in memory | `compose_once` | JetStream, event store | redelivery, several instances | each source promoted at most once |
| Director (`engine/director`) | budget, season day, seen audits in memory | `evaluate`, `plan_season`, `plan_arcs`, restoration | JetStream, event store, AI runtime | restart between audit and output, own events come back | audit precedes output, budget kept |
| AI runtime (`services/ai-runtime`) | spend and call counters in Redis, cached limits | `infer`, `check`, `record`, drain | NATS request-reply | calls in flight together, stale limits | limits overshoot boundedly |
| Gateway (`services/gateway`) | presence keys, push subscriptions, persona files, limits document | `handle_command`, feed resume, push, persona retire / restore, limits | event store, JetStream, Redis | two sessions of a player, resume by cursor, file move and append without a transaction | no command lost silently, no half retirement |
| Relationship, emotion, goal engines | state per actor in Redis | interaction, decay, consolidation | called by the actor worker | decay settled for sleeping actors, shared edges | deltas conserved, decay applied once |
| Feed API, web app, schemas | none of their own | reads, presentation, generated code | | | |

PROJECT.json lists each part with its sources and what is modelled of it, and the
hazards of the code at the lines where they bite.

## 2. Modules

| Module | Models | Extends / refines |
|---|---|---|
| `EventStore` | the append path of concurrent writers | |
| `OutboxRelay` | outbox, relays, JetStream | extends EventStore, implements OrderedDelivery |
| `OrderedDelivery` | what both promise: streams grow, events are sent once per stream position, in order | |
| `TickEngine` | leadership, tick stream, shard barrier | implements WorldClock |
| `WorldClock` | what it promises: ticks begin and finish one after the other | |
| `ActorTick` | mailbox router and how a word is answered | |
| `Gauge`, `LevelOfDetail`, `EmotionEngine`, `GoalEngine`, `Rhythm` | the pure rules of attention, feeling, striving and posting | |
| `PersonaDesk` | the persona studio over its files | |
| `ActorMind` | the inner life of a worker's actors over many ticks | composes the rules and PersonaDesk |
| `RelationshipEngine`, `Reflection` | the pure rules of an edge, and of what is concluded from edges | |
| `EdgeKeeping` | workers that keep edges and beliefs in Redis without a lock | composes the rules |
| `WorldLog` | what the services share: the world's log, a script, a budget of faults | |
| `DirectorRules`, `Director` | the director | over WorldLog |
| `FeedComposer` | the composer, several instances | over WorldLog |
| `AiRuntime` | the runtime, its purse, the limits document | over WorldLog |
| `PlayerGateway` | sessions, feed readers, push | over WorldLog |
| `ReadTables` | the PostgreSQL projector | over WorldLog |
| `Town` | director, composer, runtime, gateway and tables together | composes the five |
| `TimelineFold` | what the follower index and the timelines ought to be, as functions of the log | |
| `TimelineReplay` | the rebuild from the event store | over TimelineFold |
| `TimelineProjection` | the six live consumers of the timeline projector | over TimelineFold |
| `Subsequence` | picking and counting the items of a sequence, by a recursive function that can be reasoned about | used by ActorTick |
| `OutboxRelayProofs` (event store and relay), `TickEngineProofs`, `ActorTickProofs`, `TimelineReplayProofs`, `TimelineProjectionProofs`, `EdgeKeepingProofs`, `TownProofs` | theorems, section 4 | each over its component |
| `TimelineFoldLemmas` | the lemmas about the operators of TimelineFold that two of these rest on | |
| `MC*` | instances for TLC | |

The worker is modelled three times, at the grain each question needs: `ActorTick` has the
router and one mailbox round trip per step and asks what becomes of a word; `ActorMind`
has many ticks of one shard and asks how time, feeling and restraint survive a crash;
`EdgeKeeping` has two shards inside CONSOLIDATE and asks what happens to shared edges.

### EventStore (`store.py`)

`heads` is `es.stream_heads`, `events` the committed rows, `nextG` the identity
sequence, `tx[w]` one call of `append()`. ReadHead is `current_head` (nothing is
locked). Reject is `_validate`. CompareAndSet is the INSERT or UPDATE of the head
row: it waits while another open transaction holds the row and goes on only when the
head is the expected one; Conflict is its `rowcount = 0`. InsertRow draws the
identity value; Commit makes head, rows and outbox rows visible at once; Abort is a
writer or a connection that dies. Payloads and schemas are left out.

### OutboxRelay (`outbox.py`, `relay.py`)

One action per statement that talks to the outside: Acquire, Fetch (`Batches` is
ORDER BY global_seq LIMIT n), PublishRow, PublishFails (with or without the message
stored), MarkBatch, Purge. LoseSession frees the lock without telling the relay;
it publishes on until SessionGone, its next statement. JetStream is `topic`, `dlq`,
`twice` (rows stored more than once) and the duplicate `window`, which forgets at
any time. Rows the publish gate refuses are the constant Invalid.

### TickEngine (`engine.py`, `shard_barrier.py`)

`log` is the tick stream. `worker[w]` holds the loop's program counter, its tick and
the head it will append after. Position is `restore_position`. A leader appends
*started*, signals each other shard, runs its own phases, waits for acks or the
deadline, appends *completed*. Its appends use the session that holds the lock, so
AppendTick needs the lock and the expected head; otherwise Fenced ends the process.
Followers drain their signals to the newest, run, ack, and try to lead after silence.
With Distributed = FALSE there is no barrier (`LF_NUM_SHARDS` = 1).

### ActorTick (`mailbox.py`, `phases.py`)

The router (Fetch, Push to one actor after the other, Ack, PushFails, Refuse) and the
tick (Perceive, Decide, AppendShifts, AppendEvents, Resolved, SaveEdges,
AppendMilestone, Bonded, AppendEpisode, Remembered, Reflect, Finish) are two tasks of
one process. `mail`, `bonds`, `met` and `stream` outlive it; `inbox`, `greet`, `notes`,
`shifts` (changes of attention, appended first), `out` (the tick's other events), `fresh`
and `todo` die with it. `pushed` and `dropped` count deliveries and trimmed items, for the
properties. An item is *who* says something to *whom*. What the emotion engine or the
model decides is a free choice here; ActorMind and EdgeKeeping decide it by the rules.

### ActorMind (`phases.py`, `reload.py`, `emotion.py`, `goal.py`, `ledger.py`, `outreach.py`, `resonance.py`)

`redis` is what Redis keeps per actor (mood, drives, ledger, marks of outreach and
resonance), `life` the actors' streams, `root`, `dormant`, `shelf` the persona files,
`self` everything that dies with the worker; `at` inside it is the step the tick has
reached. A tick reads the files (joined and retired actors, declarations), perceives its
mail (appraisal, waking), lets actors decide within the calls of their tier, answers,
bursts, comments, posts by rhythm, reaches out, echoes, advances goals, settles decay and
marks the ledger. A crash at any step restarts the worker, which runs the tick again under
its number. `scene` is the traffic and the choices of a behaviour; `aged` (ticks of decay
really applied) and `overlap` are history. The rules are whole: `EmotionEngine` has
`Appraise`, mood, merging and culling, `GoalEngine` needs and goals, `Rhythm` the slots
of a day, `LevelOfDetail` tiers and due ticks. Fractions are integers of the unit in which
the code rounds; the exponential fading is a constant factor per tick.

`PersonaDesk` is the studio (`admin.py`): every request runs without an await up to its
append, so one action does the file moves and parks the request in `waiting`; a second one
is the append's success, failure (files moved back) or crash (not moved back). Requests
interleave with each other there, and with the worker between any two steps of its tick.

### EdgeKeeping (`relationship.py`, `_consolidate_relationships`, `_reflect`)

`edge[k]` and `index[a]` are Redis; `jobs[w]` what a worker has still to do in CONSOLIDATE;
`hand[w][k]` what it has read of an edge and not yet written; `told[w][k]` what it will append
to the stream of that edge at the end.
One step per round trip: load, write (registration in the index and eviction of the
weakest are steps of their own: SADD, SREM, DEL), append, belief, note in the ledger. An
action touches the edges of both sides, also of actors of another shard; Judge is a
confession or a parting, which rewrites both. `RelationshipEngine` has the deltas with
their four decimals, the publication threshold, stages and decay; `Reflection` has what is
derived, retracted and stated again.

### WorldLog, Director, FeedComposer, AiRuntime, PlayerGateway, ReadTables, Town

`log` is the sequence of events as the relay delivers it, consumers hold positions in it.
Within one durable they read in order, between durables in any order, which is what
OutboxRelay promises. The rest of the world (actors, engine) is a `script` of events; a
*scene* is a script, which parts run, what may be planned, asked, commanded or edited, and
how many faults may happen.

* **Director.** `dir` is its memory (tick, hits, budget, season day, seen audits), `acked`
  the positions of its durables, `fired` history. Observe, Attend and Recall (audits, seasons, lights); on a
  completed tick (CloseTick) select by rules or by asking the runtime (Judge, AskPlan, Hear),
  append the audit, append the output, acknowledge; at a day's end review, tune, plan a
  season, plan an arc. DirectorRules is the choice itself: quiet window, rule library,
  and what of a model's plan is let through.
* **FeedComposer.** `composers[k]` is what an instance remembers (rarity, repeats, lights)
  and holds, `settled` and `tries` are the messages. Verdicts for all six sources, scores
  as integers, narration, the append at head 0 under the deterministic id, conflict as
  success, redelivery, dead letters.
* **AiRuntime.** `calls` are requests with their stage (waiting, in place, checked, slotted,
  paid, answered), `purse` the counters in Redis, `doc` the limits document, `cached` each
  instance's reading of it, `strict` history (the real bill, the largest limit in force,
  what happened unchecked). A call waits for a place, reads the spend, takes a slot of the
  minute, is answered or degraded, repaired once, paid for, recorded.
* **PlayerGateway.** `sessions` with their commands, expected heads and what they were told;
  `readers` that stream or poll, leave and resume with a cursor; `push`, which asks whether
  a session is open and goes through the browsers.
* **ReadTables.** `rows` are the six tables as pairs of table and event; `taken[d]` a
  durable's position, what comes to it again, and the statements its handler has still to
  run. A handler is a list of statements (`Puts`, `Retirement`, `Return`), each in autocommit
  and interleaved with the other durables'; `Upserted` is ON CONFLICT with its guards.
  PgRebuild is `--rebuild`, PgReplay is `--from-es`.
* **Town** connects them: a director's or a composer's question is a call of the runtime and
  its answer is what the runtime says or the patience of the caller; what the director
  stages the composer posts, what is posted the readers read, what players do the director
  attends to.

### TimelineFold, TimelineReplay, TimelineProjection

One actor, some players. TimelineFold reads the wanted follower set and timeline
entries off the log, by the rules of `fold_followers`. TimelineReplay applies the log
in order, a return feeding the actor's past through the same functions; Interrupted
starts over. TimelineProjection splits every handler at its round trips: SISMEMBER
then SADD, SMEMBERS then the pipelined ZADD, DEL then one timeline after the other.
Fails is a handler's exception (redelivery later, or the dead-letter stream when
delivered too often), Crash loses every job and redelivers what was not acknowledged.

## 3. Runs

Bounds are constants of the modules and appear in guards (MaxSeq, MaxBatch, MaxFaults,
MaxTick, MaxLog, MaxCalm, MaxRush, MaxCalls, MaxJoins; a scene's script, faults, edits and
asks; MaxEdges and PgDeliver are limits of the code made small). The configurations give
their values.

| Run | Question | Instance and why it is enough |
|---|---|---|
| `MCOutboxRelay` | do writers and relays keep every stream whole and in order? | two writers, two streams, two relays, two rows, one fault: two rows suffice for a conflict, a batch, an inversion of global_seq between streams and a gap; the second relay for a stale leader; one row is dead-lettered |
| `MCOutboxRelayLive` | does what is committed get out? | one stream, two faults under fairness |
| `MCTickEngine` | does world time go on, and contiguously? | three ticks and two faults: failover of a failover, signals and acks of an interrupted run meeting its rerun |
| `MCActorTick` | are interactions answered, greeted and told as promised, also behind a garbled message? | mailbox for two, four kinds of traffic of up to three items (overflow, two likes of one player, a garbled message, news for two actors), a reflection every second tick, one fault. Scheduled actions belong to tick 0; later ticks run while there is mail |
| `MCActorNotes` | do decision records always remain? | a violation, see section 6 |
| `MCTimelineReplay` | is a rebuilt index the fold of the log? | all logs of five events: relation, withdrawal, retirement, return, post |
| `MCTimelineProjection` | what converges live? | four events one by one, or three at once, two players, one fault |
| `MCTimelineWithdrawal` | does a withdrawal always win? | a violation, see section 6 |
| `MCEdgeKeeping` | are edges, their index, stages and the beliefs about them kept? | two shards, two actors, two players, room for two edges (a third evicts), two ticks, one crash, three scripts of deeds that cross the thresholds for telling, dormancy, romance, threat and support. A behaviour ends where two shards hold one edge at once (constraint NoClashYet): the code has no lock there, and the lost update that follows is real |
| `MCActorMind` | do feelings, drives, decay and restraint survive sleep, crashes and the studio? | six scenes of up to six ticks, two actors, one fault: two intervals of sleep, an echo that outlives its conversation, two cooldowns, a goal reached in three steps, a persona away and back while the worker runs |
| `MCTown` | what is staged, posted, read, tabled and paid for? | nineteen scenes, two people, up to two faults; two instances of composer and runtime; day of three ticks, budget of one or two a window, limits of a few units, so that each limit is met with calls in flight |
| `MCGravity` | does a player's attention count? | a violation, see section 6 |

Every property of a passing run has a mutant in the modules (definitions whose comment
begins with *Mutant*): a plausible bug in the code under which TLC finds the property
violated. They are no part of any specification.

Deadlock is checked where the model has no natural end. In ActorTick, TimelineProjection,
EdgeKeeping and Town the world may fall silent: no traffic left, every event settled.

What the runs show, property by property:

* `StoreInv`, `NoLateRow`: a stream is 1..head whatever overlapped, and a reader that
  has read a stream up to some global_seq never misses a row of it. Across streams this
  is false, and the relay does not rely on it: it asks for what is unpublished.
* `NoSilentLoss`, `FirstDeliveryInOrder`, `RelayInv`, `DeliverySpec`: nothing committed is
  lost and streams come out in order, also while two relays publish at once.
  `OnceWithoutFaults`: duplicates need a fault. `EventuallyDelivered`: bounded faults delay,
  never stop.
* `NoTickSkippedOrRepeated`, `ClockSpec`, `TickInv`, `NoRunAhead`, `RerunOnlyAfterFault`,
  `EveryTickCompletes`: the tick stream is a clock; a shard may fall behind or run a tick
  twice after a fault, never ahead.
* `WordsAreAnswered`, `NoReplyTwice`: without faults every word is answered exactly once
  or trimmed off a full mailbox; with faults it is answered at most as often as it was
  pushed. A word drained before a crash is lost, which the code accepts: that is why
  `WordsAreAnswered` and `EveryWordSettled` (every word, also one behind a message that is
  no envelope, is eventually answered or trimmed) speak of runs without faults.
* `GreetedOnce`, `FirstMetOnce`, `LifeInTickOrder`: first contact, beginnings, order.
* `EdgeInv`: an actor's index holds no more than its limit but for one edge per crash and
  one being evicted; an edge in Redis is listed; after a reflection the ledger claims
  exactly the beliefs the edges ground, and a belief is stated again only after a crash.
  `GapIsPending`: what the world was told of an edge plus what is pending is the edge.
  `RomanceIsMutual`: a confession or a parting rewrites both directions.
* `NoDecayLost`: the ledger never claims a tick of decay that was not applied; without faults
  each is applied once, through sleep, waking and batches. A crash between applying and
  marking applies ticks twice, which the property allows and the code accepts.
* `MindInv`: lists of emotions stay sorted, without doubles and within their length, and
  nobody thinks more often than its tier allows. `Restraint`: cooldowns hold across crashes,
  an echo belongs to a fresh conversation. `TurningPoints`: goals are told forward, reached
  once, and nothing untold is lost. `LifeCycleKept`: files and events agree on who lives
  unless two requests about one persona overlapped; one introduction, before any word;
  silence after the end.
* `StageInv`: the intervention budget, one season and one arc a day, and an audit before
  every output, through crashes, redelivered ticks and outputs that failed.
* `PublicInv`: a source is posted at most once, nodes of a life always, chapters only when
  they turn; one instance does not flood; readers that resume miss nothing newer than their
  cursor; acknowledged commands are deeds.
* `SpendBounded`: the real bill passes the limit only by the calls under way, each with
  its one repair; the counters agree with the bill without faults; minutes and shares are
  kept; the editor sees the limits that are enforced.
* `TablesAreFold`: at rest the read tables hold a row exactly when the last retirement or
  return that reaches it says so, through redelivery, interleaved statements, crashes and
  rebuilds. Rows touched by an event that was handled after a later retirement or return are
  exempt (`Astray`), because there the code really diverges: see section 6.
* `IndexIsFold`, `EntriesRestored`, `ReplayInv`: a rebuild gives exactly the fold, through
  retirements and returns.
* `FollowersConverge`, `PrivateArrives`, `ProjectorInv`: what live consumption guarantees
  without any order between consumers; the exceptions they name (`Contested`, `Shuffled`) are
  the real ones. `TimelinesSettle`: when events come one by one, delivery at least once is
  enough for index and timelines.

### Fairness

`OutboxRelay`: a relay that runs takes its next step and is restarted when it ended
(the compose file restarts containers). `TickEngine`: every wait of a worker has a
deadline (`wait_acks`, `next_signal`) and workers are restarted. `ActorTick`: both
asyncio tasks of the process run and the process is restarted. Faults, purges and the
arrival of new writers have no fairness. Each is weak fairness on one process or task.
Fault counters are bounded, so liveness reads: after finitely many faults. The other
specifications state no fairness; only safety is asked of them.

## 4. Theorems

Checked by TLAPS for every value of the constants, under the named assumptions on the
constants in the modules (`StoreAssumption`, `RelayAssumption`, `TickAssumption`,
`ActorAssumption`, `FoldAssumption`, `ReplayAssumption`, `ProjectionAssumption`,
`RelationshipAssumption`, `ReflectionAssumption`, `EdgeAssumption`, `LogAssumption`,
`RulesAssumption`, `DirectorAssumption`, `AiAssumption`, `FeedAssumption`,
`GatewayAssumption`, `TownAssumption`, `ScriptAssumption`;
TLC evaluates them in each run). They type the constants and say what the code's configuration guarantees: bounds
are positive where the code divides or trims by them, the unit of rounding divides 1, what is
concluded lies in 0..1 and above what is left of a retracted belief, prices are numbers and
one of them is the highest, documents of limits have the fields the code knows and the types
Pydantic and `from_json` give them (but any values), callers are people or nobody, a post whose score
was halved twice is below the threshold (the default weights: at most 0.8 against 4 times 0.35;
this is what the repeat penalty is for), what a scene lets the rest of the world write is what the
rest of the world may write (deeds are somebody's, players only act through the gateway, posts come
from another crew, one of a source and after it, completed ticks come in their order, and where a
director runs nobody else writes what only `rules.py` and `director.py` emit), a day has ticks
(`DirectorAssumption`: the code divides by it), crc32 over the number of interventions is a
sequence of numbers, read round (any run has only so many of them), and there is a player
(without one a retirement has no timeline to sweep, and the model's sweep, which ends with
the last timeline, would not end).

* **OutboxRelayProofs, the append path.** `StoreInv` is inductive. Density alone is not: it needs that an
  open transaction still knows the head (`OpenTxInv`), because at most one is open per
  stream (`OneOpenTxPerStream`), and that drawn identity values are below `nextG` and
  unique (`GlobalSeqUnique`). Order in the stream and global order agree because the row
  lock spans the draw; `NoRowComesLate` follows from the same facts at Commit.
* **OutboxRelayProofs, the relay.** `RelayInv` on top of `StoreInv`: what precedes a row of a batch
  in flight is in the batch or already out (`BatchInv`). A relay fetches a prefix of the
  unpublished rows and publishes the lowest first; a new row never precedes an old one of
  its stream (`NoRowComesLate`), so a stale relay cannot overtake. The refinement maps
  `heads` to the stream lengths and the stored rows to what was sent; a repeated
  publication, a mark, a purge or a crash is a stutter. `OnceWithoutFaults` needs
  `OnceInv`: until something fails one relay at a time holds rows, none of them is out yet,
  and what is out and not marked is what it has just published; so the duplicate window may
  forget whenever it likes.
* **TickEngineProofs.** `TickInv`: the holder of the lock knows the head and is at
  `Position`, so only it can append, and it appends the event that continues the stream.
  Signals and runs stem from started ticks (`StartedInv`), which are never taken back.
  Both modes (Distributed or not) are covered. `RerunOnlyAfterFault` needs `RerunInv`: the log
  is of ticks before the position but for a start of the one that runs, and until something
  fails the leader that started it is still there to complete it.
* **ActorTickProofs.** The inductive invariant is ActorInv together with NoReplyTwice,
  WordsAreAnswered and LifeInTickOrder. ActorInv has a part per concern: `RouterInv` (the
  router holds what JetStream thinks it holds, and pushes once while nothing failed),
  `PhaseInv` (a phase ends only when what it has to append is appended), `GreetInv`,
  `GreetedInv` (a greeting is followed by an edge before the next tick looks for edges),
  `MetInv`, `StoryInv` (what waits carries the running tick). The two properties about words
  are balances: what waits in mailbox, inbox and the events to append, plus what was
  answered and trimmed, against what was pushed. The proof follows a copy of a word through
  Push, trimming, Perceive, Decide and AppendEvents, and each step moves it between two sides
  of one sum. The lemmas at the head of the module say how such a count changes
  when a sequence is appended to, joined, shortened or filtered.
* **TimelineReplayProofs.** `ReplayInv`: while the past is fed again, the keys are the
  fold of the events before the cursor. `TimelineFoldLemmas` says what one event does to
  `Follows`, `Refusing`, `Delivered` and `RetiredAt`.
* **TimelineProjectionProofs.** Four invariants, each on the ones before it.
  `ProjectorInv` needs `JobInv`: a job fits its event (`Fits`), what is out for delivery is
  somebody's job. `PrivateArrives` needs `PrivateInv`: what is *through* (settled, or only to
  be acknowledged) is in its timeline; entries are only taken away by a retirement.
  `FollowersConverge` needs that without faults a consumer goes through its events in turn
  (`InTurn`) and `ConvergeInv`: nobody follows without a reason (`Reasoned`), who never
  withdrew is not lost (`Kept`), the last declaration that is through decides (`Ruled`).
  `TimelinesSettle` needs `SettleInv`: the keys are as far as the last event is (`Stage`).
  A finished event left them exact (`Exact`). An event in hand, perhaps for the second time,
  left each of them as before or as after it (`InPart`). A return applies the past to keys
  that an earlier attempt may have filled: whoever declared something among the events applied
  so far stands as declared, and the others have at least what they had before they declared
  (`Again`, `Returning`). That is why repeating a prefix of the past does no harm, and it is
  the argument for at-least-once delivery.

* **EdgeKeepingProofs.** `KeepInv`, a conjunction in which each part has its own lemma per
  action and `KeepNext` puts them together:
  `TypeInv` says which tasks there are. `ShapeInv` says how tasks, hands, the crowded edge and
  the edges put to rest go together: a worker holds only edges of its first task, what it will
  forget was put to rest, what it will put is the second of two edges it holds, and whatever
  Redis keeps is rounded. `Excl`: until a clash is recorded nobody else has a worker's edge in
  hand or news of it. From these three:
  `SaysInv` gives `GapIsPending`. What Redis holds of an edge, and the value of the second
  write, owes the last telling exactly its pending (`Owes`): `ApplyDeltas` adds what it moved,
  after the clamp, to both, and rounding moves both alike, since the last telling is rounded
  itself (`Small` bounds what five roundings add to the threshold). What a worker holds is what
  Redis holds, because nobody else writes. The last telling of an edge is found over the stream
  and the news of all workers; appending only moves it from one to the other.
  `MutualInv` gives `RomanceIsMutual`: two directions agree, or the second write is still to
  come and brings the stage of the first, or one of them was put to rest.
  `SizeInv` and `ListsInv` give the index: registering makes it one longer and marks its
  worker as crowding it, eviction takes one out, a crash turns the mark into a fault; an edge in
  Redis or in hand is listed or on its way to be forgotten.
  `ThoughtsInv` gives the beliefs: what the last reflection concluded is noted in the ledger or
  still to be stated by the one worker of the actor, what has no grounds is noted as faded or
  still to be retracted, and a belief is only repeated when it was appended and not noted
  before a crash. That what is restated differs enough is arithmetic over the thresholds
  (`ReflectionAssumption`): the weakest conclusion is `Restate` above what a retraction leaves.
  What `GapIsPending` and `RomanceIsMutual` say is limited to behaviours without a crash and
  without two workers at one edge, because the code has no lock there and both do go wrong.
* **TownProofs.** `SpendIsBounded` holds for any number of instances, places, callers, edits
  and faults, with all the services at work. `AiFrame` shows that whatever the rest of the town
  does is, to the runtime, nothing or one more request. `SpendInv` accounts for every call by
  its stage: what it owes (`Owed`), what it may bill before it is answered (`MayBill`: an
  answer and one repair at the dearest price), what it may bill if it is still admitted
  (`MayEverBill`), how often it may count against somebody's share (`MayCount`) and whether it
  has passed the limits of its minute (`HasPassed`). The bounds are sums over all calls, and an
  action moves one summand (`OneStep`): a call is admitted only while the counters are below
  its limits, so at that moment the day is below the peak and everything in place, this call
  among it, adds at most places times two prices; whatever happens until the counters are read
  again only turns what may be billed into what is. `RoomTotals` bounds these sums by the
  places: calls in place are partitioned by instance (`Fibers`), and no instance has more than
  its semaphore admits (`PlaceInv`). `Total` is a recursive function; its lemmas (type,
  monotony, change of one summand, one more summand) are proved by induction over sets of
  numbers. That the editor shows what is enforced is `InRange`: what the desk does not refuse
  the runtime reads as it stands, and a saved document leaves no field out.

  `PublicIsKept` holds for any number of composers, sessions and readers. `LogOK` says of the log
  and of what the world has still to write that posts follow their sources, one each, and turn
  chapters; `LogGoesOn` and `WorldGoesOn` add one entry to it. It needs that the director only
  writes its own kinds of events, after a crash too: `RestoredRecalls` shows that what it rebuilds
  from its audits is what they leave one after another. `FeedOK`: what a composer holds is a post
  for the source it holds (`PostFor`), and a node of a life is not acknowledged before its post is
  there, whoever wrote it. `SessionsOK` counts: deeds and refusals add up to the commands that were
  handled. `ReadersOK` holds because a reader starts a slack before its cursor and a source is
  older than its post. `NoFlood` needs `FloodOK`: a composer alone, until something fails, takes
  every source up once (`InHand`), so what it remembers of an actor is the last deed that was
  posted or is about to be (`Recalled`), and its count says whether that one continued another;
  a third in a row would have to clear the threshold halved twice (`TwiceSinks`).

  `StageIsKept` holds for any scene with a director. `StageOK` has three balances, each with the
  one audit that was written and whose announcement was not (`OneIf`). The budget: what is on
  stage and still counts is no more than what the director remembers and no more than what its
  audits say; a crash replaces the first memory by the second (`RestoredMind`), and an audit that
  comes back is remembered once more or not at all, so it errs on the side of fewer interventions.
  The memory drops what has left the window of its own tick, which loses nothing because ticks come
  in their order (`TicksOK`, also for the redelivered one); and it has room when something is
  about to come. The days (`PlansOK`): every plan has an audit of its day, so the day that is
  restored is no earlier than the last plan, and while a day is planned its own plans are still
  to come. The audits (`AuditsOK`): for every tick, announcements and the one that is due are no
  more than the audits of that tick. `BudgetKept`, `PlannedOnce` and `AuditedFirst` are not
  inductive: they say nothing of the memory a later step decides by.

Only model-checked: all liveness (fairness and ENABLED are out of the prover's reach),
everything about `ActorMind`, and of `Town` what the tables promise (`TablesAreFold`: what
`Return` and `Statements` compute is an induction over data).

About induction. The induction theorems of the library take an operator as a parameter,
which the provers here cannot instantiate. `NatSetInduction` (in `ActorTickProofs` and `TownProofs`) takes a
set instead: a set that holds 0 and the successor of each member holds every number. With it
the functions `Where` and `Total` are shown to exist and to do what they say, for sequences of any length.
Folds over logs are stated with quantifiers over positions (TimelineFold), which needs no
induction. No module declares a RECURSIVE operator.

## 5. Abstractions

* Payloads, texts and prompts are left out; what a model answers is a free choice among the
  scene's answers. Numbers that decide something are integers in the unit in which the code
  rounds (`Gauge`, `RelationshipEngine`, FeedComposer's scores); hashes (crc32 over day, actor
  or count) are constants.
* ActorTick: mailboxes do not expire (24 h in the code); several beliefs of one reflection
  are one event; of the relationship events only first_met milestones appear.
* ActorMind: one shard, edges are constants, memories are one event; moving between places
  and long conversations are left out.
* WorldLog: one world; an event's id has the order of its place in the log. Ids are ULIDs made
  before the append, so two writers within a millisecond may differ; only the ids of posts,
  which carry the time of their source, are kept apart (`src`).
* Town: a scene runs only the parts it names, so that not every pair of parts is explored
  together; those that exchange something are (director and composer and reader, player and
  director, director or composer and runtime).
* AiRuntime: money is a whole number, a call costs one of `Price`. Redis is there.
* ReadTables: an actor's past fits one page of 500; a rebuild with `--from-es` runs alone, as
  `run_from_es` presumes; a retirement of a world without an event store is left out.
* TimelineProjection: one actor, timelines are not trimmed; its liveness is not checked. There
  and in ReadTables a fetched batch is one message.
* A PostgreSQL session lock is freed at once when its session is lost.
* JetStream keeps what it stored, and per durable consumer delivers in stream order except
  for redeliveries.

## 6. Disagreements

With a run:

* `DecisionsRemain` (run `MCActorNotes`). `phases.py:273` says the event
  `actor.decision.made` always remains, whatever the trace policy. The record of a
  reflection's insight is made in CONSOLIDATE (`_llm_insight`), after RESOLVE has
  appended the tick's records; the next DECIDE clears `_decisions`. It is never appended.
* `WithdrawalWins` (run `MCTimelineWithdrawal`). `timeline.py:5` says a withdrawal wins over
  a relationship. `register_follower` checks the refusal and adds the follower in two round
  trips; a withdrawal handled in between by the other consumer is undone.
* `AttentionCounted` (run `MCGravity`). `signals.py:91` says the tracker counts whom
  `player.*` events address within the window. The gateway stamps them with tick 0
  (`session.py:80`), so once the world is older than one window nothing counts.

Met while modelling, without a run of their own; the models follow the code:

* Read tables. `pg_read.py:418` calls a repeated retirement a no-op, but one that is
  redelivered after the return was applied deletes what the return restored. A row that
  arrives after a later retirement (an arc from LF_SYS, a comment from LF_PLAYER, a message
  that failed once) is inserted and stays. Rows that two people share (beliefs about the
  other, comments under the other's post) come back with the first of them, while
  `pg_verify.py` expects them only when both are back.
* The rounding to four decimals on every save (`model.py:49`) swallows the decay of
  resentment per tick while an actor is awake; a sleeper's batch applies it, so the two are
  not the same (`phases.py:1274`).
* Posts by rhythm, bursts and messages of a Cold actor use needs and edges whose decay has
  not been settled (`phases.py:1250`).
* A post's id carries the time of its source: a post made late is below a reader's cursor and
  is not sent after a reconnection; a reader without a cursor misses what came in between.
  `NothingMissed` claims only what is newer than the cursor.
* Concurrent retire and restore of one persona may leave file and last event opposite;
  a rollback overwrites a file made meanwhile; an append that committed and raised is rolled
  back on disk (`LifeCycleKept` excludes overlapping requests). When the last persona is
  retired, a worker that crashed cannot start.
* A crash between SADD and SREM leaves an index above `max_active_edges` for good; one between
  SREM and DEL an edge that nobody lists (`IndexKept` counts them as faults).
* Marks of outreach and resonance are spent before the event, so a crash loses the message.
* The rule fallback of the director ignores the streak limit that plans are held to; a
  season day noted first is skipped when the review or the plan fails (`director.py:467`).
* A redelivered deed that was worth posting can lose to its own repeat penalty after the
  first attempt failed; trackers are per instance.
* One repair is not checked against the budget again; a crash after the provider answered
  loses the record (`strict.loose`). A limits document edited by hand with negative values
  switches limits off, while the editor shows the defaults.

## 7. Not modelled, and why

* L1, AI, rules and world replay: read-only reconstruction of prompts and days.
* Drift sentinel and loop health: reports that nothing reads back.
* OpenSearch and graph projectors: the protocol of the PostgreSQL one over other stores.
* Feed API, web app, UI, API client, schemas: queries, presentation, generated code.
* Forks, tiers, traces, migrations of the event store, advisory listener: offline jobs, DDL.
* Personas, infrastructure, scripts: data and deployment; the restart policies there
  justify the fairness above.

PROJECT.json lists the parts of modelled components that are left out.

## 8. Plan

Done: the path of an event from a writer to its consumers, world time, the actor tick, the
inner life of actors, relationships and reflection, the services of the town, timelines and
read tables; proved: all safety properties of event store, outbox relay, tick engine, actor
tick, timeline rebuild, timeline projection and edge keeping, what the AI runtime spends, what
the director stages, what the composers publish and what the gateway keeps. What remains is to
prove more of it: `ActorMind` (`NoDecayLost`, then the other properties) and `ReadTables`
(`TablesAreFold`, for every number of deliveries).

## 9. How to run

```
tlc -workers 2 -config MCTown.cfg MCTown.tla
tlapm OutboxRelayProofs.tla
```
