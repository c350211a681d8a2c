----------------------------- MODULE EdgeKeeping -----------------------------
(***************************************************************************)
(* How actor workers keep relationships (relationship.py and               *)
(* _consolidate_relationships in phases.py).  In CONSOLIDATE a worker goes *)
(* through what happened to its actors: each edge concerned is read from   *)
(* Redis, changed by the pure rules and written back, without a lock; what *)
(* is worth telling is collected and appended, edge by edge, at the end.   *)
(* An action changes the edges of both sides, so a worker also writes      *)
(* edges of actors that live on another shard, while that shard may be     *)
(* in the same phase.                                                      *)
(*                                                                         *)
(* Every ReflectEvery ticks the actors that are awake conclude what their   *)
(* edges mean to them (_reflect): a belief is appended, then noted in the  *)
(* ledger in Redis, and only what differs enough from the ledger is stated *)
(* again.                                                                  *)
(*                                                                         *)
(* An actor has room for MaxEdges edges: the one it thinks of least goes   *)
(* dormant when another is made.                                           *)
(***************************************************************************)
EXTENDS Reflection, SequencesExt

CONSTANTS
  None,       \* no edge
  Workers,    \* shards
  Home,       \* the shard of an actor
  Players,    \* numbers, like the actors
  Scripts,    \* sets of deeds: what may happen to the actors, each once
  MaxEdges,   \* params max_active_edges
  ReflectEvery,  \* reflection_interval
  Thanked,    \* keys: whom an actor may be strongly grateful to
  Proposals,  \* what a model may answer that is asked for an insight
  MaxTick,    \* bound on the world clock
  MaxFaults   \* bound on crashes

Actors == DOMAIN Home
Others == Actors \cup Players
Keys == {k \in Actors \X Others : k[1] # k[2]}

\* "hears": a player's word or like, or a neighbour's comment; "says": a
\* comment; "acts": an action towards another actor; "feels": an emotion about
\* somebody.
ASSUME EdgeAssumption ==
  /\ None \notin Keys \cup Edge
  /\ Others \subseteq Nat /\ IsFiniteSet(Others)
  /\ Home \in [Actors -> Workers] /\ IsFiniteSet(Workers)
  /\ \A p \in Proposals : p.sure \in Int
  /\ \A script \in Scripts : \A d \in script :
       /\ d.what \in {"hears", "says", "acts", "feels"}
       /\ <<d.who, d.whom>> \in Keys
       /\ d.what \in {"says", "acts"} => d.whom \in Actors
  /\ {MaxEdges, ReflectEvery} \subseteq Nat \ {0} /\ Thanked \subseteq Keys
  /\ {MaxTick, MaxFaults} \subseteq Nat

VARIABLES
  edge,      \* lf:rel
  index,     \* lf:relidx: the counterparts of an actor
  story,     \* the relationship streams
  settled,   \* the tick an actor's decay is settled to
  clock,     \* the tick the leader has begun
  tick,      \* the last tick a worker ran
  jobs,      \* what is left to do in CONSOLIDATE
  hand,      \* what of each edge is read and not yet written back
  crowded,   \* an edge just made in a full index
  told,      \* events to append, by edge
  deeds,     \* what may still happen
  faults,
  ledger,    \* lf:belief: slot of an actor: the confidence last noted
  formed,    \* actor.belief.formed in the actor's stream
  clash,     \* history: two workers had the same edge in their hands
  dormant,   \* history: edges that were once put to rest
  grounds    \* history: the slots an actor had grounds for when it last reflected

redis == <<edge, index>>
mind == <<jobs, hand, crowded, told>>
beliefs == <<ledger, formed, grounds>>
history == <<clash, dormant>>
vars == <<redis, beliefs, story, settled, clock, tick, mind, deeds, faults, history>>

Event == [key : Keys,
          type : {"met", "changed", "confession_accepted",
                  "confession_declined", "severed"},
          dims : [Dimensions -> Int]]

Beliefs == [kind : RuleKinds \cup InsightKinds, about : Others \cup {Nobody}, sure : 0..One]

Slots == (RuleKinds \cup InsightKinds) \X (Others \cup {Nobody})

Empty == [k \in Keys |-> None]

Silence == [k \in Keys |-> <<>>]

TypeOK ==
  /\ edge \in [Keys -> Edge \cup {None}]
  /\ index \in [Actors -> SUBSET Others] /\ \A a \in Actors : a \notin index[a]
  /\ story \in [Keys -> Seq(Event)]
  /\ settled \in [Actors -> Nat] /\ clock \in Nat
  /\ tick \in [Workers -> Nat]
  /\ hand \in [Workers -> [Keys -> Edge \cup {None}]]
  /\ told \in [Workers -> [Keys -> Seq(Event)]]
  /\ crowded \in [Workers -> Keys \cup {None}]
  /\ \E script \in Scripts : deeds \subseteq script
  /\ faults \in 0..MaxFaults
  /\ clash \in BOOLEAN /\ dormant \subseteq Keys
  /\ formed \in [Actors -> Seq(Beliefs)]
  /\ grounds \in [Actors -> {None} \cup SUBSET Slots]
  /\ DOMAIN ledger = Actors
  /\ \A a \in Actors : /\ DOMAIN ledger[a] \subseteq Slots
                      /\ ledger[a] \in [DOMAIN ledger[a] -> 0..One]

Init ==
  /\ edge = [k \in Keys |-> None] /\ index = [a \in Actors |-> {}]
  /\ story = [k \in Keys |-> <<>>]
  /\ settled = [a \in Actors |-> 0]
  /\ clock = 0 /\ tick = [w \in Workers |-> 0]
  /\ jobs = [w \in Workers |-> <<>>] /\ hand = [w \in Workers |-> Empty]
  /\ crowded = [w \in Workers |-> None] /\ told = [w \in Workers |-> Silence]
  /\ ledger = [a \in Actors |-> [s \in {} |-> 0]]
  /\ formed = [a \in Actors |-> <<>>] /\ grounds = [a \in Actors |-> None]
  /\ deeds \in Scripts /\ faults = 0 /\ clash = FALSE /\ dormant = {}

Idle(w) == jobs[w] = <<>> /\ told[w] = Silence

\* The leader may go on without a shard that is late (TickEngine).
NextTick ==
  /\ clock < MaxTick
  /\ \E w \in Workers : tick[w] = clock
  /\ clock' = clock + 1
  /\ UNCHANGED <<redis, beliefs, story, settled, tick, mind, deeds, faults, history>>

-----------------------------------------------------------------------------
(* The jobs of a tick, in the order of the rules.                           *)

Interact(k, kind, way) ==
  [op |-> "interact", keys |-> <<k>>, how |-> kind, way |-> way]

JobsOf(d) ==
  LET mine == <<d.who, d.whom>>
      theirs == <<d.whom, d.who>>
  IN CASE d.what = "hears" -> <<Interact(mine, d.how, "incoming")>>
       [] d.what = "says" -> <<Interact(mine, d.how, "outgoing")>>
       [] d.what = "feels" ->
            <<[op |-> "feel", keys |-> <<mine>>, how |-> d.how]>>
       [] d.what = "acts" ->
            <<Interact(mine, d.how, "outgoing"),
              Interact(theirs, d.how, "incoming")>>
            \o (IF d.how \in {"confess", "sever"}
                THEN <<[op |-> "stage", keys |-> <<mine, theirs>>,
                        how |-> d.how]>>
                ELSE <<>>)

InOrder(S) ==
  CHOOSE seq \in [1..Cardinality(S) -> S] :
    \A m, n \in DOMAIN seq : m < n => seq[m] < seq[n]

DecayJobs(plan, t) ==
  LET who == InOrder(plan)
  IN  [n \in DOMAIN who |-> [op |-> "decay", who |-> who[n], ticks |-> t - settled[who[n]]]]

\* Those who slept through their decay do not reflect either.
ReflectJobs(plan, t) ==
  LET who == InOrder(IF t % ReflectEvery = 0 THEN plan ELSE {})
  IN  [n \in DOMAIN who |-> [op |-> "reflect", who |-> who[n]]]

\* A shard takes the newest tick; asleep actors are left out of the decay plan.
StartTick(w) ==
  /\ Idle(w) /\ tick[w] < clock
  /\ LET residents == {a \in Actors : Home[a] = w}
     IN \E awake \in SUBSET residents :
          LET plan == {a \in awake : settled[a] < clock}
              rest == DecayJobs(plan, clock) \o ReflectJobs(plan, clock)
                      \o <<[op |-> "end", who |-> plan]>>
          IN \/ \E d \in {x \in deeds : x.who \in residents} :
                  /\ jobs' = [jobs EXCEPT ![w] = JobsOf(d) \o rest]
                  /\ deeds' = deeds \ {d}
             \/ /\ jobs' = [jobs EXCEPT ![w] = rest]
                /\ UNCHANGED deeds
  /\ tick' = [tick EXCEPT ![w] = clock]
  /\ UNCHANGED <<redis, story, settled, clock, beliefs, hand, crowded, told, faults,
                 history>>

Job(w) == Head(jobs[w])

Doing(w, ops) == jobs[w] # <<>> /\ Job(w).op \in ops

Finished(w) == [jobs EXCEPT ![w] = Tail(@)]

-----------------------------------------------------------------------------
(* Reading, changing and writing one edge.                                  *)

\* Another worker has k in its hands or news of it to append.
Busy(k, w) ==
  \E v \in Workers \ {w} :
    hand[v][k] # None \/ told[v][k] # <<>>

Take(w, k, e) == hand' = [hand EXCEPT ![w][k] = e]

Tell(w, k, event) == told' = [told EXCEPT ![w][k] = Append(@, event)]

News(k, type, dims) == [key |-> k, type |-> type, dims |-> dims]

NextKey(w) ==
  LET keys == Job(w).keys
      left == {n \in 1..Len(keys) : hand[w][keys[n]] = None}
  IN keys[CHOOSE n \in left : \A m \in left : n <= m]

Loading(w) ==
  /\ Doing(w, {"interact", "feel", "stage", "cool", "muse"})
  /\ crowded[w] = None
  /\ \E n \in 1..Len(Job(w).keys) : hand[w][Job(w).keys[n]] = None

\* GET finds the edge.
Load(w) ==
  /\ Loading(w)
  /\ LET k == NextKey(w)
     IN /\ edge[k] # None
        /\ Take(w, k, edge[k])
        /\ clash' = (clash \/ Busy(k, w))
  /\ UNCHANGED <<redis, story, settled, clock, beliefs, tick, jobs, crowded, told, deeds,
                 faults, dormant>>

\* GET finds nothing: the edge is made as an acquaintance and listed in the
\* index (SADD); the first meeting will be told.
Meet(w) ==
  /\ Loading(w) /\ ~Doing(w, {"cool", "muse"})
  /\ LET k == NextKey(w)
         listed == index[k[1]] \cup {k[2]}
     IN /\ edge[k] = None
        /\ Take(w, k, TransitionStage(Stranger, "acquaintance"))
        /\ index' = [index EXCEPT ![k[1]] = listed]
        /\ crowded' = [crowded EXCEPT ![w] =
                         IF Cardinality(listed) > MaxEdges THEN k ELSE None]
        /\ Tell(w, k, News(k, "met", Zero))
        /\ clash' = (clash \/ Busy(k, w))
  /\ UNCHANGED <<edge, story, settled, clock, beliefs, tick, jobs, deeds, faults,
                 dormant>>

\* Mutant: the new edge is not spared.
WeakestOfAll(k) ==
  LET salience(b) == IF edge[<<k[1], b>>] = None THEN 0
                     ELSE edge[<<k[1], b>>].salience
      rest == index[k[1]]
  IN CHOOSE b \in rest :
       \A c \in rest : \/ salience(b) < salience(c)
                       \/ salience(b) = salience(c) /\ b <= c

\* The counterpart that is thought of least, the new one excepted; an index
\* entry without an edge counts nothing.
Weakest(k) ==
  LET salience(b) == IF edge[<<k[1], b>>] = None THEN 0
                     ELSE edge[<<k[1], b>>].salience
      rest == index[k[1]] \ {k[2]}
  IN CHOOSE b \in rest :
       \A c \in rest : \/ salience(b) < salience(c)
                       \/ salience(b) = salience(c) /\ b <= c

\* _register_edge: the index is over its limit (SREM), if there is anybody else.
PutToRest(w) ==
  /\ crowded[w] # None
  /\ LET a == crowded[w][1]
         b == Weakest(crowded[w])
     IN IF index[a] \ {crowded[w][2]} = {} THEN UNCHANGED <<index, jobs, dormant, clash>>
        ELSE /\ index' = [index EXCEPT ![a] = @ \ {b}]
             /\ jobs' = [jobs EXCEPT ![w] =
                           <<[op |-> "forget", keys |-> <<<<a, b>>>>]>> \o @]
             /\ dormant' = dormant \cup {<<a, b>>}
             /\ clash' = (clash \/ Busy(<<a, b>>, w))
  /\ crowded' = [crowded EXCEPT ![w] = None]
  /\ UNCHANGED <<edge, story, settled, clock, beliefs, tick, hand, told, deeds, faults>>

\* DEL.
Forget(w) ==
  /\ Doing(w, {"forget"})
  /\ LET k == Job(w).keys[1]
     IN /\ edge' = [edge EXCEPT ![k] = None]
        /\ clash' = (clash \/ Busy(k, w))
  /\ jobs' = Finished(w)
  /\ UNCHANGED <<index, story, settled, clock, beliefs, tick, hand, crowded, told, deeds,
                 faults, dormant>>

\* decay_all goes on when an edge of its list is gone, and no thought makes one.
Gone(w) ==
  /\ Loading(w) /\ Doing(w, {"cool", "muse"}) /\ edge[NextKey(w)] = None
  /\ jobs' = Finished(w)
  /\ UNCHANGED <<redis, story, settled, clock, beliefs, tick, hand, crowded, told, deeds,
                 faults, history>>

InHand(w) ==
  /\ Doing(w, {"interact", "feel", "stage", "cool", "muse"})
  /\ crowded[w] = None /\ ~Loading(w)

Felt == One \div 2

Changed(j, e) ==
  CASE j.op = "interact" -> ApplyInteraction(e, j.how, j.way)
    [] j.op = "feel" -> ConsolidateEmotion(e, j.how, Felt)
    [] j.op = "cool" -> DecayEdge(e, j.ticks)
    [] j.op = "muse" -> ConsolidateInsight(e, j.sure)

\* _apply and decay_all: a change worth telling is told and no longer pending,
\* then the edge is written.  record_insight only writes it.
Save(w) ==
  /\ InHand(w) /\ Job(w).op # "stage"
  /\ LET k == Job(w).keys[1]
         e == Changed(Job(w), hand[w][k])
         silent == Job(w).op = "muse"
     IN /\ edge' = [edge EXCEPT ![k] = Stored(IF silent THEN e ELSE Settled(e))]
        /\ IF ~silent /\ WorthTelling(e) THEN Tell(w, k, News(k, "changed", Stored(e).dims))
           ELSE UNCHANGED told
  /\ hand' = [hand EXCEPT ![w] = Empty]
  /\ jobs' = Finished(w)
  /\ UNCHANGED <<index, story, settled, clock, beliefs, tick, crowded, deeds, faults,
                 history>>

\* Mutant: only the edge of the one who acts changes its stage.
JudgeOneSided(w) ==
  /\ InHand(w) /\ Job(w).op = "stage"
  /\ LET k == Job(w).keys[1]
         l == Job(w).keys[2]
         verdict == StageAfterAction(Job(w).how, hand[w][k], hand[w][l])
         after(e) == IF verdict.stages = {} THEN e
                     ELSE TransitionStage(e, CHOOSE s \in verdict.stages : TRUE)
     IN /\ edge' = [edge EXCEPT ![k] = Stored(after(hand[w][k]))]
        /\ jobs' = [jobs EXCEPT ![w] =
             <<[op |-> "put", keys |-> <<l>>, value |-> hand[w][l]]>> \o Tail(@)]
        /\ IF verdict.milestone = "none" THEN UNCHANGED told
           ELSE Tell(w, k, News(k, verdict.milestone, hand[w][k].dims))
  /\ UNCHANGED <<index, story, settled, clock, beliefs, tick, hand, crowded, deeds,
                 faults, history>>

\* record_stage_action: the verdict over both edges, the milestone, and the
\* first of the two writes.
Judge(w) ==
  /\ InHand(w) /\ Job(w).op = "stage"
  /\ LET k == Job(w).keys[1]
         l == Job(w).keys[2]
         verdict == StageAfterAction(Job(w).how, hand[w][k], hand[w][l])
         after(e) == IF verdict.stages = {} THEN e
                     ELSE TransitionStage(e, CHOOSE s \in verdict.stages : TRUE)
     IN /\ edge' = [edge EXCEPT ![k] = Stored(after(hand[w][k]))]
        /\ jobs' = [jobs EXCEPT ![w] =
             <<[op |-> "put", keys |-> <<l>>,
                value |-> after(hand[w][l])]>> \o Tail(@)]
        /\ IF verdict.milestone = "none" THEN UNCHANGED told
           ELSE Tell(w, k, News(k, verdict.milestone, hand[w][k].dims))
  /\ UNCHANGED <<index, story, settled, clock, beliefs, tick, hand, crowded, deeds,
                 faults, history>>

\* The second write.
Put(w) ==
  /\ Doing(w, {"put"})
  /\ edge' = [edge EXCEPT ![Job(w).keys[1]] = Stored(Job(w).value)]
  /\ hand' = [hand EXCEPT ![w] = Empty]
  /\ jobs' = Finished(w)
  /\ UNCHANGED <<index, story, settled, clock, beliefs, tick, crowded, told, deeds,
                 faults, history>>

\* decay_all: the counterparts are listed once.
ListEdges(w) ==
  /\ Doing(w, {"decay"})
  /\ LET a == Job(w).who
         others == InOrder(index[a])
     IN jobs' = [jobs EXCEPT ![w] =
          [n \in DOMAIN others |-> [op |-> "cool", keys |-> <<<<a, others[n]>>>>,
                                     ticks |-> Job(w).ticks]] \o Tail(@)]
  /\ UNCHANGED <<redis, story, settled, clock, beliefs, tick, hand, crowded, told, deeds,
                 faults, history>>

-----------------------------------------------------------------------------
(* The news, then the beliefs, then the end of CONSOLIDATE.                 *)

Before(k, l) ==
  \/ k[1] < l[1]
  \/ k[1] = l[1] /\ k[2] <= l[2]

\* One append per edge, in the order of the keys.
AppendNews(w) ==
  /\ Doing(w, {"reflect", "end"})
  /\ \E k \in {l \in Keys : told[w][l] # <<>>} :
       /\ \A l \in Keys : told[w][l] # <<>> => Before(k, l)
       /\ story' = [story EXCEPT ![k] = @ \o told[w][k]]
       /\ told' = [told EXCEPT ![w][k] = <<>>]
  /\ UNCHANGED <<redis, settled, clock, beliefs, tick, jobs, hand, crowded, deeds,
                 faults, history>>

\* _reflect: what follows from the edges as they are now and from the gratitude
\* of the moment (EmotionEngine), what no longer does, and maybe one insight.
\* The edges are read in one step.  Gratitude is felt towards somebody met: a
\* feeling makes the edge.
Reflect(w) ==
  /\ Doing(w, {"reflect"}) /\ told[w] = Silence
  /\ LET a == Job(w).who
         held == [b \in {x \in index[a] : edge[<<a, x>>] # None} |-> edge[<<a, b>>]]
         known == DOMAIN held \cup (Actors \ {a})
         met == index[a] \cup {b \in Others : <<a, b>> \in dormant}
     IN \E grateful \in SUBSET {b \in met : <<a, b>> \in Thanked} :
        \E insights \in {{}} \cup {Insights(p, known) : p \in Proposals} :
          LET derived == Derived(held, grateful)
              all == SetToSeq(derived) \o SetToSeq(Retracted(ledger[a], derived))
                     \o SetToSeq(insights)
          IN /\ jobs' = [jobs EXCEPT ![w] =
                    [n \in DOMAIN all |->
                       [op |-> "believe", who |-> a, belief |-> all[n]]] \o Tail(@)]
             /\ grounds' = [grounds EXCEPT ![a] = {Slot(b) : b \in derived}]
  /\ UNCHANGED <<redis, ledger, formed, story, settled, clock, tick, hand, crowded,
                 told, deeds, faults, history>>

\* _store_belief: appended when it is worth stating.
State(w) ==
  /\ Doing(w, {"believe"})
  /\ LET a == Job(w).who
         worth == WorthStating(Job(w).belief, ledger[a])
     IN /\ formed' = IF worth THEN [formed EXCEPT ![a] = Append(@, Job(w).belief)]
                     ELSE formed
        /\ jobs' = IF worth THEN [jobs EXCEPT ![w] =
                                    <<[Job(w) EXCEPT !.op = "note"]>> \o Tail(@)]
                   ELSE Finished(w)
  /\ UNCHANGED <<redis, ledger, grounds, story, settled, clock, tick, hand, crowded,
                 told, deeds, faults, history>>

\* BeliefLedger.record; an insight into somebody then weighs on the edge.
Note(w) ==
  /\ Doing(w, {"note"})
  /\ LET a == Job(w).who
         belief == Job(w).belief
     IN /\ ledger' = [ledger EXCEPT ![a] = Noted(@, belief)]
        /\ jobs' = [jobs EXCEPT ![w] =
             (IF belief.kind = "person_insight"
              THEN <<[op |-> "muse", keys |-> <<<<a, belief.about>>>>, sure |-> belief.sure]>>
              ELSE <<>>) \o Tail(@)]
  /\ UNCHANGED <<redis, formed, grounds, story, settled, clock, tick, hand, crowded,
                 told, deeds, faults, history>>

\* The ledger is marked, the tick is over.
FinishTick(w) ==
  /\ Doing(w, {"end"}) /\ told[w] = Silence
  /\ settled' = [a \in Actors |->
                   IF a \in Job(w).who THEN tick[w] ELSE settled[a]]
  /\ jobs' = Finished(w)
  /\ UNCHANGED <<redis, story, clock, beliefs, tick, hand, crowded, told, deeds, faults,
                 history>>

Lost(w) ==
  /\ grounds' = [a \in Actors |-> IF Home[a] = w THEN None ELSE grounds[a]]
  /\ jobs' = [jobs EXCEPT ![w] = <<>>] /\ hand' = [hand EXCEPT ![w] = Empty]
  /\ crowded' = [crowded EXCEPT ![w] = None]
  /\ told' = [told EXCEPT ![w] = Silence]
  /\ UNCHANGED <<redis, ledger, formed, story, settled, clock, tick, deeds, history>>

\* The process ends in the middle of CONSOLIDATE, also because an append met
\* another shard's (EventStore), and starts again with the next tick.
Crash(w) ==
  /\ ~Idle(w) /\ faults < MaxFaults
  /\ faults' = faults + 1
  /\ Lost(w)

Keep(w) ==
  \/ StartTick(w)
  \/ Load(w) \/ Meet(w) \/ PutToRest(w) \/ Forget(w) \/ Gone(w) \/ Save(w)
  \/ Judge(w) \/ Put(w) \/ ListEdges(w)
  \/ AppendNews(w) \/ Reflect(w) \/ State(w) \/ Note(w) \/ FinishTick(w)

Next == NextTick \/ \E w \in Workers : Keep(w) \/ Crash(w)

Spec == Init /\ [][Next]_vars

-----------------------------------------------------------------------------
Calm == faults = 0 /\ ~clash

\* The events of a sequence that tell the dimensions of an edge.
Telling(seq) == {n \in 1..Len(seq) : seq[n].type \in {"met", "changed"}}

LastOf(seq) ==
  seq[CHOOSE n \in Telling(seq) : \A m \in Telling(seq) : m <= n].dims

\* The last of what was told: of what is about to be, or else of what was.
Said(before, news) ==
  LET hot == {w \in Workers : Telling(news[w]) # {}}
  IN IF hot # {} THEN LastOf(news[CHOOSE w \in hot : TRUE])
     ELSE IF Telling(before) # {} THEN LastOf(before) ELSE Zero

\* What was last said about an edge.
LastSaid(k) == Said(story[k], [w \in Workers |-> told[w][k]])

Resting(k) ==
  \E w \in Workers : Doing(w, {"forget"}) /\ Job(w).keys = <<k>>

\* A crash between SADD and SREM leaves one edge too many in an index, and no
\* later registration makes up for it; an edge in Redis is listed in its actor's
\* index (what is not listed neither cools nor counts) unless it is being put to
\* rest, or was when a worker failed.
IndexKept ==
  /\ \A a \in Actors :
       \/ Cardinality(index[a]) <= MaxEdges + faults
       \/ \E w \in Workers : crowded[w] # None /\ crowded[w][1] = a
  /\ ~clash => \A k \in Keys :
       edge[k] # None => \/ k[2] \in index[k[1]]
                         \/ k \in dormant /\ (faults > 0 \/ Resting(k))

Thinking(a) ==
  \E w \in Workers :
    \E n \in DOMAIN jobs[w] :
      jobs[w][n].op \in {"believe", "note"} /\ jobs[w][n].who = a

\* n repeats what was last stated in its slot.
Repeats(a, n) ==
  LET said == {m \in 1..(n - 1) : Slot(formed[a][m]) = Slot(formed[a][n])}
  IN  said # {} /\ LET m == CHOOSE x \in said : \A y \in said : y <= x
                   IN  Abs(formed[a][n].sure - formed[a][m].sure) < Restate

\* When an actor has reflected, it holds with more than a glow exactly what it had
\* grounds for; what lost its grounds was taken back.  Nobody states the same
\* again every hour: only a worker that ends between the event and the ledger
\* makes its successor repeat it (reflection.py:7, phases.py _store_belief).
BeliefsHaveGrounds ==
  \A a \in Actors :
    /\ grounds[a] # None /\ ~Thinking(a) =>
         {s \in DOMAIN ledger[a] : s[1] \in RuleKinds /\ ledger[a][s] > Faded} = grounds[a]
    /\ Cardinality({n \in DOMAIN formed[a] : Repeats(a, n)}) <= faults

\* The state is well-formed, the index is kept and so are the beliefs.
EdgeInv == TypeOK /\ IndexKept /\ BeliefsHaveGrounds

\* Rule 5 (relationship.py:6): what separates an edge from what the world was
\* told last is exactly what is pending, and never as much as is worth telling but
\* for what the rounding of five numbers adds.
Rest == 5 * (Grain \div 2)

GapIsPending ==
  Calm => \A k \in Keys :
    edge[k] # None =>
      /\ \A d \in Dimensions : edge[k].dims[d] - LastSaid(k)[d] = edge[k].pending[d]
      /\ PendingL1(edge[k]) < PublishAt + Rest

\* A confession or a parting is a matter of two (engine.py:271-274): outside the
\* step between the two writes, one edge is romantic only if the other is,
\* unless one of them went dormant.
RomanceIsMutual ==
  Calm => \A k \in Keys :
    LET l == <<k[2], k[1]>>
    IN \/ l \notin Keys \/ k \in dormant \/ l \in dormant
       \/ \E w \in Workers : hand[w][k] # None /\ hand[w][l] # None
       \/ edge[k] = None \/ edge[k].stage # "romantic"
       \/ edge[l] # None /\ edge[l].stage = "romantic"

=============================================================================
