------------------------------- MODULE ActorMind -------------------------------
(***************************************************************************)
(* The inner life of a worker's actors over many ticks (lf_actor:          *)
(* phases.py with reload.py, emotion.py, goal.py, ledger.py, outreach.py,  *)
(* resonance.py, cognition.py, rules.py): who takes part, how closely each *)
(* is followed, what it feels and strives for, and when it speaks without  *)
(* being spoken to.                                                        *)
(*                                                                         *)
(* Mood, drives, the decay ledger and the allowances for speaking live in  *)
(* Redis, the actors' lives in the event store, the persona files on disk; *)
(* everything else dies with the worker, and the interrupted tick is run   *)
(* again under its number.  Between any two steps of a tick the studio     *)
(* (PersonaDesk) takes its own.  How mail gets into a mailbox, greetings,  *)
(* memories and beliefs are in ActorTick, relationships in EdgeKeeping.    *)
(***************************************************************************)
EXTENDS LevelOfDetail, EmotionEngine, GoalEngine, Rhythm, PersonaDesk

CONSTANTS
  Players,       \* numbered in the order of their ids
  Persona,       \* actor: [five, goals, bias]
  Edges,         \* actor: what it thinks of the actors and players it knows
  HotStart,      \* hot_start_cap
  HotFloor,      \* hot_floor
  Calls,         \* calls_per_tick of a tier
  SeenMax, CommentCooldown,                      \* params social
  DmThreshold, DmCheck, DmCooldown,              \* params outreach
  EchoThreshold, EchoTtl, BurstCooldown,         \* params resonance
  Scenes         \* bound: [cast, errands, mail, deeds, heard, last], what
                 \* happens and how long: mail[t] comes before tick t, deeds are
                 \* what inference may choose, heard whether it may fail

ASSUME MindAssumption ==
  /\ Actors \subseteq DOMAIN Persona \cap DOMAIN Edges \cap DOMAIN Hash
  /\ Players \subseteq Nat
  /\ {SeenMax, DmCheck} \subseteq Nat \ {0}
  /\ {HotStart, HotFloor, CommentCooldown, DmThreshold, DmCooldown, EchoTtl,
      BurstCooldown} \subseteq Nat
  /\ EchoThreshold \in 0..One
  /\ \A tier \in {"hot", "warm", "cold"} : Calls[tier] \in Nat \ {0}
  /\ \A s \in Scenes : s.cast \subseteq Actors /\ s.cast # {}

VARIABLES
  scene,
  tick,
  self,      \* ActorPhases: what the worker has in memory
  redis,     \* what outlives it
  mail,      \* lf:mb
  aged       \* history: ticks of decay an actor has felt, and since when

mindVars == <<scene, tick, self, redis, mail, aged>>
vars == <<deskVars, life, faults, mindVars>>

Never == -1

All(x) == [a \in Actors |-> x]

Early(S, n) == {a \in S : Cardinality({b \in S : b < a}) < n}

NoJoy == [kind |-> "none", magnitude |-> 0]

\* ActorPhases.__init__ and the first read of the persona files.
Fresh ==
  [at |-> "idle", todo |-> {}, crew |-> Roster, seenFiles |-> Fingerprint,
   lods |-> [a \in Roster |->
               [tier |-> IF a \in Early(Roster, HotStart) \cup Early(Roster, HotFloor)
                         THEN "hot" ELSE "warm",
                interest |-> 0]],
   declared |-> {}, inbox |-> All(<<>>), shifts |-> All(<<>>),
   posts |-> All(<<>>), commented |-> All(Never), calls |-> All(0),
   out |-> All(<<>>), posted |-> {}, acted |-> <<>>, doers |-> {},
   joy |-> All(NoJoy), settled |-> All(Never), dirty |-> {}, hydrated |-> FALSE,
   plan |-> <<>>]

NoEcho == [chain |-> Nobody, strength |-> 0, tick |-> 0]

Init ==
  /\ scene \in Scenes
  /\ DeskInit(scene.cast) /\ errands = scene.errands /\ faults = 0
  /\ tick = 0 /\ self = Fresh
  /\ redis = [feelings |-> All(Neutral),
              drive |-> [a \in Actors |-> InitialDrive(Persona[a])],
              ledger |-> All(Never), marked |-> {},
              sent |-> All(Never), echo |-> All(NoEcho), spent |-> All({}),
              burst |-> All(Never)]
  /\ mail = [a \in Actors |-> scene.mail[0][a]]
  /\ aged = [a \in Actors |-> [ticks |-> 0, since |-> Never]]

At(phase) == self.at = phase

First(a) == a \in self.todo /\ \A b \in self.todo : a <= b

Done(a) == self.todo \ {a}

OnlySelf == UNCHANGED <<deskVars, life, faults, scene, tick, redis, mail, aged>>

-----------------------------------------------------------------------------
(* The edge of a tick: personas are read again if a file changed.           *)

\* refresh_personas: newcomers start Hot, of those who left nothing is kept.
Reloaded(roster, t) ==
  LET left == self.crew \ roster
      added == roster \ self.crew
      without(f, x) == [a \in Actors |-> IF a \in left THEN x ELSE f[a]]
  IN [self EXCEPT !.crew = roster, !.seenFiles = Fingerprint,
        !.lods = [a \in roster |-> IF a \in added THEN [tier |-> "hot", interest |-> t]
                                   ELSE @[a]],
        !.inbox = without(@, <<>>), !.posts = without(@, <<>>),
        !.settled = without(@, Never),
        !.dirty = @ \ left, !.declared = @ \ left]

Enter(s, phase, todo) == [s EXCEPT !.at = phase, !.todo = todo]

\* ReloadingPhases.schedule: nothing changed, or nobody left to play.
Begin ==
  /\ At("idle") /\ tick <= scene.last
  /\ LET now == IF Fingerprint = self.seenFiles THEN self
                ELSE IF Roster = {} THEN [self EXCEPT !.seenFiles = Fingerprint]
                ELSE Reloaded(Roster, tick)
     IN self' = Enter(now, "world", now.crew \ now.declared)
  /\ OnlySelf

\* A file is being written: the old personas stay until a file changes again.
BeginTorn ==
  /\ At("idle") /\ tick <= scene.last
  /\ Fingerprint # self.seenFiles
  /\ Fault
  /\ self' = Enter([self EXCEPT !.seenFiles = Fingerprint], "world",
                   self.crew \ self.declared)
  /\ UNCHANGED <<deskVars, life, scene, tick, redis, mail, aged>>

\* world: SETNX first, ...
MarkIdentity(a) ==
  /\ At("world") /\ First(a)
  /\ redis' = [redis EXCEPT !.marked = @ \cup {a}]
  /\ self' = IF a \in redis.marked
             THEN [self EXCEPT !.todo = Done(a), !.declared = @ \cup {a}]
             ELSE [self EXCEPT !.at = "declare"]
  /\ UNCHANGED <<deskVars, life, faults, scene, tick, mail, aged>>

Tell(a, entries) == life' = [life EXCEPT ![a] = @ \o entries]

\* ... then the declaration.
DeclareIdentity(a) ==
  /\ At("declare") /\ First(a)
  /\ Tell(a, <<Entry("identity", tick, a, 0)>>)
  /\ self' = [Enter(self, "world", Done(a)) EXCEPT !.declared = @ \cup {a}]
  /\ UNCHANGED <<deskVars, faults, scene, tick, redis, mail, aged>>

-----------------------------------------------------------------------------
(* PERCEIVE.                                                                *)

\* _hydrate_ledger: once per process.
Hydrated ==
  [a \in Actors |-> IF self.hydrated \/ a \notin self.crew \/ self.settled[a] # Never
                    THEN self.settled[a] ELSE redis.ledger[a]]

\* drain_many takes the lists of the crew.
Drain ==
  /\ At("world") /\ self.todo = {}
  /\ self' = [Enter(self, "perceive", self.crew) EXCEPT
                !.settled = Hydrated, !.hydrated = TRUE, !.shifts = All(<<>>),
                !.inbox = [a \in Actors |-> IF a \in self.crew THEN mail[a] ELSE <<>>]]
  /\ mail' = [a \in Actors |-> IF a \in self.crew THEN <<>> ELSE mail[a]]
  /\ UNCHANGED <<deskVars, life, faults, scene, tick, redis, aged>>

KindsOf(items) == {items[n].kind : n \in 1..Len(items)}

Perceived(items) == SelectSeq(items, LAMBDA i : i.kind \notin {"spotlight", "arc"})

\* The director's spotlight first, then what happened to the actor; a
\* neighbour's post is no attention.
Attended(a) ==
  LET kinds == KindsOf(Perceived(self.inbox[a])) \ {"post"}
      lod == self.lods[a]
  IN IF "spotlight" \in KindsOf(self.inbox[a]) THEN Promote(lod, tick)
     ELSE IF kinds # {} THEN LodAfterPerception(lod, kinds, tick)
     ELSE IF a \in Early(self.crew, HotFloor) THEN Promote(lod, tick)
     ELSE MaybeDemote(lod, tick)

\* _ledger_get: an actor without an entry starts one tick ago.
Settled(a) == IF self.settled[a] = Never THEN tick - 1 ELSE self.settled[a]

Opened(s, a) ==
  [s EXCEPT !.settled[a] = Settled(a),
            !.dirty = IF self.settled[a] = Never THEN @ \cup {a} ELSE @]

\* The ticks before the first entry are nobody's debt.
Counted(h, a, ticks) ==
  [h EXCEPT ![a] = [ticks |-> @.ticks + ticks,
                    since |-> IF self.settled[a] = Never THEN tick - 1 - @.ticks
                              ELSE @.since]]

Faded(state, a, ticks) ==
  IF state = Neutral THEN state ELSE DecayFeelings(state, Persona[a].five, ticks)

Stirred(a) == self.inbox[a] # <<>> /\ KindsOf(self.inbox[a]) # {"arc"}

\* _catch_up: what was left undone while it slept, up to the last tick.
Behind(a) == IF Stirred(a) /\ tick - 1 > Settled(a) THEN tick - 1 - Settled(a) ELSE 0

\* The level of detail, and the debts of the past before anything is felt.
Notice(a) ==
  /\ At("perceive") /\ First(a)
  /\ LET heeded == Perceived(self.inbox[a])
         now == [self EXCEPT !.lods[a] = Attended(a), !.inbox[a] = heeded,
                   !.at = IF heeded = <<>> THEN "perceive" ELSE "sense",
                   !.todo = IF heeded = <<>> THEN Done(a) ELSE @]
         opened == IF Stirred(a) THEN Opened(now, a) ELSE now
     IN self' = IF Behind(a) > 0
                THEN [opened EXCEPT !.settled[a] = tick - 1, !.dirty = @ \cup {a}]
                ELSE opened
  /\ redis' = IF Behind(a) > 0
              THEN [redis EXCEPT !.feelings[a] = Faded(@, a, Behind(a)),
                                 !.drive[a] = DecayNeeds(@, Behind(a))]
              ELSE redis
  /\ aged' = IF Stirred(a) THEN Counted(aged, a, Behind(a)) ELSE aged
  /\ UNCHANGED <<deskVars, life, faults, scene, tick, mail>>

LastOf(seq, n) ==
  SubSeq(seq, 1 + (IF Len(seq) > n THEN Len(seq) - n ELSE 0), Len(seq))

\* Feelings and needs; posts are kept for the next decision.
Sense(a) ==
  LET items == self.inbox[a]
      posts == SelectSeq(items, LAMBDA i : i.kind = "post")
      felt == Appraise(redis.feelings[a], items, Persona[a].five, Edges[a])
  IN /\ At("sense") /\ First(a)
     /\ redis' = [redis EXCEPT
                    !.feelings[a] = felt.state,
                    !.drive[a] = FoldLeft(LAMBDA d, i : Satisfy(d, i.kind), @, items)]
     /\ self' = [Enter(self, "perceive", Done(a)) EXCEPT
                   !.shifts[a] = felt.shifts,
                   !.posts[a] = LastOf(@ \o posts, SeenMax)]
     /\ UNCHANGED <<deskVars, life, faults, scene, tick, mail, aged>>

-----------------------------------------------------------------------------
(* DECIDE.                                                                  *)

\* _spend_call: without a slot nobody is asked and the rules answer.
Able(a) == self.calls[a] < Calls[self.lods[a].tier]

Heard(a) == IF Able(a) THEN scene.heard ELSE {FALSE}

Spent(s, a) == [s EXCEPT !.calls[a] = IF Able(a) THEN @ + 1 ELSE @]

Say(s, a, entries) == [s EXCEPT !.out[a] = @ \o entries]

\* What an actor does by rule, for its keenest need.
Habit(persona) ==
  LET bias == persona.bias
      keenest == CHOOSE n \in 1..3 :
        /\ NeedOrder[n] \in DOMAIN bias
        /\ \A m \in 1..3 : NeedOrder[m] \in DOMAIN bias =>
             \/ bias[NeedOrder[m]] < bias[NeedOrder[n]]
             \/ (bias[NeedOrder[m]] = bias[NeedOrder[n]] /\ n <= m)
  IN IF DOMAIN bias = {} THEN "rest"
     ELSE [achievement |-> "work", belonging |-> "observe",
           security |-> "rest"][NeedOrder[keenest]]

\* The chance to comment on what was seen.
CommentOpen(a) ==
  /\ self.posts[a] # <<>>
  /\ self.commented[a] = Never \/ tick - self.commented[a] >= CommentCooldown

SeenPosts(a) ==
  IF CommentOpen(a) THEN {self.posts[a][n].id : n \in 1..Len(self.posts[a])} ELSE {}

\* A chance is used up by the decision it was offered to, taken or not.
Commented(s, a, post) ==
  IF ~CommentOpen(a) THEN s
  ELSE IF post = Nobody THEN [s EXCEPT !.posts[a] = <<>>]
  ELSE Say([s EXCEPT !.posts[a] = <<>>, !.commented[a] = tick], a,
           <<Entry("comment", tick, post, 0)>>)

\* _llm_action.
Inferred(s, a, deed, post) ==
  Say(Commented(Spent(s, a), a, post), a, <<Entry("act", tick, Nobody, deed)>>)

Unheard(s, a) ==
  Say(Spent(s, a), a, <<Entry("act", tick, Nobody, Habit(Persona[a]))>>)

\* Whoever is due acts: by inference, by rule when that fails, a Cold one always
\* by rule.
Act(a) ==
  /\ At("decide") /\ First(a)
  /\ IF ~IsDue(a, self.lods[a], tick) THEN self' = [self EXCEPT !.at = "answer"]
     ELSE IF self.lods[a].tier = "cold"
     THEN self' = Say([self EXCEPT !.at = "answer"], a,
                      <<Entry("act", tick, Nobody, Habit(Persona[a]))>>)
     ELSE \E heard \in Heard(a) :
            IF heard
            THEN \E deed \in scene.deeds, post \in {Nobody} \cup SeenPosts(a) :
                   self' = [Inferred(self, a, deed, post) EXCEPT !.at = "answer"]
            ELSE self' = [Unheard(self, a) EXCEPT !.at = "answer"]
  /\ OnlySelf

\* Every word and every comment is answered, by whom does not matter.
Answered(s, a) ==
  LET words == SelectSeq(self.inbox[a],
                         LAMBDA i : i.kind \in {"dm", "comment", "message"})
      reply(i) == Entry("reply", tick, i.id, 0)
      room == Calls[self.lods[a].tier] - self.calls[a]
  IN [Say(s, a, [n \in 1..Len(words) |-> reply(words[n])]) EXCEPT
        !.calls[a] = @ + (IF Len(words) < room THEN Len(words) ELSE room)]

Reply(a) ==
  /\ At("answer") /\ First(a)
  /\ self' = Answered(Enter(self, "decide", Done(a)), a)
  /\ OnlySelf

FadedEcho(a) == tick - redis.echo[a].tick > EchoTtl

Ready(last, cooldown) == last = Never \/ tick - last >= cooldown

BurstDue(a) ==
  redis.echo[a] # NoEcho /\ ~FadedEcho(a) /\ Ready(redis.burst[a], BurstCooldown)

\* _burst_resonance: a conversation that stayed on its mind becomes a post of
\* the same chain, by inference or by rule.
Burst(a) ==
  /\ At("burst") /\ First(a)
  /\ IF BurstDue(a)
     THEN LET chain == redis.echo[a].chain
          IN /\ \E heard \in Heard(a) : \E deed \in IF heard THEN scene.deeds
                                                     ELSE {"speak"} :
                  self' = Say([Spent(self, a) EXCEPT !.todo = Done(a),
                                                      !.posted = @ \cup {a}],
                              a, <<Entry("burst", tick, chain, deed)>>)
             /\ redis' = [redis EXCEPT !.echo[a] = NoEcho,
                                       !.spent[a] = @ \cup {chain},
                                       !.burst[a] = tick]
     ELSE /\ self' = [self EXCEPT !.todo = Done(a)]
          /\ redis' = IF redis.echo[a] # NoEcho /\ FadedEcho(a)
                      THEN [redis EXCEPT !.echo[a] = NoEcho] ELSE redis
  /\ UNCHANGED <<deskVars, life, faults, scene, tick, mail, aged>>

\* News of one's own, only when inference has something to say.
PostStatus(a) ==
  /\ At("rhythm") /\ First(a)
  /\ \E heard \in Heard(a) :
       IF heard
       THEN \E deed \in scene.deeds, post \in {Nobody} \cup SeenPosts(a) :
              self' = [Inferred(self, a, deed, post) EXCEPT !.todo = Done(a)]
       ELSE self' = [Spent(self, a) EXCEPT !.todo = Done(a)]
  /\ OnlySelf

\* dm_score, pick_dm_target: the player that is liked best, if well enough.
Warmth(a, p) == Edges[a][p].trust + Edges[a][p].intimacy

Friends(a) == {p \in Players \cap DOMAIN Edges[a] : Warmth(a, p) >= DmThreshold}

BestFriend(a) ==
  CHOOSE p \in Friends(a) : \A q \in Friends(a) :
    \/ Warmth(a, q) < Warmth(a, p)
    \/ (Warmth(a, q) = Warmth(a, p) /\ p <= q)

DmDue(a) == Friends(a) # {} /\ Ready(redis.sent[a], DmCooldown)

\* _proactive_dm: the ledger is marked when inference found words.
Outreach(a) ==
  /\ At("outreach") /\ First(a)
  /\ \E heard \in IF DmDue(a) THEN Heard(a) ELSE {FALSE} :
       /\ self' = LET s == [IF DmDue(a) THEN Spent(self, a) ELSE self
                              EXCEPT !.todo = Done(a)]
                  IN IF heard THEN Say(s, a, <<Entry("dm", tick, BestFriend(a), 0)>>)
                     ELSE s
       /\ redis' = IF heard THEN [redis EXCEPT !.sent[a] = tick] ELSE redis
  /\ UNCHANGED <<deskVars, life, faults, scene, tick, mail, aged>>

-----------------------------------------------------------------------------
(* RESOLVE.                                                                 *)

\* The strongest emotion a shift of this cause named.
Peak(a, cause) ==
  LET named == {self.shifts[a][n].instance.intensity :
                  n \in {m \in 1..Len(self.shifts[a]) :
                           self.shifts[a][m].cause = cause}}
  IN IF named = {} THEN 0 ELSE CHOOSE x \in named : \A y \in named : y <= x

\* Mutant: a chain that was spent comes back.
TakesPlaceAgain(a, echo, item) ==
  Peak(a, item.id) >= EchoThreshold /\ Peak(a, item.id) >= echo.strength

\* ResonanceStore.record: not again for a chain that was spent, and only over a
\* weaker echo.
TakesPlace(a, echo, item) ==
  /\ Peak(a, item.id) >= EchoThreshold /\ Peak(a, item.id) >= echo.strength
  /\ item.chain \notin redis.spent[a]

\* _record_resonances: comments of players that were answered and moved.
RecordEchoes(a) ==
  LET place(echo, item) ==
        IF item.kind = "comment" /\ TakesPlace(a, echo, item)
        THEN [chain |-> item.chain, strength |-> Peak(a, item.id), tick |-> tick]
        ELSE echo
  IN /\ At("echo") /\ First(a)
     /\ redis' = [redis EXCEPT !.echo[a] = FoldLeft(place, @, self.inbox[a])]
     /\ self' = [self EXCEPT !.todo = Done(a)]
     /\ UNCHANGED <<deskVars, life, faults, scene, tick, mail, aged>>

ShiftsOf(a) ==
  [n \in 1..Len(self.shifts[a]) |-> Entry("shift", tick, self.shifts[a][n].cause, 0)]

\* Replies, messages, comments, then deeds: resolve's order.
InOrder(out) ==
  LET of(types) == SelectSeq(out, LAMBDA e : e.type \in types)
  IN of({"reply"}) \o of({"dm"}) \o of({"comment"}) \o of({"act", "burst"})

Deeds(a) ==
  LET acts == SelectSeq(self.out[a], LAMBDA e : e.type \in {"act", "burst"})
  IN [n \in 1..Len(acts) |-> [who |-> a, deed |-> acts[n].what]]

\* One append for the shifts of an actor, one for everything else.
AppendShifts(a) ==
  /\ At("resolve") /\ First(a) /\ self.shifts[a] # <<>>
  /\ Tell(a, ShiftsOf(a))
  /\ self' = [self EXCEPT !.shifts[a] = <<>>]
  /\ UNCHANGED <<deskVars, faults, scene, tick, redis, mail, aged>>

AppendEvents(a) ==
  /\ At("resolve") /\ First(a) /\ self.shifts[a] = <<>>
  /\ Tell(a, InOrder(self.out[a]))
  /\ self' = [self EXCEPT !.todo = Done(a), !.out[a] = <<>>,
                          !.acted = @ \o Deeds(a)]
  /\ UNCHANGED <<deskVars, faults, scene, tick, redis, mail, aged>>

-----------------------------------------------------------------------------
(* CONSOLIDATE.                                                             *)

\* Mutant: a sleeper's debt is collected as if it were one tick.
OwesOne(a) == 1

Owes(a) == tick - Settled(a)

\* _decay_plan: every entry is opened; a Cold actor pays when it is due.
Plan ==
  [a \in {b \in self.crew : /\ self.lods[b].tier = "cold" => IsDue(b, self.lods[b], tick)
                            /\ Owes(b) > 0} |-> Owes(a)]

Opening(s) ==
  [s EXCEPT !.settled = [a \in Actors |-> IF a \in self.crew THEN Settled(a) ELSE @[a]],
            !.dirty = @ \cup {a \in self.crew : self.settled[a] = Never}]

OpeningCounted ==
  [a \in Actors |-> IF a \in self.crew THEN Counted(aged, a, 0)[a] ELSE aged[a]]

Consolidate ==
  /\ At("resolve") /\ self.todo = {}
  /\ self' = [Opening(Enter(self, "goals", {})) EXCEPT
                !.plan = Plan, !.joy = All(NoJoy),
                !.doers = {self.acted[n].who : n \in 1..Len(self.acted)}]
  /\ aged' = OpeningCounted
  /\ UNCHANGED <<deskVars, life, faults, scene, tick, redis, mail>>

GoalEntry(told) ==
  IF told.progress >= One THEN Entry("achieved", tick, told.goal, One)
  ELSE Entry("advanced", tick, told.goal, told.progress)

Joy(before, result) ==
  IF \E x \in result.told : x.progress >= One
  THEN [kind |-> "goal.achieved", magnitude |-> One]
  ELSE IF /\ result.told # {} /\ before.kind # "goal.achieved"
          /\ before = NoJoy \/ result.congruence > before.magnitude
  THEN [kind |-> "goal.advanced", magnitude |-> result.congruence]
  ELSE before

\* record_action, deed by deed: the drive is saved, its events are kept back.
RecordDeed ==
  /\ At("goals") /\ self.acted # <<>>
  /\ LET a == Head(self.acted).who
         result == AppraiseAction(redis.drive[a], Head(self.acted).deed, Persona[a])
         told == SetToSeq(result.told)
     IN /\ redis' = [redis EXCEPT !.drive[a] = result.drive]
        /\ self' = Say([self EXCEPT !.acted = Tail(@), !.joy[a] = Joy(@, result)], a,
                       [n \in 1..Len(told) |-> GoalEntry(told[n])])
  /\ UNCHANGED <<deskVars, life, faults, scene, tick, mail, aged>>

Announce(a) ==
  /\ At("announce") /\ First(a)
  /\ Tell(a, self.out[a])
  /\ self' = [self EXCEPT !.todo = Done(a), !.out[a] = <<>>]
  /\ UNCHANGED <<deskVars, faults, scene, tick, redis, mail, aged>>

Signals(a) ==
  LET joy == self.joy[a]
  IN (IF joy = NoJoy THEN <<>>
      ELSE <<[kind |-> joy.kind, magnitude |-> joy.magnitude, cause |-> tick]>>)
     \o (IF Starving(redis.drive[a], Persona[a])
         THEN <<[kind |-> "goal.frustrated", magnitude |-> Hunger(redis.drive[a], Persona[a]),
                 cause |-> Nobody]>>
         ELSE <<>>)

\* _emit_goal_emotions: feelings are saved, then their shifts are appended.
FeelGoals(a) ==
  /\ At("moods") /\ First(a)
  /\ LET felt == AppraiseGoalSignals(redis.feelings[a], Signals(a), Persona[a].five)
     IN /\ redis' = [redis EXCEPT !.feelings[a] = felt.state]
        /\ self' = IF felt.shifts = <<>> THEN [self EXCEPT !.todo = Done(a)]
                   ELSE [self EXCEPT !.at = "mood", !.shifts[a] = felt.shifts]
  /\ UNCHANGED <<deskVars, life, faults, scene, tick, mail, aged>>

AppendMood(a) ==
  /\ At("mood") /\ First(a)
  /\ Tell(a, ShiftsOf(a))
  /\ self' = [Enter(self, "moods", Done(a)) EXCEPT !.shifts[a] = <<>>]
  /\ UNCHANGED <<deskVars, faults, scene, tick, redis, mail, aged>>

\* Feelings fade, for all actors of the plan ...
Cool(a) ==
  /\ At("cool") /\ First(a)
  /\ redis' = [redis EXCEPT !.feelings[a] = Faded(@, a, self.plan[a])]
  /\ self' = [self EXCEPT !.todo = Done(a)]
  /\ UNCHANGED <<deskVars, life, faults, scene, tick, mail, aged>>

\* ... then needs grow.
Tire(a) ==
  /\ At("tire") /\ First(a)
  /\ redis' = [redis EXCEPT !.drive[a] = DecayNeeds(@, self.plan[a])]
  /\ aged' = Counted(aged, a, self.plan[a])
  /\ self' = [self EXCEPT !.todo = Done(a)]
  /\ UNCHANGED <<deskVars, life, faults, scene, tick, mail>>

\* The ledger, once for the whole tick.
MarkLedger ==
  /\ At("tire") /\ self.todo = {}
  /\ LET settled == [a \in Actors |-> IF a \in DOMAIN self.plan THEN tick
                                      ELSE self.settled[a]]
     IN /\ self' = [Enter(self, "complete", {}) EXCEPT
                      !.settled = settled, !.dirty = {}]
        /\ redis' = [redis EXCEPT !.ledger =
                       [a \in Actors |->
                          IF a \in self.dirty \cup DOMAIN self.plan THEN settled[a]
                          ELSE @[a]]]
  /\ UNCHANGED <<deskVars, life, faults, scene, tick, mail, aged>>

\* COMPLETE; what is sent until the next tick is in its mailbox by then.
Complete ==
  /\ At("complete")
  /\ tick' = tick + 1
  /\ self' = Enter(self, "idle", {})
  /\ mail' = IF tick + 1 \in DOMAIN scene.mail
             THEN [a \in Actors |-> mail[a] \o scene.mail[tick + 1][a]] ELSE mail
  /\ UNCHANGED <<deskVars, life, faults, scene, redis, aged>>

-----------------------------------------------------------------------------
\* Who takes part in which phase, and what comes after it.
Moments == {a \in self.crew : PostingMoment(a, tick)}

Following(phase) ==
  CASE phase = "perceive" -> <<"decide", self.crew>>
    [] phase = "decide" -> <<"burst", Moments>>
    [] phase = "burst" ->
         <<"rhythm", {a \in Moments : /\ ~IsDue(a, self.lods[a], tick)
                                      /\ a \notin self.posted}>>
    [] phase = "rhythm" ->
         <<"outreach", {a \in self.crew : tick % DmCheck = PhaseOffset(a, DmCheck)}>>
    [] phase = "outreach" -> <<"echo", {a \in self.crew : self.inbox[a] # <<>>}>>
    [] phase = "echo" ->
         <<"resolve", {a \in self.crew : self.out[a] # <<>> \/ self.shifts[a] # <<>>}>>
    [] phase = "goals" -> <<"announce", {a \in self.crew : self.out[a] # <<>>}>>
    [] phase = "announce" -> <<"moods", self.doers>>
    [] phase = "moods" -> <<"cool", DOMAIN self.plan>>
    [] phase = "cool" -> <<"tire", DOMAIN self.plan>>

Advance ==
  /\ self.at \in {"perceive", "decide", "burst", "rhythm", "outreach", "echo", "goals",
                  "announce", "moods", "cool"}
  /\ self.todo = {} /\ (At("goals") => self.acted = <<>>)
  /\ self' = [Enter(self, Following(self.at)[1], Following(self.at)[2]) EXCEPT
                !.calls = IF self.at = "perceive" THEN All(0) ELSE @,
                !.posted = IF self.at = "perceive" THEN {} ELSE @]
  /\ OnlySelf

\* The process ends: an exception (a conflict with the studio's append is one)
\* or a crash.
Crash ==
  /\ ~At("down") /\ Fault
  /\ self' = [Fresh EXCEPT !.at = "down"]
  /\ UNCHANGED <<deskVars, life, scene, tick, redis, mail, aged>>

\* It needs an actor to start with.
Restart ==
  /\ At("down") /\ Roster # {}
  /\ self' = Fresh
  /\ OnlySelf

\* The story is told, or the worker starts and ends for want of a persona.
Over ==
  /\ \/ At("idle") /\ tick > scene.last
     \/ At("down") /\ Roster = {}
  /\ UNCHANGED vars

Tick ==
  \/ Begin \/ BeginTorn
  \/ \E a \in Actors : MarkIdentity(a) \/ DeclareIdentity(a)
  \/ Drain
  \/ \E a \in Actors : Notice(a) \/ Sense(a)
  \/ \E a \in Actors : \/ Act(a) \/ Reply(a) \/ Burst(a)
                       \/ PostStatus(a) \/ Outreach(a)
  \/ \E a \in Actors : RecordEchoes(a) \/ AppendShifts(a) \/ AppendEvents(a)
  \/ Consolidate \/ RecordDeed
  \/ \E a \in Actors : \/ Announce(a) \/ FeelGoals(a) \/ AppendMood(a)
                       \/ Cool(a) \/ Tire(a)
  \/ MarkLedger \/ Complete \/ Advance

Next ==
  \/ Tick
  \/ DeskStep /\ UNCHANGED mindVars
  \/ Crash \/ Restart \/ Over

Spec == Init /\ [][Next]_vars

-----------------------------------------------------------------------------
OfType(a, types) == {n \in 1..Len(life[a]) : life[a][n].type \in types}

Apart(a, S, gap) ==
  \A m, n \in S : m < n => life[a][n].tick - life[a][m].tick >= gap

\* What Redis keeps of an actor is in range: the strongest emotion first, none
\* listed twice, no more than fit; and nobody is thought for more often than its
\* tier allows.
MindInv ==
  /\ DeskTypeOK
  /\ \A a \in Actors :
       LET felt == redis.feelings[a]
           drive == redis.drive[a]
       IN /\ \A x \in Axes : felt.mood[x] \in -One..One
          /\ Len(felt.emotions) <= MaxActive
          /\ \A m, n \in 1..Len(felt.emotions) : m < n =>
               /\ felt.emotions[m].intensity >= felt.emotions[n].intensity
               /\ ~Alike(felt.emotions[m], felt.emotions[n])
          /\ \A n \in Needs : drive.needs[n] \in 0..One
          /\ \A g \in DOMAIN drive.goals :
               drive.goals[g] \in 0..One /\ drive.pending[g] \in 0..PublishGoalAt - 1
  /\ (self.crew # {} \/ At("down")) /\ DOMAIN self.lods = self.crew
  /\ self.at \in {"decide", "answer", "burst", "rhythm", "outreach", "echo"} =>
       \A a \in self.crew : self.calls[a] <= Calls[self.lods[a].tier]

\* Time passes for an actor that sleeps (ADR-012, Cold batches; ledger.py): the
\* ledger never claims a tick of decay that was not applied, whatever crashed;
\* without faults every tick is applied exactly once, and a sleeper's debt stays
\* under one interval.
NoDecayLost ==
  \A a \in Actors :
    /\ redis.ledger[a] # Never =>
         redis.ledger[a] <= aged[a].since + aged[a].ticks
    /\ faults = 0 /\ At("idle") /\ tick > 0 /\ a \in self.crew =>
         /\ self.settled[a] = aged[a].since + aged[a].ticks
         /\ redis.ledger[a] = self.settled[a]
         /\ tick - 1 - self.settled[a] <
              IF self.lods[a].tier = "cold" THEN ColdInterval ELSE 1

ItemsSent ==
  UNION {{scene.mail[t][a][n] : n \in 1..Len(scene.mail[t][a])} :
           t \in DOMAIN scene.mail, a \in Actors}

\* Whoever speaks unasked holds back (outreach.py, resonance.py): messages to a
\* player and bursts keep their distance even over a crash, a chain bursts once
\* and only while the conversation that caused it is fresh; a post is commented
\* on once, and comments keep their distance until the worker forgets.
Restraint ==
  \A a \in Actors :
    LET bursts == OfType(a, {"burst"})
        comments == OfType(a, {"comment"})
    IN /\ Apart(a, OfType(a, {"dm"}), DmCooldown)
       /\ Apart(a, bursts, BurstCooldown)
       /\ \A m, n \in bursts : m # n => life[a][m].of # life[a][n].of
       /\ faults = 0 => \A b \in bursts :
            \E r \in OfType(a, {"reply"}), i \in ItemsSent :
              /\ life[a][r].of = i.id /\ i.chain = life[a][b].of
              /\ life[a][b].tick - life[a][r].tick \in 0..EchoTtl
       /\ \A m, n \in comments : m # n => life[a][m].of # life[a][n].of
       /\ faults = 0 => Apart(a, comments, CommentCooldown)

\* A goal is a way that is walked once (goal/engine.py): it is told to be reached
\* at most once and only when it is, each step that is told is farther than the
\* one before, and without faults nothing untold is lost between two ticks.
TurningPoints ==
  \A a \in Actors : \A g \in DOMAIN Persona[a].goals :
    LET about == {n \in OfType(a, {"advanced", "achieved"}) : life[a][n].of = g}
        last == IF about = {} THEN 0
                ELSE life[a][CHOOSE n \in about : \A m \in about : m <= n].what
        reached == {n \in about : life[a][n].type = "achieved"}
    IN /\ \A m, n \in about : m < n => life[a][m].what < life[a][n].what
       /\ Cardinality(reached) <= 1
       /\ reached # {} => redis.drive[a].goals[g] = One
       /\ faults = 0 /\ At("idle") =>
            /\ redis.drive[a].goals[g] = last + redis.drive[a].pending[g]
            /\ redis.drive[a].goals[g] = One => reached # {}

Speech == {"shift", "reply", "comment", "dm", "act", "burst", "advanced", "achieved"}

\* Somebody is left who was never sent away, so that the worker reads the files.
OthersStay(a) ==
  \E b \in (Actors \ {a}) \cap Roster : LifeCycle(b) = <<>>

\* The files and the event store agree on who lives (admin.py: "move, then tell,
\* and move back when telling fails"), an actor is introduced once, before it
\* says anything, and one that was sent away falls silent with the tick that
\* is running.
LifeCycleKept ==
  \A a \in Actors :
    LET born == OfType(a, {"identity"})
        parted == OfType(a, {"retired", "returned"})
        spoken == OfType(a, Speech)
    IN /\ Cardinality(born) <= 1
       /\ faults = 0 => \A n \in spoken : \E m \in born : m < n
       /\ waiting = {} /\ ~overlap /\ a \in scene.cast \ anew =>
            (a \in root <=> ~Gone(a))
       /\ faults = 0 /\ ~overlap /\ Gone(a) /\ a \notin root /\ OthersStay(a) =>
            \A m, k \in spoken :
              (\A p \in parted : p < m /\ p < k) => life[a][m].tick = life[a][k].tick
=============================================================================
