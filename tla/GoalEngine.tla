------------------------------ MODULE GoalEngine ------------------------------
(***************************************************************************)
(* The pure rules of needs and goals (engine/goal: engine.py, model.py):   *)
(* an action satisfies the need it serves and brings the goals that need   *)
(* drives nearer; needs come back with time, what is achieved stays.       *)
(***************************************************************************)
EXTENDS Gauge, FiniteSets

CONSTANTS
  InitialFill, DefaultBias,
  PerAction, PerInteraction,  \* satisfy_per_action, satisfy_per_interaction
  Depletion,                  \* deplete_per_tick
  ProgressStep, PublishGoalAt,
  StarveBelow, MinCare

ASSUME GoalAssumption ==
  {InitialFill, DefaultBias, PerAction, PerInteraction, Depletion, ProgressStep,
   PublishGoalAt, StarveBelow, MinCare} \subseteq 0..One

NeedOrder == <<"achievement", "belonging", "security">>

Needs == {NeedOrder[n] : n \in 1..3}

ActionNeed ==
  [work |-> "achievement", confront |-> "achievement", create |-> "achievement",
   study |-> "achievement", speak |-> "belonging", help |-> "belonging",
   observe |-> "belonging", share |-> "belonging", rest |-> "security",
   move |-> "security", avoid |-> "security"]

InteractionNeed == [dm |-> "belonging", comment |-> "belonging", like |-> "belonging"]

\* persona: [goals : id -> [need, priority], bias : need -> weight]
CareFor(persona, need) ==
  IF need \in DOMAIN persona.bias THEN persona.bias[need] ELSE DefaultBias

InitialDrive(persona) ==
  [needs |-> [n \in Needs |-> Times(CareFor(persona, n), InitialFill)],
   goals |-> [g \in DOMAIN persona.goals |-> 0],
   pending |-> [g \in DOMAIN persona.goals |-> 0]]

\* The goals an action still brings nearer.
Served(drive, persona, need) ==
  {g \in DOMAIN persona.goals :
     persona.goals[g].need = need /\ drive.goals[g] < One}

\* Mutant: what was told stays pending.
AdvancedPending(drive, persona, g) ==
  LET before == drive.goals[g]
      after == Clamp01(before + Times(ProgressStep, persona.goals[g].priority))
      due == drive.pending[g] + after - before
      told == after >= One \/ due >= PublishGoalAt
  IN [progress |-> after, pending |-> due, told |-> told]

\* One goal, one step: told when it is reached or has come far enough since it
\* was last told.
Advanced(drive, persona, g) ==
  LET before == drive.goals[g]
      after == Clamp01(before + Times(ProgressStep, persona.goals[g].priority))
      due == drive.pending[g] + after - before
      told == after >= One \/ due >= PublishGoalAt
  IN [progress |-> after, pending |-> IF told THEN 0 ELSE due, told |-> told]

AppraiseAction(drive, kind, persona) ==
  IF kind \notin DOMAIN ActionNeed
  THEN [drive |-> drive, congruence |-> 0, told |-> {}]
  ELSE
  LET need == ActionNeed[kind]
      served == Served(drive, persona, need)
      step(g) == Advanced(drive, persona, g)
  IN [drive |-> [needs |-> [drive.needs EXCEPT ![need] = Clamp01(@ + PerAction)],
                 goals |-> [g \in DOMAIN drive.goals |->
                   IF g \in served THEN step(g).progress ELSE drive.goals[g]],
                 pending |-> [g \in DOMAIN drive.pending |->
                   IF g \in served THEN step(g).pending ELSE drive.pending[g]]],
      congruence |-> CareFor(persona, need),
      told |-> {[goal |-> g, progress |-> step(g).progress] :
                  g \in {x \in served : step(x).told}}]

Satisfy(drive, kind) ==
  IF kind \notin DOMAIN InteractionNeed THEN drive
  ELSE [drive EXCEPT !.needs[InteractionNeed[kind]] = Clamp01(@ + PerInteraction)]

DecayNeeds(drive, ticks) ==
  IF ticks <= 0 THEN drive
  ELSE [drive EXCEPT !.needs = [n \in Needs |-> Clamp01(@[n] - Depletion * ticks)]]

\* The need that is missed most, the first of them in NEEDS.
PressingNeed(drive, persona) ==
  LET thirst(n) == (One - drive.needs[NeedOrder[n]]) * CareFor(persona, NeedOrder[n])
  IN NeedOrder[CHOOSE n \in 1..3 :
       \A m \in 1..3 : \/ thirst(m) < thirst(n)
                        \/ (thirst(m) = thirst(n) /\ n <= m)]

Starving(drive, persona) ==
  LET need == PressingNeed(drive, persona)
  IN drive.needs[need] < StarveBelow /\ CareFor(persona, need) >= MinCare

Hunger(drive, persona) == One - drive.needs[PressingNeed(drive, persona)]
=============================================================================
