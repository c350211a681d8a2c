----------------------------- MODULE EmotionEngine -----------------------------
(***************************************************************************)
(* The pure rules of feeling (engine/emotion: engine.py, model.py; the     *)
(* folds of lf_actor/emotion.py): a slow mood in three dimensions that     *)
(* returns to the actor's temper, and a short list of emotions about       *)
(* somebody or something, strongest first.                                 *)
(***************************************************************************)
EXTENDS Gauge, Sequences, SequencesExt

CONSTANTS
  Nobody,            \* an emotion about no one, a feeling without a cause
  Appraisal,         \* params appraisal: kind, [type, base, pad]
  PostAppraisal,     \* params post_appraisal: "warm" and "sore"
  DramaFloor, MoodWeight, Regression, Fading, CullThreshold, MaxActive,
  Reinforcement, MoodDelta, InstanceIntensity,  \* the other params
  NeuroticSensitivity, SocialSensitivity, Resilience

Axes == {"pleasure", "arousal", "dominance"}

IsRule(r) ==
  /\ r.base \in 0..One
  /\ \A x \in Axes : r.pad[x] \in -One..One

ASSUME EmotionAssumption ==
  /\ \A k \in DOMAIN Appraisal : IsRule(Appraisal[k])
  /\ \A c \in {"warm", "sore"} : IsRule(PostAppraisal[c])
  /\ {DramaFloor, MoodWeight, Regression, Fading, CullThreshold, Reinforcement,
      MoodDelta, InstanceIntensity} \subseteq 0..One
  /\ {NeuroticSensitivity, SocialSensitivity, Resilience} \subseteq Nat
  /\ MaxActive \in Nat \ {0}

-----------------------------------------------------------------------------
(* Temper.                                                                  *)

Sensitivity(five) ==
  Times(One + Times(five.neuroticism, NeuroticSensitivity),
        One + Times(five.extraversion, SocialSensitivity))

ResilienceOf(five) == One + Times(One - five.neuroticism, Resilience)

\* baseline_from_ocean: the coefficients are the meaning of the traits.
Baseline(five) ==
  LET part(n) == Bounded(-One, One, n)
  IN [pleasure |-> part((4 * five.extraversion + 4 * five.agreeableness
                           - 5 * five.neuroticism) \div 10),
      arousal |-> part((20 * five.neuroticism + 12 * five.openness
                          - 10 * One) \div 40),
      dominance |-> part((50 * five.extraversion - 40 * five.neuroticism
                            + 20 * five.conscientiousness - 15 * One) \div 100)]

-----------------------------------------------------------------------------
(* Feeling something.                                                       *)

Neutral == [mood |-> [x \in Axes |-> 0], emotions |-> <<>>]

Feeling(type, intensity, target, cause) ==
  [type |-> type, intensity |-> intensity, target |-> target, cause |-> cause]

Alike(i, j) == i.type = j.type /\ i.target = j.target

\* list.sort: strongest first, older first among equals.
Ranked(emotions) ==
  LET insert(sorted, i) ==
        LET n == Len(SelectSeq(sorted, LAMBDA j : j.intensity >= i.intensity))
        IN SubSeq(sorted, 1, n) \o <<i>> \o SubSeq(sorted, n + 1, Len(sorted))
  IN FoldLeft(insert, <<>>, emotions)

Cut(emotions) ==
  SubSeq(emotions, 1, IF Len(emotions) < MaxActive THEN Len(emotions) ELSE MaxActive)

\* Mutant: an emotion felt again is listed again.
MergeAppended(emotions, new) == Cut(Ranked(Append(emotions, new)))

\* An emotion felt again is stronger than before, and the weakest give way.
MergeInstance(emotions, new) ==
  LET more(i) ==
        LET stronger == IF i.intensity < new.intensity THEN new.intensity
                        ELSE i.intensity
            weaker == i.intensity + new.intensity - stronger
        IN [new EXCEPT !.intensity =
              Bounded(0, One, stronger + Times(Reinforcement, weaker))]
      merged ==
        IF \E n \in 1..Len(emotions) : Alike(emotions[n], new)
        THEN [n \in 1..Len(emotions) |->
                IF Alike(emotions[n], new) THEN more(emotions[n])
                ELSE emotions[n]]
        ELSE Append(emotions, new)
  IN Cut(Ranked(merged))

Moved(mood, pad, intensity) ==
  [x \in Axes |-> Bounded(-One, One,
     mood[x] + Times(Times(MoodWeight, intensity), pad[x]))]

L1(mood, before) ==
  Gap(mood["pleasure"], before["pleasure"])
  + Gap(mood["arousal"], before["arousal"])
  + Gap(mood["dominance"], before["dominance"])

Unmoved(state) == [state |-> state, significant |-> FALSE]

Felt(state, rule, intensity, target, cause) ==
  LET mood == Moved(state.mood, rule.pad, intensity)
      new == Feeling(rule.type, intensity, target, cause)
  IN [state |-> [mood |-> mood, emotions |-> MergeInstance(state.emotions, new)],
      significant |-> L1(mood, state.mood) >= MoodDelta]

Strength(base, five) == Bounded(0, One, Times(base, Sensitivity(five)))

AppraiseInteraction(state, kind, five, player, cause) ==
  IF kind \notin DOMAIN Appraisal THEN Unmoved(state)
  ELSE LET rule == Appraisal[kind]
           intensity == Strength(rule.base, five)
           felt == Felt(state, rule, intensity, player, cause)
       IN [felt EXCEPT !.significant = @ \/ intensity >= InstanceIntensity]

\* The outcome of a goal moves nobody else, and only a change of mood is told.
AppraiseGoal(state, kind, magnitude, five, cause) ==
  IF kind \notin DOMAIN Appraisal THEN Unmoved(state)
  ELSE LET rule == Appraisal[kind]
           intensity == Strength(Times(rule.base, magnitude), five)
       IN IF intensity < CullThreshold THEN Unmoved(state)
          ELSE Felt(state, rule, intensity, Nobody, cause)

\* A neighbour's post is felt as warmly as its author is liked; a stranger's
\* is not felt at all.
AppraisePost(state, edge, drama, five, author, cause) ==
  LET warmth == Bounded(0, 2 * One, edge.trust + edge.intimacy) \div 2
      sore == Bounded(0, One, edge.resentment)
      channel == IF sore > warmth THEN "sore" ELSE "warm"
      strength == IF sore > warmth THEN sore ELSE warmth
      rule == PostAppraisal[channel]
      magnitude == Times(DramaFloor + Times(One - DramaFloor, Clamp01(drama)),
                         strength)
      intensity == Strength(Times(rule.base, magnitude), five)
  IN IF strength = 0 \/ intensity < CullThreshold THEN Unmoved(state)
     ELSE Felt(state, rule, intensity, author, cause)

\* (1 - rate)^ticks.
Factor(rate, ticks) ==
  LET power[n \in 0..ticks] ==
        IF n = 0 THEN One ELSE Times(power[n - 1], One - rate)
  IN power[ticks]

DecayFeelings(state, five, ticks) ==
  IF ticks <= 0 THEN state
  ELSE
  LET factor == Factor(Times(Fading, ResilienceOf(five)), ticks)
      back == Clamp01(Times(Regression, ResilienceOf(five)) * ticks)
      weaker(i) == [i EXCEPT !.intensity = Times(@, factor)]
      stays(i) == Times(i.intensity, factor) >= CullThreshold
      kept == SelectSeq(state.emotions, stays)
  IN [mood |-> [x \in Axes |-> Bounded(-One, One,
                  state.mood[x] + Times(Baseline(five)[x] - state.mood[x], back))],
      emotions |-> [n \in 1..Len(kept) |-> weaker(kept[n])]]

-----------------------------------------------------------------------------
(* The folds of the adapter: what happened, one after the other.            *)

FirstOf(found) ==
  IF found = <<>> THEN Feeling("unknown", 0, Nobody, Nobody) ELSE found[1]

\* The emotion a shift is put down to: the strongest that this cause made or
\* that is about the same person (the code does not tell them apart).
Triggered(emotions, cause, whom) ==
  FirstOf(SelectSeq(emotions, LAMBDA e : e.cause = cause \/ e.target = whom))

TriggeredByGoal(emotions, cause) ==
  FirstOf(SelectSeq(emotions, LAMBDA e : e.cause = cause))

Shift(cause, instance) == [cause |-> cause, instance |-> instance]

\* items: [kind, id, from, drama]; edges: what the actor thinks of an author.
Appraise(state, items, five, edges) ==
  LET one(acc, i) ==
        LET r == IF i.kind = "post"
                 THEN IF i.from \in DOMAIN edges
                      THEN AppraisePost(acc.state, edges[i.from], i.drama, five,
                                        i.from, i.id)
                      ELSE Unmoved(acc.state)
                 ELSE AppraiseInteraction(acc.state, i.kind, five, i.from, i.id)
        IN [state |-> r.state,
            shifts |-> IF r.significant
                       THEN Append(acc.shifts,
                              Shift(i.id, Triggered(r.state.emotions, i.id, i.from)))
                       ELSE acc.shifts]
  IN FoldLeft(one, [state |-> state, shifts |-> <<>>], items)

\* signals: [kind, magnitude, cause].
AppraiseGoalSignals(state, signals, five) ==
  LET one(acc, s) ==
        LET r == AppraiseGoal(acc.state, s.kind, s.magnitude, five, s.cause)
        IN [state |-> r.state,
            shifts |-> IF r.significant
                       THEN Append(acc.shifts,
                              Shift(s.cause,
                                    TriggeredByGoal(r.state.emotions, s.cause)))
                       ELSE acc.shifts]
  IN FoldLeft(one, [state |-> state, shifts |-> <<>>], signals)
=============================================================================
