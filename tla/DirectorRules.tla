------------------------------ MODULE DirectorRules ------------------------------
(***************************************************************************)
(* The pure side of the director (lf_director: signals.py, rules.py,       *)
(* planner.py, retrospect.py): when the stage is too quiet, what may be    *)
(* done about it, and what of a model's plan is let through.               *)
(*                                                                         *)
(* crc32 over the number of interventions is Turn, some sequence of        *)
(* numbers and then the same again; texts are left out except where one    *)
(* must not be empty.                                                      *)
(***************************************************************************)
EXTENDS WorldLog, SequencesExt

CONSTANTS
  Full,                \* 1.0: drama and scores are fractions of it
  QuietWindow,         \* observation.window_ticks
  QuietThreshold,      \* observation.quiet_threshold
  Drama,               \* kind of deed: what it adds to the drama of its tick
  BudgetWindow,        \* budget.window_ticks
  GravityWindow,       \* gravity.window_ticks
  BoostFor,            \* boost.duration_ticks
  Incidents,           \* sequence of [kind, drama], the library
  Themes,              \* theme: [quiet, most]
  Stages,              \* LIFE_STAGES
  StreakLimit,         \* TOOL_STREAK_LIMIT
  Recent,              \* maxlen of recent_tools and recent_kinds
  Tuning,              \* [target, step, min, max]
  Turn                 \* what is chosen: crc32 of it and 0, 1, ... interventions

ASSUME RulesAssumption ==
  /\ {QuietWindow, BudgetWindow, GravityWindow, StreakLimit, Recent} \subseteq Nat \ {0}
  /\ Incidents # <<>> /\ Tuning.min <= Tuning.max
  /\ \A theme \in DOMAIN Themes : Themes[theme].most \in Int
  /\ \A what \in {"tool", "incident", "affected"} : Turn[what] \in Seq(Nat) \ {<<>>}

Tools == <<"incident", "nudge", "promote", "boost">>

Plans == {"season", "arc"}

\* zlib.crc32 of what is chosen and a salt.
Crc(what, n) == Turn[what][(n % Len(Turn[what])) + 1]

Clamp(low, high, n) == IF n < low THEN low ELSE IF n > high THEN high ELSE n

LastOf(s, n) == IF Len(s) <= n THEN s ELSE SubSeq(s, Len(s) - n + 1, Len(s))

---------------------------------------------------------------------------
(* Signals. *)

\* drama_contribution, of the events the director hears (actor.>).
Contribution(e) ==
  CASE e.type = "action" -> Drama[e.kind]
    [] e.type = "feeling" -> Drama[e.kind]
    [] OTHER -> 0

\* DramaWindow.close_tick: below the threshold on average?
Quiet(window) ==
  FoldSeq(LAMBDA d, sum : d + sum, 0, window) < QuietThreshold * Len(window)

\* AttentionTracker.scores: hits that have left the window are forgotten.
Attended(hits, t) ==
  LET seen == SelectSeq(hits, LAMBDA h : h.tick > t - GravityWindow)
  IN  [p \in People |-> Cardinality({n \in DOMAIN seen : seen[n].who = p})]

\* AttentionTracker.observe: letters, comments and reactions have one addressee.
IsAttention(e) == e.kind \in {"dm", "comment", "reaction"}

---------------------------------------------------------------------------
(* Budget. *)

\* BudgetState.remaining drops what has left the window from the old end.
Spent(recent, t) ==
  LET live == {n \in DOMAIN recent : recent[n] > t - BudgetWindow}
  IN  IF live = {} THEN <<>> ELSE SubSeq(recent, Earliest(live), Len(recent))

Remaining(recent, most, t) ==
  LET left == most - Len(Spent(recent, t)) IN IF left < 0 THEN 0 ELSE left

IsFireable(quiet, quietToFire, recent, most, t) ==
  quiet >= quietToFire /\ Remaining(recent, most, t) > 0

\* Director._streak_capped_tool
Capped(tools) ==
  LET tail == LastOf(tools, StreakLimit)
  IN  IF Len(tools) >= StreakLimit /\ \A n \in DOMAIN tail : tail[n] = tail[1]
      THEN tail[1] ELSE Nothing

---------------------------------------------------------------------------
(* The stage: pairs under tension, the most watched first. *)

Candidates(tension) == UNION {{tension[n][1], tension[n][2]} : n \in DOMAIN tension}

\* A stable sort by attention.
Reordered(tension, attended) ==
  LET watched(n) == attended[tension[n][1]] + attended[tension[n][2]]
      order == SortSeq([n \in DOMAIN tension |-> n],
                       LAMBDA m, n : \/ watched(m) > watched(n)
                                     \/ watched(m) = watched(n) /\ m < n)
  IN  [n \in DOMAIN tension |-> tension[order[n]]]

\* fallback_affected: two neighbours of the roster, from a place the salt names.
Bystanders(salt) ==
  LET n == Cardinality(People)
      at(k) == CHOOSE p \in People : Cardinality({q \in People : q < p}) = k % n
  IN  IF n = 0 THEN {} ELSE {at(Crc("affected", salt)), at(Crc("affected", salt) + 1)}

OnStage(tension, salt) ==
  IF tension # <<>> THEN {tension[1][1], tension[1][2]} ELSE Bystanders(salt)

Act(tool, selector, event) == [tool |-> tool, selector |-> selector, event |-> event]

IncidentEvent(kind, drama, affected, t) ==
  [type |-> "incident", kind |-> kind, drama |-> drama, affected |-> affected, tick |-> t]

NudgeEvent(who, about, t) ==
  [type |-> "observation", who |-> who, about |-> about, tick |-> t]

SpotlightEvent(who, t) == [type |-> "spotlight", who |-> who, tick |-> t]

BoostEvent(who, t) == [type |-> "boost", who |-> who, until |-> t + BoostFor, tick |-> t]

\* decide: the tools take turns, but only an incident needs no tension.
RuleAct(tension, total, avoid, t) ==
  LET tool == IF tension = <<>> THEN "incident" ELSE Tools[(Crc("tool", total) % 4) + 1]
      n == Len(Incidents)
      at == (Crc("incident", total) % n) + 1
      beside == IF avoid = Incidents[at].kind THEN (at % n) + 1 ELSE at
      lead == tension[1][1]
  IN  Act(tool, "rule",
        CASE tool = "promote" -> SpotlightEvent(lead, t)
          [] tool = "boost" -> BoostEvent(lead, t)
          [] tool = "nudge" -> NudgeEvent(lead, tension[1][2], t)
          [] OTHER -> IncidentEvent(Incidents[beside].kind, Incidents[beside].drama,
                                    OnStage(tension, total), t))

---------------------------------------------------------------------------
(* What a model proposed: [tool, kind, drama, who, affected, about, stage,   *)
(* theme, text], any of it Nothing.  Out of bounds is no proposal, and rules decide. *)

Library(kind) == {n \in DOMAIN Incidents : Incidents[n].kind = kind}

PlanIncident(plan, tension, t) ==
  LET inside == plan.affected \cap (Candidates(tension) \cup People)
      affected == IF inside # {} THEN inside ELSE OnStage(tension, t)
      drama == IF plan.drama = Nothing THEN Incidents[Latest(Library(plan.kind))].drama
               ELSE Clamp(0, Full, plan.drama)
  IN  IF Library(plan.kind) = {} THEN Nothing
      ELSE Act("incident", "llm",
             IncidentEvent(plan.kind, drama, affected, t))

PlanNudge(plan, tension, t) ==
  IF plan.who \notin Candidates(tension) \/ plan.text = Nothing THEN Nothing
  ELSE Act("nudge", "llm",
         NudgeEvent(plan.who,
           IF plan.about \in Candidates(tension) THEN plan.about ELSE Nothing, t))

PlanPromote(plan, tension, t) ==
  IF plan.who \notin Candidates(tension) THEN Nothing
  ELSE Act("promote", "llm", SpotlightEvent(plan.who, t))

PlanBoost(plan, tension, t) ==
  IF plan.who \notin Candidates(tension) THEN Nothing
  ELSE Act("boost", "llm", BoostEvent(plan.who, t))

\* intervention_from_plan, and the capped tool refused once more.
PlanAct(plan, tension, capped, t) ==
  LET act == CASE plan.tool = "incident" -> PlanIncident(plan, tension, t)
               [] plan.tool = "nudge" -> PlanNudge(plan, tension, t)
               [] plan.tool = "promote" -> PlanPromote(plan, tension, t)
               [] plan.tool = "boost" -> PlanBoost(plan, tension, t)
               [] OTHER -> Nothing
  IN  IF plan.tool = capped THEN Nothing ELSE act

\* season_from_plan
PlanSeason(plan, t) ==
  IF plan.theme \notin DOMAIN Themes THEN Nothing
  ELSE Act("season", "llm",
         [type |-> "season", theme |-> plan.theme, quiet |-> Themes[plan.theme].quiet,
          most |-> Themes[plan.theme].most, tick |-> t])

\* arc_from_plan
PlanArc(plan, t) ==
  IF plan.who \notin People \/ plan.stage \notin Stages \/ plan.text = Nothing
  THEN Nothing
  ELSE Act("arc", "llm",
         [type |-> "arc", who |-> plan.who, stage |-> plan.stage, tick |-> t])

---------------------------------------------------------------------------
(* Retrospect: fold_report over the day's log, and the step it suggests. *)

DramaOf(first, last) ==
  Cardinality({i \in Of({"audit"}) :
                 log[i].tool \notin Plans /\ log[i].tick \in first..last})

\* tune_pacing
Tuned(drama, quietToFire) ==
  IF drama = Tuning.target THEN quietToFire
  ELSE Clamp(Tuning.min, Tuning.max,
             IF drama < Tuning.target THEN quietToFire - Tuning.step
             ELSE quietToFire + Tuning.step)
=================================================================================
