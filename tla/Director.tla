-------------------------------- MODULE Director --------------------------------
(***************************************************************************)
(* The director (lf_director: director.py): it watches what the actors do  *)
(* and whom the players look at, and at every completed tick may put one   *)
(* thing on stage; once a day it plans the season and one life's arc.      *)
(*                                                                         *)
(* Everything it knows is in memory.  The audit of an intervention is      *)
(* appended before the intervention itself and is how a restarted director *)
(* finds its budget and its habits again.  A message is acknowledged only  *)
(* after it has been handled, whether or not the handling failed.          *)
(***************************************************************************)
EXTENDS DirectorRules

CONSTANTS
  DayTicks,            \* season_interval_ticks
  QuietToFire, Most    \* the pacing before any season

ASSUME DirectorAssumption == DayTicks \in Nat \ {0} /\ Most \in Int

VARIABLES
  dir,                 \* the director's memory and the step it is at
  acked,               \* how far each of its durables has been acknowledged
  fired                \* history: [tick, most] of every intervention on stage

directorVars == <<dir, acked, fired>>

Heard == {"action", "feeling"}

Looks == {"player"}

\* What it puts into the world, besides the audits.
Outputs == {"incident", "observation", "spotlight", "boost", "season", "arc"}

Controls == {"ticked", "audit", "season", "arc", "spotlight", "boost"}

\* _apply_season: the pacing in effect is the last season's.
WithSeason(d, e) == [d EXCEPT !.theme = e.theme, !.quietToFire = e.quiet, !.most = e.most]

\* BudgetState.record, and the habits kept beside it.
Recorded(d, tool, kind, t) ==
  [d EXCEPT !.recent = Append(@, t), !.total = @ + 1,
            !.tools = LastOf(Append(@, tool), Recent),
            !.kinds = IF kind = Nothing THEN @ ELSE LastOf(Append(@, kind), Recent)]

\* _restore_budget
Remembered(d, i) ==
  IF i \in d.seen \/ log[i].tool \in Plans THEN d
  ELSE Recorded(d, log[i].tool, log[i].kind, log[i].tick)

Blank ==
  [at |-> "idle", msg |-> 0, tick |-> 0, window |-> <<>>, sum |-> 0, quiet |-> 0,
   hits |-> <<>>, recent |-> <<>>, total |-> 0, seen |-> {}, tools |-> <<>>,
   kinds |-> <<>>, theme |-> Nothing, quietToFire |-> QuietToFire, most |-> Most,
   day |-> -1, aim |-> Nothing, act |-> Nothing, tension |-> <<>>, call |-> Nothing]

\* Mutant: a restarted director starts over, with the last season's pacing.
RestoredAfresh ==
  LET seasons == Of({"season"})
  IN  IF seasons = {} THEN Blank ELSE WithSeason(Blank, log[Latest(seasons)])

\* _restore_from_history: the last season, then every audit in order.
Restored ==
  LET seasons == Of({"season"})
      audits == Of({"audit"})
      days == {log[i].tick \div DayTicks : i \in {j \in audits : log[j].tool \in Plans}}
      paced == IF seasons = {} THEN Blank ELSE WithSeason(Blank, log[Latest(seasons)])
      memory[n \in 0..Len(log)] ==
        IF n = 0 THEN [paced EXCEPT !.day = IF days = {} THEN -1 ELSE Latest(days)]
        ELSE IF n \in audits THEN Remembered(memory[n - 1], n)
        ELSE memory[n - 1]
  IN  memory[Len(log)]

DirectorInit ==
  /\ dir = Blank
  /\ acked = [observe |-> 0, gravity |-> 0, system |-> 0]
  /\ fired = <<>>

Next_(durable, types) == Earliest(Pending(types, acked[durable]))

Waiting(durable, types) == dir.at = "idle" /\ Pending(types, acked[durable]) # {}

Ack(durable, i) == acked' = [acked EXCEPT ![durable] = i]

\* DramaWindow.observe
Observe ==
  /\ Waiting("observe", Heard)
  /\ LET i == Next_("observe", Heard) IN
       /\ dir' = [dir EXCEPT !.sum = @ + Contribution(log[i])]
       /\ Ack("observe", i)
  /\ UNCHANGED <<logVars, fired>>

\* AttentionTracker.observe
Attend ==
  /\ Waiting("gravity", Looks)
  /\ LET i == Next_("gravity", Looks)
         e == log[i]
     IN  /\ dir' = IF IsAttention(e)
                   THEN [dir EXCEPT !.hits = Append(@, [tick |-> e.tick, who |-> e.who])]
                   ELSE dir
         /\ Ack("gravity", i)
  /\ UNCHANGED <<logVars, fired>>

\* DramaWindow.close_tick
Closed(d, i) ==
  LET window == LastOf(Append(d.window, d.sum), QuietWindow)
  IN  [d EXCEPT !.msg = i, !.tick = log[i].tick, !.window = window, !.sum = 0,
                !.quiet = IF Quiet(window) THEN @ + 1 ELSE 0]

\* review_season: a look at the day before; when it cannot be read, no lesson.
Reviewed(d) ==
  LET drama == DramaOf(d.day * DayTicks, (d.day + 1) * DayTicks - 1)
  IN  IF d.day < 0 THEN d ELSE [d EXCEPT !.quietToFire = Tuned(drama, @)]

\* system.tick.completed: the day is turned before anything is planned for it.
CloseTick ==
  /\ Waiting("system", Controls)
  /\ LET i == Next_("system", Controls)
         day == log[i].tick \div DayTicks
         closed == Closed(dir, i)
     IN  /\ log[i].type = "ticked"
         /\ IF day <= dir.day
            THEN dir' = [closed EXCEPT !.at = "judge"] /\ UNCHANGED faults
            ELSE \/ /\ dir' = [Reviewed(closed) EXCEPT !.day = day, !.at = "season"]
                    /\ UNCHANGED faults
                 \/ /\ dir.day >= 0
                    /\ dir' = [closed EXCEPT !.day = day, !.at = "season"] /\ Fault
  /\ UNCHANGED <<scene, log, script, acked, fired>>

\* Its own audits and seasons come back to it.
Recall ==
  /\ Waiting("system", Controls)
  /\ LET i == Next_("system", Controls)
         e == log[i]
     IN  /\ e.type # "ticked"
         /\ dir' = CASE e.type = "audit" -> Remembered(dir, i)
                     [] e.type = "season" -> WithSeason(dir, e)
                     [] OTHER -> dir
         /\ Ack("system", i)
  /\ UNCHANGED <<logVars, fired>>

AfterSeason(d) == [d EXCEPT !.at = "arcs", !.aim = Nothing, !.act = Nothing, !.call = Nothing]

AfterArcs(d) == [AfterSeason(d) EXCEPT !.at = "judge"]

Idle(d) == [AfterSeason(d) EXCEPT !.at = "idle", !.tension = <<>>, !.msg = 0]

\* What follows a step that came to nothing, or is over.
Onward(d) ==
  CASE d.aim = "season" -> AfterSeason(d)
    [] d.aim = "arc" -> AfterArcs(d)
    [] OTHER -> Idle(d)

\* A step that ends the handling of a message acknowledges it.
Proceed(d) ==
  /\ dir' = d
  /\ acked' = IF d.at = "idle" THEN [acked EXCEPT !.system = dir.msg] ELSE acked

\* plan_season and plan_arcs want a model, and have no rule to fall back on.
SkipPlan ==
  /\ dir.at \in {"season", "arcs"} /\ ~Scene.ai
  /\ Proceed(IF dir.at = "season" THEN AfterSeason(dir) ELSE AfterArcs(dir))
  /\ UNCHANGED <<logVars, fired>>

AskPlan(call) ==
  /\ dir.at \in {"season", "arcs"} /\ Scene.ai
  /\ Proceed([dir EXCEPT !.aim = IF dir.at = "season" THEN "season" ELSE "arc",
                         !.at = "asked", !.call = call])
  /\ UNCHANGED <<logVars, fired>>

Fireable == IsFireable(dir.quiet, dir.quietToFire, dir.recent, dir.most, dir.tick)

LastKind == IF dir.kinds = <<>> THEN Nothing ELSE dir.kinds[Len(dir.kinds)]

\* evaluate, up to the choice: the pairs under tension, the watched in front.
Judge(call) ==
  /\ dir.at = "judge"
  /\ \E pairs \in Scene.tension :
       LET tension == Reordered(pairs, Attended(dir.hits, dir.tick))
           judging == [dir EXCEPT !.aim = "drama", !.tension = tension,
                                  !.recent = Spent(@, dir.tick),
                                  !.hits = SelectSeq(@, LAMBDA h :
                                             h.tick > dir.tick - GravityWindow)]
       IN  Proceed(CASE ~Fireable -> Idle(judging)
                     [] Fireable /\ Scene.ai -> [judging EXCEPT !.at = "asked", !.call = call]
                     [] OTHER -> [judging EXCEPT !.at = "audit",
                                    !.act = RuleAct(tension, dir.total, LastKind, dir.tick)])
  /\ UNCHANGED <<logVars, fired>>

\* The answer, or none: rules step in only for the drama of the moment.
Hear(plan) ==
  /\ dir.at = "asked"
  /\ LET proposed ==
           CASE plan = Nothing -> Nothing
             [] dir.aim = "season" -> PlanSeason(plan, dir.tick)
             [] dir.aim = "arc" -> PlanArc(plan, dir.tick)
             [] OTHER -> PlanAct(plan, dir.tension, Capped(dir.tools), dir.tick)
         act == IF proposed = Nothing /\ dir.aim = "drama"
                THEN RuleAct(dir.tension, dir.total, LastKind, dir.tick) ELSE proposed
     IN  Proceed(IF act = Nothing THEN Onward(dir)
                 ELSE [dir EXCEPT !.at = "audit", !.act = act, !.call = Nothing])
  /\ UNCHANGED <<scene, log, script, fired>>

KindOf(act) == IF act.tool = "incident" THEN act.event.kind ELSE Nothing

\* _append_intervention: first the audit,
AppendAudit ==
  /\ dir.at = "audit"
  /\ Write(<<[type |-> "audit", tool |-> dir.act.tool, selector |-> dir.act.selector,
              kind |-> KindOf(dir.act), tick |-> dir.tick]>>)
  /\ dir' = [dir EXCEPT !.at = "output", !.call = Len(log) + 1]
  /\ UNCHANGED <<scene, script, faults, acked, fired>>

\* ... then what it announces.  Only a drama is paid for, and only now.
AppendOutput ==
  /\ dir.at = "output"
  /\ Write(<<dir.act.event>>)
  /\ LET known == [dir EXCEPT !.seen = @ \cup {dir.call}]
     IN  IF dir.aim = "drama"
         THEN /\ Proceed(Idle([Recorded(known, dir.act.tool, KindOf(dir.act), dir.tick)
                                 EXCEPT !.quiet = 0]))
              /\ fired' = Append(fired, [tick |-> dir.tick, most |-> dir.most])
         ELSE Proceed(Onward(known)) /\ UNCHANGED fired
  /\ UNCHANGED <<scene, script, faults>>

\* An append that fails ends the handling of the whole message.
AppendFails ==
  /\ dir.at \in {"audit", "output"} /\ Fault
  /\ Proceed(Idle(dir))
  /\ UNCHANGED <<scene, log, script, fired>>

\* Everything in memory is gone; what was not acknowledged will come again.
DirectorCrash ==
  /\ Fault
  /\ dir' = Restored
  /\ UNCHANGED <<scene, log, script, acked, fired>>

DirectorStep ==
  \/ Observe \/ Attend \/ CloseTick \/ Recall \/ SkipPlan
  \/ AppendAudit \/ AppendOutput \/ AppendFails \/ DirectorCrash

---------------------------------------------------------------------------

\* No window ever holds more interventions than were allowed when the last of
\* them was made: the budget survives crashes, redelivered ticks and audits
\* without an output (rules.py BudgetState, director.py _restore_from_history).
BudgetKept ==
  \A n \in DOMAIN fired :
    Cardinality({m \in 1..n : fired[m].tick > fired[n].tick - BudgetWindow})
      <= fired[n].most

\* A season is set at most once a day and an arc planned at most once a day,
\* whatever is redelivered (director.py run, _restore_from_history).
PlannedOnce ==
  \A i, j \in Of(Plans) :
    i # j /\ log[i].type = log[j].type
      => log[i].tick \div DayTicks # log[j].tick \div DayTicks

\* Nothing the director put into the world is without an audit of its own
\* written before it (director.py _append_intervention).
AuditedFirst ==
  \A i \in Of(Outputs) :
    Cardinality({j \in Of({"audit"}) : j < i /\ log[j].tick = log[i].tick})
      >= Cardinality({j \in Of(Outputs) : j <= i /\ log[j].tick = log[i].tick})
=================================================================================
