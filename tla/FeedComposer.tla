------------------------------ MODULE FeedComposer ------------------------------
(***************************************************************************)
(* The feed composer (lf_feed: composer.py, compose.py, scoring.py): it    *)
(* turns what happens into posts.  Several instances share six durable     *)
(* consumers; how common or repetitive a deed is, and who stands in the    *)
(* light, each instance knows only from what it has handled itself.        *)
(*                                                                         *)
(* Scores are integers: worthiness times WDrama.. scaled by the number of  *)
(* observations, so that nothing is divided.  Wording, names, communities  *)
(* and provenance are left out; a post keeps its source's tick and drama.  *)
(***************************************************************************)
EXTENDS WorldLog

CONSTANTS
  Composers,           \* instances of the worker; a scene's crew is some of them
  Unit,                \* 1.0
  BaseDrama,           \* kind of deed: action_drama
  TargetBonus, WDrama, WRarity, WBoost, Threshold,
  RarityWindow, RepeatWindow,
  Lit,                 \* boost of a light the director sets
  GoalDrama, ArcDrama, DebutDrama,
  NarrateThreshold, MaxDeliver

ASSUME FeedAssumption ==
  /\ {RarityWindow, RepeatWindow, MaxDeliver} \subseteq Nat \ {0}
  /\ {WDrama, WRarity, WBoost, Threshold, Unit, Lit, TargetBonus} \subseteq Nat
  /\ \A kind \in DOMAIN BaseDrama : BaseDrama[kind] \in Nat
  /\ IsFiniteSet(Composers) /\ \A s \in DOMAIN Scenes : Scenes[s].crew \subseteq Composers
  \* "the second in a row sinks": halved twice, nothing clears the threshold
  /\ WDrama * Unit + WRarity * Unit + WBoost * Lit < 4 * Threshold
  \* "always promoted": the nodes of a life clear the threshold by weights alone
  /\ \A d \in {GoalDrama, ArcDrama, DebutDrama} :
       WDrama * d + WRarity * Unit + WBoost * Unit >= Threshold

VARIABLES
  composers,           \* what each instance remembers and holds
  settled,             \* message: "open", "acked" or "dlq"
  tries                \* num_delivered

feedVars == <<composers, settled, tries>>

Sources == {"action", "incident", "goal", "arc", "boost", "debut"}

\* Of someone nothing was promoted yet.
Unposted == [kind |-> Nothing, tick |-> 0, streak |-> 0]

Fresh ==
  [at |-> "idle", msg |-> 0, post |-> <<>>, call |-> Nothing, rarity |-> <<>>,
   repeat |-> [p \in People |-> Unposted], lights |-> [p \in People |-> 0]]

FeedInit ==
  /\ composers = [k \in Composers |-> Fresh]
  /\ settled = [i \in 1..MaxLog |-> "open"]
  /\ tries = [i \in 1..MaxLog |-> 0]

---------------------------------------------------------------------------
(* scoring.py *)

\* drama_score
DramaScore(e) ==
  LET base == BaseDrama[e.kind] + (IF e.target # Nothing THEN TargetBonus ELSE 0)
  IN  IF base > Unit THEN Unit ELSE base

\* penalty ** streak, upside down.
Doubled(n) == LET d[k \in 0..n] == IF k = 0 THEN 1 ELSE 2 * d[k - 1] IN d[n]

\* RarityTracker.rarity within worthiness, and the repeat penalty's halvings.
Worthy(drama, boost, key, seen, streak) ==
  LET n == IF seen = <<>> THEN 1 ELSE Len(seen)
      count == Cardinality({j \in DOMAIN seen : seen[j] = key})
  IN  (WDrama * drama + WBoost * boost) * n + WRarity * Unit * (n - count)
        >= Threshold * n * Doubled(streak)

\* RarityTracker.observe
Observed(seen, key) ==
  LET all == Append(seen, key)
  IN  IF Len(all) > RarityWindow THEN Tail(all) ELSE all

\* RepeatTracker.penalty: how many halvings.
Streak(last, e) ==
  IF last.kind # e.kind \/ e.tick - last.tick >= RepeatWindow THEN 0 ELSE last.streak

\* RepeatTracker.observe, of a deed that was promoted.
Promoted(last, e) == [kind |-> e.kind, tick |-> e.tick, streak |-> Streak(last, e) + 1]

---------------------------------------------------------------------------
(* composer.py *)

Held(i) == {k \in Composers : composers[k].msg = i}

\* A durable hands its messages out in order; only a redelivery comes late.
Deliverable(i) ==
  /\ settled[i] = "open"
  /\ tries[i] > 0 \/ \A j \in Of({log[i].type}) : j < i => tries[j] > 0

PostOf(i, who, kind, drama) ==
  [type |-> "post", src |-> i, who |-> who, of |-> log[i].type, kind |-> kind,
   drama |-> drama, tick |-> log[i].tick]

\* One post, or none.
Perhaps(worthy, post) == IF worthy THEN <<post>> ELSE <<>>

\* previous_arc_stage: the arc stream decides, not what this instance has seen.
PreviousStage(i) ==
  LET earlier == {j \in Of({"arc"}) : j < i /\ log[j].who = log[i].who}
  IN  IF earlier = {} THEN Nothing ELSE log[Latest(earlier)].stage

\* What becomes of a source: <<what the instance remembers, the post if any>>.

\* evaluate, build_post_event: rare, lit and not the same thing all over again.
ActionVerdict(c, i) ==
  LET e == log[i]
      key == <<e.who, e.kind>>
      boost == IF e.tick >= c.lights[e.who] THEN 0 ELSE Lit
      worthy == Worthy(DramaScore(e), boost, key, c.rarity, Streak(c.repeat[e.who], e))
  IN  <<[c EXCEPT !.rarity = Observed(@, key),
                  !.repeat[e.who] = IF worthy THEN Promoted(@, e) ELSE @,
                  !.lights[e.who] = IF boost = 0 THEN 0 ELSE @],
        Perhaps(worthy, PostOf(i, e.who, e.kind, DramaScore(e)))>>

\* evaluate_incident, build_incident_post_event: the director's own light is on it.
IncidentVerdict(c, i) ==
  LET e == log[i]
      key == <<Nothing, e.kind>>
  IN  <<[c EXCEPT !.rarity = Observed(@, key)],
        Perhaps(Worthy(e.drama, Unit, key, c.rarity, 0), PostOf(i, Nothing, e.kind, e.drama))>>

\* evaluate_arc_transition, build_arc_post_event: a plan that stays is no news.
ArcVerdict(c, i) ==
  <<c, Perhaps(PreviousStage(i) # log[i].stage,
          PostOf(i, log[i].who, log[i].stage, ArcDrama))>>

\* evaluate_goal_achievement, build_goal_post_event
GoalVerdict(c, i) == <<c, <<PostOf(i, log[i].who, Nothing, GoalDrama)>>>>

\* evaluate_debut, build_debut_post_event
DebutVerdict(c, i) == <<c, <<PostOf(i, log[i].who, Nothing, DebutDrama)>>>>

\* compose_once, up to the verdict.
Verdict(c, i) ==
  CASE log[i].type = "boost" -> <<[c EXCEPT !.lights[log[i].who] = log[i].until], <<>>>>
    [] log[i].type = "incident" -> IncidentVerdict(c, i)
    [] log[i].type = "arc" -> ArcVerdict(c, i)
    [] log[i].type = "goal" -> GoalVerdict(c, i)
    [] log[i].type = "debut" -> DebutVerdict(c, i)
    [] OTHER -> ActionVerdict(c, i)

Rest(c) == [c EXCEPT !.at = "idle", !.msg = 0, !.post = <<>>, !.call = Nothing]

\* _handle: a message is judged; below the threshold there is nothing to append.
Compose(k) ==
  /\ composers[k].at = "idle"
  /\ \E i \in Of(Sources) :
       /\ Deliverable(i)
       /\ IF Held(i) = {} THEN UNCHANGED faults ELSE Fault    \* ack_wait is over
       /\ tries' = [tries EXCEPT ![i] = @ + 1]
       /\ LET v == Verdict(composers[k], i)
              post == v[2]
          IN  composers' = [composers EXCEPT ![k] =
                [v[1] EXCEPT !.msg = i, !.post = post,
                   !.at = CASE post = <<>> -> "ack"
                            [] post # <<>> /\ Scene.narrate
                                 /\ post[1].drama >= NarrateThreshold -> "narrate"
                            [] OTHER -> "append"]]
  /\ UNCHANGED <<scene, log, script, settled>>

\* FeedNarrator.narrate: whatever comes of it, the post is appended.
AskNarration(k, call) ==
  /\ composers[k].at = "narrate"
  /\ composers' = [composers EXCEPT ![k].at = "narrating", ![k].call = call]
  /\ UNCHANGED <<logVars, settled, tries>>

HearNarration(k) ==
  /\ composers[k].at = "narrating"
  /\ composers' = [composers EXCEPT ![k].at = "append", ![k].call = Nothing]
  /\ UNCHANGED <<scene, log, script, settled, tries>>

Posts(i) == {j \in Of({"post"}) : log[j].src = i}

\* Mutant: the post is appended whatever the head of its stream is.
AppendPostAgain(k) ==
  /\ composers[k].at = "append"
  /\ Write(composers[k].post)
  /\ composers' = [composers EXCEPT ![k].at = "ack"]
  /\ UNCHANGED <<scene, script, faults, settled, tries>>

\* append with expected_head = 0 on a stream named after the source: a second
\* post of the same source is a conflict, and that is as good as done.
AppendPost(k) ==
  /\ composers[k].at = "append"
  /\ IF Posts(composers[k].msg) = {} THEN Write(composers[k].post) ELSE UNCHANGED log
  /\ composers' = [composers EXCEPT ![k].at = "ack"]
  /\ UNCHANGED <<scene, script, faults, settled, tries>>

Settle(k) == IF settled[composers[k].msg] = "open" THEN "acked" ELSE settled[composers[k].msg]

AckSource(k) ==
  /\ composers[k].at = "ack"
  /\ settled' = [settled EXCEPT ![composers[k].msg] = Settle(k)]
  /\ composers' = [composers EXCEPT ![k] = Rest(@)]
  /\ UNCHANGED <<logVars, tries>>

\* Any other failure: once more, until it has been tried often enough.
ComposeFails(k) ==
  /\ composers[k].at = "append" /\ Fault
  /\ settled' = IF tries[composers[k].msg] >= MaxDeliver
                THEN [settled EXCEPT ![composers[k].msg] = "dlq"] ELSE settled
  /\ composers' = [composers EXCEPT ![k] = Rest(@)]
  /\ UNCHANGED <<scene, log, script, tries>>

\* A poisoned message (its post is refused as invalid) is never retried.
Poison(k) ==
  /\ composers[k].at = "append" /\ Fault
  /\ settled' = [settled EXCEPT ![composers[k].msg] = "dlq"]
  /\ composers' = [composers EXCEPT ![k] = Rest(@)]
  /\ UNCHANGED <<scene, log, script, tries>>

ComposerCrash(k) ==
  /\ Fault
  /\ composers' = [composers EXCEPT ![k] = Fresh]
  /\ UNCHANGED <<scene, log, script, settled, tries>>

FeedStep(k) ==
  \/ Compose(k) \/ AppendPost(k) \/ AckSource(k)
  \/ ComposeFails(k) \/ Poison(k) \/ ComposerCrash(k)

---------------------------------------------------------------------------

\* However often a source is delivered, and to however many instances, it is
\* posted at most once (compose.py derive_post_id, composer.py expected_head=0).
PostedOnce == \A i \in Of(Sources) : Cardinality(Posts(i)) <= 1

\* The nodes of a life are never dropped in silence: a goal, a debut or a turn
\* of an arc that was acknowledged has its post (composer.py compose_once).
NodesArePosted ==
  \A i \in Of({"goal", "debut", "arc"}) :
    settled[i] = "acked" /\ (log[i].type = "arc" => PreviousStage(i) # log[i].stage)
      => Posts(i) # {}

\* A chapter is announced only when it differs from the one before it, in the
\* whole history and not in what an instance remembers (previous_arc_stage).
ChaptersTurn ==
  \A i \in Of({"post"}) :
    log[i].of = "arc" => PreviousStage(log[i].src) # log[i].kind

\* Consecutive posts of an actor, all of one kind and close in time.
Run(i, j) ==
  /\ i < j /\ log[i].of = "action" /\ log[j].of = "action"
  /\ log[i].who = log[j].who /\ log[i].kind = log[j].kind
  /\ log[j].tick - log[i].tick < RepeatWindow
  /\ \A m \in Of({"post"}) : i < m /\ m < j => log[m].who # log[i].who \/ log[m].of # "action"

\* One instance without faults never lets the same person post the same kind of
\* deed three times running (scoring.py RepeatTracker).
NoFlood ==
  Cardinality(Scene.crew) = 1 /\ faults = 0
    => ~ \E i, j, m \in Of({"post"}) : Run(i, j) /\ Run(j, m)
=================================================================================
