---------------------------------- MODULE Town ----------------------------------
(***************************************************************************)
(* The services around the actors, together: the director stages what the  *)
(* composer posts, the readers read it, what the players do is what the    *)
(* director sees of them, and all who want a model's word ask the same     *)
(* runtime, out of one purse.                                              *)
(*                                                                         *)
(* scene says which of it a behaviour is about: who runs, what the world   *)
(* writes, what may be planned, asked, edited or commanded.                *)
(***************************************************************************)
EXTENDS Director, FeedComposer, AiRuntime, PlayerGateway, ReadTables

\* Who asks is one of the people, or none of them.
ASSUME TownAssumption ==
  \A s \in DOMAIN Scenes :
    LET tiers == {Scenes[s].asks[i].tier : i \in DOMAIN Scenes[s].asks}
    IN  Scenes[s].asks \in Seq([who : People \cup {Nothing}, tier : tiers])

\* What the world writes at its n-th turn: ticks are completed in their order, a
\* deed is somebody's, players speak through the gateway, posts are a composer's
\* of another crew, one for each source and after it, and what a director who is
\* there writes is written by nobody else.
Scripted(s, n) ==
  LET e == s.script[n]
  IN  /\ e.type # "player"
      /\ s.directing => e.type \notin Outputs \cup {"audit"}
      /\ e.type = "ticked" =>
           /\ e.tick \in Nat
           /\ \A m \in 1..(n - 1) : s.script[m].type = "ticked" => s.script[m].tick <= e.tick
      /\ e.type = "action" =>
           e.who \in People /\ e.kind \in DOMAIN BaseDrama /\ e.tick \in Nat
      /\ e.type = "post" =>
           /\ s.crew = {} /\ e.of # "arc" /\ e.src \in 1..(n - 1)
           /\ \A m \in 1..(n - 1) : s.script[m].type = "post" => s.script[m].src # e.src

ASSUME ScriptAssumption ==
  \A s \in DOMAIN Scenes :
    LET text == Scenes[s].script
    IN  /\ text \in Seq({text[n] : n \in DOMAIN text})
        /\ \A n \in DOMAIN text : Scripted(Scenes[s], n)
        /\ \A x \in Sessions :
             LET todo == Scenes[s].commands[x]
             IN  todo \in Seq({todo[n] : n \in DOMAIN todo})

VARIABLE asks          \* requests the actors have still to make

vars == <<logVars, directorVars, feedVars, aiVars, gatewayVars, tableVars, asks>>

Init ==
  /\ LogInit /\ DirectorInit /\ FeedInit /\ AiInit /\ GatewayInit /\ TablesInit
  /\ asks = Scene.asks

\* The id the next request will have.
Next_Call == Len(calls) + 1

\* The answer to a call, if there is one, or the caller's patience is over.
Replied(c, answer) ==
  \/ c \in DOMAIN calls /\ calls[c].at = "ok" /\ answer # Nothing /\ UNCHANGED faults
  \/ c \in DOMAIN calls /\ calls[c].at = "failed" /\ answer = Nothing /\ UNCHANGED faults
  \/ c \in DOMAIN calls /\ ~Answered(c) /\ answer = Nothing /\ Fault

\* client.py plan_intervention; the tier is "hot".
DirectorAsks ==
  /\ AskPlan(Next_Call) \/ Judge(Next_Call)
  /\ IF dir'.at = "asked"
     THEN Request(Nothing, "hot") /\ UNCHANGED <<purse, doc, edits, cached, strict>>
     ELSE UNCHANGED aiVars

DirectorHears ==
  /\ dir.at = "asked"
  /\ \E plan \in Scene.plans \cup {Nothing} : Replied(dir.call, plan) /\ Hear(plan)
  /\ UNCHANGED aiVars

\* narrator.py narrate; the tier is "system".
ComposerAsks(k) ==
  /\ AskNarration(k, Next_Call) /\ Request(Nothing, "system")
  /\ UNCHANGED <<purse, doc, edits, cached, strict>>

ComposerHears(k) ==
  /\ composers[k].at = "narrating"
  /\ \E body \in {"told", Nothing} : Replied(composers[k].call, body)
  /\ HearNarration(k)
  /\ UNCHANGED aiVars

ActorAsks ==
  /\ asks # <<>>
  /\ Request(Head(asks).who, Head(asks).tier) /\ asks' = Tail(asks)
  /\ UNCHANGED <<logVars, directorVars, feedVars, purse, doc, edits, cached, strict,
                 gatewayVars, tableVars>>

World ==
  /\ WorldWrites
  /\ UNCHANGED <<directorVars, feedVars, aiVars, gatewayVars, tableVars, asks>>

Directing ==
  /\ Scene.directing
  /\ \/ DirectorStep /\ UNCHANGED aiVars
     \/ DirectorAsks
     \/ DirectorHears
  /\ UNCHANGED <<feedVars, gatewayVars, tableVars, asks>>

Composing ==
  /\ \E k \in Scene.crew :
       \/ FeedStep(k) /\ UNCHANGED aiVars
       \/ ComposerAsks(k)
       \/ ComposerHears(k)
  /\ UNCHANGED <<directorVars, gatewayVars, tableVars, asks>>

Thinking == AiStep /\ UNCHANGED <<directorVars, feedVars, gatewayVars, tableVars, asks>>

Playing == GatewayStep /\ UNCHANGED <<directorVars, feedVars, aiVars, tableVars, asks>>

Projecting ==
  /\ Scene.tables /\ TablesStep
  /\ UNCHANGED <<directorVars, feedVars, aiVars, gatewayVars, asks>>

Next ==
  World \/ Directing \/ Composing \/ ActorAsks \/ Thinking \/ Playing \/ Projecting

Spec == Init /\ [][Next]_vars

---------------------------------------------------------------------------

\* What is staged keeps to the budget that was in force, is planned once a day
\* and audited beforehand, through crashes and redelivery (director.py).
StageInv == Scene.directing => BudgetKept /\ PlannedOnce /\ AuditedFirst

\* What is published is published once, and what must be published is; whoever
\* reads or writes through the gateway loses nothing of it (composer.py,
\* feed_stream.py, session.py).
PublicInv == PostedOnce /\ NodesArePosted /\ ChaptersTurn /\ NoFlood /\ GatewayInv

\* What a player did since less than a window ago, and the director has heard,
\* counts among what is looked at (signals.py AttentionTracker: "counts whom
\* player.* interventions address within the window").
AttentionCounted ==
  \A i \in Of({"player"}) :
    LET before == {j \in Of({"ticked"}) : j < i}
        recent == before # {} /\ dir.tick - log[Latest(before)].tick < GravityWindow
    IN  faults = 0 /\ i <= acked.gravity /\ IsAttention(log[i]) /\ recent
          => Attended(dir.hits, dir.tick)[log[i].who] > 0
=================================================================================
