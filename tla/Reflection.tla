------------------------------- MODULE Reflection -------------------------------
(***************************************************************************)
(* The pure rules of reflection (engine/actor: reflection.py): what an     *)
(* actor concludes from its edges and from whom it is grateful to, what it *)
(* takes back when the grounds are gone, what of a model's insight is      *)
(* accepted, and when a conclusion differs enough to be stated again.      *)
(*                                                                         *)
(* A belief is [kind, about, sure]; its sentence is left out.  A ledger    *)
(* gives each slot <<kind, about>> the confidence it was last stated with. *)
(***************************************************************************)
EXTENDS RelationshipEngine

CONSTANTS
  Nobody,           \* no counterpart
  SupportTrust, SupportIntimacy, ThreatAt,  \* when an edge says something
  FeltAt,           \* intensity of a gratitude that lasts
  Restate,          \* RESTATE_DELTA
  Faded             \* RETRACTED_CONFIDENCE

ASSUME ReflectionAssumption ==
  /\ {SupportTrust, SupportIntimacy, ThreatAt, FeltAt, Faded} \subseteq Nat
  /\ Restate \in Nat \ {0} /\ FeltAt <= One
  \* the least that is ever concluded is far enough from what is left of it
  /\ (SupportTrust + SupportIntimacy) \div 2 - Faded >= Restate
  /\ ThreatAt - Faded >= Restate /\ FeltAt - Faded >= Restate

RuleKinds == {"supporter", "threat", "felt_support"}

InsightKinds == {"self_image", "world_view", "person_insight"}

Belief(kind, about, sure) == [kind |-> kind, about |-> about, sure |-> sure]

Slot(belief) == <<belief.kind, belief.about>>

\* derive_beliefs: edges maps the counterparts to their edges.
Derived(edges, grateful) ==
  LET dims(b) == edges[b].dims
      known == DOMAIN edges
  IN  {Belief("supporter", b, (dims(b)["trust"] + dims(b)["intimacy"]) \div 2) :
         b \in {x \in known : /\ dims(x)["trust"] >= SupportTrust
                              /\ dims(x)["intimacy"] >= SupportIntimacy}}
      \cup {Belief("threat", b, dims(b)["resentment"]) :
              b \in {x \in known : dims(x)["resentment"] >= ThreatAt}}
      \cup {Belief("felt_support", b, FeltAt) : b \in grateful}

\* retract_stale
Retracted(ledger, derived) ==
  {Belief(slot[1], slot[2], Faded) :
     slot \in {s \in DOMAIN ledger : s[1] \in RuleKinds} \ {Slot(b) : b \in derived}}

\* insight_to_belief: {} when it is none.
Insights(proposal, known) ==
  LET about == IF proposal.kind = "person_insight" /\ proposal.about \in known
               THEN proposal.about ELSE Nobody
      sure == Within(0, One, proposal.sure)
  IN  IF \/ proposal.kind \notin InsightKinds
         \/ proposal.kind = "person_insight" /\ about = Nobody
         \/ sure = 0
      THEN {} ELSE {Belief(proposal.kind, about, sure)}

\* BeliefLedger.changed
WorthStating(belief, ledger) ==
  \/ Slot(belief) \notin DOMAIN ledger
  \/ Abs(belief.sure - ledger[Slot(belief)]) >= Restate

\* BeliefLedger.record
Noted(ledger, belief) ==
  [s \in DOMAIN ledger \cup {Slot(belief)} |->
     IF s = Slot(belief) THEN belief.sure ELSE ledger[s]]
=================================================================================
