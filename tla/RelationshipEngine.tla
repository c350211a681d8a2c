-------------------------- MODULE RelationshipEngine --------------------------
(***************************************************************************)
(* The pure rules of a relationship (engine/relationship: engine.py,       *)
(* model.py): what an interaction, an emotion, an insight or the passing   *)
(* of time does to one directed edge, when the change is worth telling,    *)
(* and which stage an action leads to.                                     *)
(*                                                                         *)
(* Numbers are integers: One stands for 1.0.  An edge is stored with four  *)
(* decimals; Grain is how many of the model's units make the last decimal. *)
(***************************************************************************)
EXTENDS Integers

CONSTANTS
  One,              \* 1.0
  Grain,            \* what a stored number is rounded to
  Effects,          \* params interaction_effects: kind, direction, deltas
  Feelings,         \* params emotion_consolidation: emotion, coefficients
  FeelingWeight,    \* salience gained per intensity of an emotion
  Rates,            \* params decay_per_tick
  InsightWeight,    \* params insight_salience
  PublishAt,        \* params publish_threshold
  AcceptTrust,      \* params confess_accept_trust
  RejectResentment  \* params confess_reject_resentment

Dimensions == {"trust", "intimacy", "respect", "attraction", "resentment"}

Numbers == Dimensions \cup {"salience"}

\* A table gives numbers for some dimensions and for salience.
IsTable(f) == DOMAIN f \subseteq Numbers /\ \A d \in DOMAIN f : f[d] \in Int

ASSUME RelationshipAssumption ==
  /\ {One, Grain, PublishAt} \subseteq Nat \ {0} /\ \E n \in 1..One : One = n * Grain
  /\ {FeelingWeight, InsightWeight, RejectResentment} \subseteq Nat
  /\ AcceptTrust \in Int
  /\ \A k \in DOMAIN Effects :
       /\ DOMAIN Effects[k] \subseteq {"outgoing", "incoming"}
       /\ \A way \in DOMAIN Effects[k] : IsTable(Effects[k][way])
  /\ \A f \in DOMAIN Feelings : IsTable(Feelings[f])
  /\ IsTable(Rates) /\ \A d \in DOMAIN Rates : Rates[d] \in Nat

Stages == {"stranger", "acquaintance", "friend", "close_friend", "romantic",
           "family", "mentor", "rival", "enemy"}

Low(d) == IF d \in {"trust", "respect"} THEN -One ELSE 0

Edge == [dims : [Dimensions -> -One..One], stage : Stages,
         salience : 0..One, pending : [Dimensions -> Int]]

Zero == [d \in Dimensions |-> 0]

Stranger == [dims |-> Zero, stage |-> "stranger", salience |-> 0,
             pending |-> Zero]

Within(lo, hi, v) == IF v < lo THEN lo ELSE IF v > hi THEN hi ELSE v

Clamp(d, v) == Within(Low(d), One, v)

Abs(n) == IF n < 0 THEN -n ELSE n

PendingL1(e) ==
  Abs(e.pending["trust"]) + Abs(e.pending["intimacy"]) + Abs(e.pending["respect"])
    + Abs(e.pending["attraction"]) + Abs(e.pending["resentment"])

\* What a table says about d.
Of(table, d) == IF d \in DOMAIN table THEN table[d] ELSE 0

\* Mutant: the delta asked for is pending, not the one the bounds allow.
MovedUnbounded(e, delta) ==
  LET dims == [d \in Dimensions |-> Clamp(d, e.dims[d] + delta[d])]
  IN [e EXCEPT !.dims = dims,
               !.pending = [d \in Dimensions |-> @[d] + delta[d]]]

\* The dimensions move by delta as far as their bounds allow; what was really
\* moved is added to pending.
Moved(e, delta) ==
  LET dims == [d \in Dimensions |-> Clamp(d, e.dims[d] + delta[d])]
  IN [e EXCEPT !.dims = dims,
               !.pending = [d \in Dimensions |-> @[d] + dims[d] - e.dims[d]]]

ApplyDeltas(e, delta, weight) ==
  [Moved(e, delta) EXCEPT !.salience = Within(0, One, @ + weight)]

ApplyInteraction(e, kind, way) ==
  IF kind \in DOMAIN Effects /\ way \in DOMAIN Effects[kind]
  THEN LET table == Effects[kind][way]
       IN ApplyDeltas(e, [d \in Dimensions |-> Of(table, d)],
                      Of(table, "salience"))
  ELSE e

ConsolidateEmotion(e, feeling, intensity) ==
  IF feeling \in DOMAIN Feelings
  THEN ApplyDeltas(e, [d \in Dimensions |->
                         (Of(Feelings[feeling], d) * intensity) \div One],
                   (FeelingWeight * intensity) \div One)
  ELSE e

\* A thought moves no dimension and is not told, the other only takes more room.
ConsolidateInsight(e, confidence) ==
  [e EXCEPT !.salience =
     Within(0, One, @ + (InsightWeight * confidence) \div One)]

DecayEdge(e, ticks) ==
  LET cooler == Moved(e, [d \in Dimensions |-> -(Of(Rates, d) * ticks)])
  IN [cooler EXCEPT !.salience =
        Within(0, One, @ - Of(Rates, "salience") * ticks)]

WorthTelling(e) == PendingL1(e) >= PublishAt

ConsumePending(e) == [e EXCEPT !.pending = Zero]

\* The caller's part of a publication: the event that tells the dimensions and
\* the edge without its pending deltas.
Settled(e) == IF WorthTelling(e) THEN ConsumePending(e) ELSE e

TransitionStage(e, stage) == [e EXCEPT !.stage = stage]

\* stage_after_action: the new stages of both edges and the milestone, if any.
NoTransition == [milestone |-> "none", stages |-> {}]

StageAfterAction(kind, mine, theirs) ==
  LET both == {mine.stage, theirs.stage}
      to(milestone, stages) == [milestone |-> milestone, stages |-> stages]
  IN CASE kind = "confess" /\ both # {"romantic"} ->
            IF /\ theirs.dims["trust"] >= AcceptTrust
               /\ theirs.dims["resentment"] < RejectResentment
            THEN to("confession_accepted", {"romantic"})
            ELSE to("confession_declined", {})
       [] kind = "sever" /\ both # {"stranger"} -> to("severed", {"stranger"})
       [] OTHER -> NoTransition

\* to_json: what Redis keeps of an edge.
Rounded(n) == ((2 * n + Grain) \div (2 * Grain)) * Grain

Stored(e) ==
  [e EXCEPT !.dims = [d \in Dimensions |-> Rounded(@[d])],
            !.salience = Rounded(@),
            !.pending = [d \in Dimensions |-> Rounded(@[d])]]
=============================================================================
