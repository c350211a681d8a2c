----------------------------- MODULE LevelOfDetail -----------------------------
(***************************************************************************)
(* How much attention an actor gets (engine/tick: lod.py;                  *)
(* lod_after_perception in phases.py): Hot actors decide in every tick,    *)
(* Warm and Cold ones at intervals, spread by a hash; what concerns an     *)
(* actor makes it Hot, and it cools down one tier at a time.               *)
(***************************************************************************)
EXTENDS Integers, FiniteSets

CONSTANTS
  WarmInterval, ColdInterval,  \* WARM_INTERVAL, COLD_INTERVAL
  HotGrace, WarmGrace,         \* HOT_DEMOTION_GRACE, WARM_DEMOTION_GRACE
  Hash                         \* crc32 of an actor's id

ASSUME LodAssumption ==
  /\ {WarmInterval, ColdInterval} \subseteq Nat \ {0}
  /\ {HotGrace, WarmGrace} \subseteq Nat
  /\ \A a \in DOMAIN Hash : Hash[a] \in Nat

Lod == [tier : {"hot", "warm", "cold"}, interest : Nat]

PhaseOffset(a, n) == Hash[a] % n

IsDue(a, lod, t) ==
  \/ lod.tier = "hot"
  \/ lod.tier = "warm" /\ t % WarmInterval = PhaseOffset(a, WarmInterval)
  \/ lod.tier = "cold" /\ t % ColdInterval = PhaseOffset(a, ColdInterval)

Promote(lod, t) == [tier |-> "hot", interest |-> t]

Touch(lod, t) == [lod EXCEPT !.interest = t]

MaybeDemote(lod, t) ==
  LET idle == t - lod.interest
  IN CASE lod.tier = "hot" /\ idle >= HotGrace -> [lod EXCEPT !.tier = "warm"]
       [] lod.tier = "warm" /\ idle >= WarmGrace -> [lod EXCEPT !.tier = "cold"]
       [] OTHER -> lod

\* Words, and what the director says to an actor, ask for an answer; a like or
\* a neighbour's comment only keeps it awake.
Stirring == {"dm", "comment", "observation", "incident"}

LodAfterPerception(lod, kinds, t) ==
  IF kinds \cap Stirring # {} THEN Promote(lod, t) ELSE Touch(lod, t)

DueByTier(lods, t) ==
  [tier \in {"hot", "warm", "cold"} |->
     {a \in DOMAIN lods : lods[a].tier = tier /\ IsDue(a, lods[a], t)}]
=============================================================================
