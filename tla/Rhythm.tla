-------------------------------- MODULE Rhythm --------------------------------
(***************************************************************************)
(* When an actor feels like posting (lf_actor/rhythm.py): some slots of    *)
(* the day, never in its working hours, spread by a hash of actor, day and *)
(* number; a slot that is taken moves on to the next open one.             *)
(***************************************************************************)
EXTENDS Integers, Sequences, FiniteSets

CONSTANTS
  SlotsPerDay,
  FreeDays,    \* weekends and holidays
  Lifestyle,   \* actor: [from, to, weekday, weekend], the busy slots and the
               \* daily posts
  Spread       \* the hash of <<actor, day, k>>

ASSUME RhythmAssumption ==
  /\ SlotsPerDay \in Nat \ {0}
  /\ \A a \in DOMAIN Lifestyle : LET l == Lifestyle[a] IN
       /\ {l.from, l.to} \subseteq 0..(SlotsPerDay - 1)
       /\ {l.weekday, l.weekend} \subseteq Nat

Day(t) == t \div SlotsPerDay

Slot(t) == t % SlotsPerDay

\* Hours from..to-1, over midnight when to comes first.
Busy(l, s) ==
  IF l.from <= l.to THEN l.from <= s /\ s < l.to ELSE s >= l.from \/ s < l.to

OpenSlots(a, day) ==
  {s \in 0..(SlotsPerDay - 1) : day \in FreeDays \/ ~Busy(Lifestyle[a], s)}

Target(a, day) ==
  IF day \in FreeDays THEN Lifestyle[a].weekend ELSE Lifestyle[a].weekday

Nth(open, n) ==
  CHOOSE s \in open : Cardinality({r \in open : r < s}) = n

\* The first open slot from n on, round the day, that is not taken.
NextFree(open, chosen, n) ==
  LET size == Cardinality(open)
      free == {d \in 0..(size - 1) : Nth(open, (n + d) % size) \notin chosen}
  IN (n + CHOOSE d \in free : \A e \in free : d <= e) % size

MomentSlots(a, day) ==
  LET open == OpenSlots(a, day)
      size == Cardinality(open)
      count == IF Target(a, day) < size THEN Target(a, day) ELSE size
      chosen[k \in 0..count] ==
        IF k = 0 THEN {}
        ELSE chosen[k - 1] \cup
             {Nth(open, NextFree(open, chosen[k - 1],
                                 Spread[<<a, day, k - 1>>] % size))}
  IN chosen[count]

PostingMoment(a, t) == Slot(t) \in MomentSlots(a, Day(t))
=============================================================================
