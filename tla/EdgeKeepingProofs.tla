--------------------------- MODULE EdgeKeepingProofs ---------------------------
(* What workers without a lock keep of relationships, for any number of       *)
(* shards, actors, players, deeds and crashes.                                *)
EXTENDS EdgeKeeping, SequenceTheorems, FiniteSetTheorems, WellFoundedInduction, TLAPS

-----------------------------------------------------------------------------
(* Rounding.                                                                *)

\* The last decimal is a part of One.
LEMMA Decimals ==
  /\ Grain \in Nat /\ Grain > 0 /\ One \in Nat /\ One > 0
  /\ PublishAt \in Nat /\ PublishAt > 0
  /\ \E q \in Nat : One = q * Grain
BY RelationshipAssumption

\* Division rounds down.
LEMMA DivBounds ==
  ASSUME NEW a \in Int, NEW b \in Nat, b > 0
  PROVE  a \div b \in Int /\ b * (a \div b) <= a /\ a < b * (a \div b) + b
OBVIOUS

\* A factor is monotone.
LEMMA Scaled ==
  ASSUME NEW a \in Int, NEW b \in Int, NEW c \in Nat, a <= b
  PROVE  a * c <= b * c /\ a * c \in Int /\ b * c \in Int
OBVIOUS

\* A factor distributes.
LEMMA OneMore ==
  ASSUME NEW a \in Int, NEW b \in Int
  PROVE  (a + 1) * b = a * b + b /\ (a - 1) * b = a * b - b
OBVIOUS

\* The quotient is the only number between.
LEMMA DivIs ==
  ASSUME NEW a \in Int, NEW b \in Nat, b > 0, NEW t \in Int, t * b <= a, a < t * b + b
  PROVE  a \div b = t
<1>. DEFINE u == a \div b
<1>1. u \in Int /\ u * b <= a /\ a < u * b + b
  BY DivBounds
<1>. HIDE DEF u
<1>2. ~(t + 1 <= u)
  <2>. SUFFICES ASSUME t + 1 <= u PROVE FALSE
    OBVIOUS
  <2>1. (t + 1) * b <= u * b /\ (t + 1) * b = t * b + b
    BY <1>1, Scaled, OneMore
  <2>. QED  BY <1>1, <2>1
<1>3. ~(u + 1 <= t)
  <2>. SUFFICES ASSUME u + 1 <= t PROVE FALSE
    OBVIOUS
  <2>1. (u + 1) * b <= t * b /\ (u + 1) * b = u * b + b
    BY <1>1, Scaled, OneMore
  <2>. QED  BY <1>1, <2>1
<1>4. u = t
  BY <1>1, <1>2, <1>3
<1>. QED  BY <1>4 DEF u

\* Rounding moves a number by half a grain at most, to a whole number of grains.
LEMMA RoundedNear ==
  ASSUME NEW n \in Int
  PROVE  /\ Rounded(n) \in Int
         /\ \E t \in Int : Rounded(n) = t * Grain
         /\ 2 * Rounded(n) <= 2 * n + Grain
         /\ 2 * n - Grain < 2 * Rounded(n)
<1>1. Grain \in Nat /\ Grain > 0
  BY Decimals
<1>. DEFINE t == (2 * n + Grain) \div (2 * Grain)
<1>2. /\ t \in Int
      /\ (2 * Grain) * t <= 2 * n + Grain
      /\ 2 * n + Grain < (2 * Grain) * t + 2 * Grain
  BY <1>1, DivBounds
<1>3. Rounded(n) = t * Grain
  BY DEF Rounded
<1>. HIDE DEF t
<1>4. (2 * Grain) * t = 2 * (t * Grain) /\ t * Grain \in Int
  BY <1>1, <1>2
<1>. QED  BY <1>1, <1>2, <1>3, <1>4

\* ... and to none but that.
LEMMA RoundedIs ==
  ASSUME NEW n \in Int, NEW t \in Int,
         2 * (t * Grain) <= 2 * n + Grain, 2 * n - Grain < 2 * (t * Grain)
  PROVE  Rounded(n) = t * Grain
<1>1. Grain \in Nat /\ Grain > 0
  BY Decimals
<1>2. t * (2 * Grain) = 2 * (t * Grain) /\ t * Grain \in Int
  BY <1>1
<1>3. (2 * n + Grain) \div (2 * Grain) = t
  <2>1. 2 * n + Grain \in Int /\ 2 * Grain \in Nat /\ 2 * Grain > 0
    BY <1>1
  <2>2. t * (2 * Grain) <= 2 * n + Grain /\ 2 * n + Grain < t * (2 * Grain) + 2 * Grain
    BY <1>1, <1>2
  <2>. QED  BY <2>1, <2>2, DivIs
<1>. QED  BY <1>3 DEF Rounded

\* A whole number of grains keeps its value, and the remainder is rounded alone.
LEMMA RoundedShift ==
  ASSUME NEW m \in Int, NEW d \in Int
  PROVE  Rounded(m * Grain + d) = m * Grain + Rounded(d)
<1>1. Grain \in Nat /\ Grain > 0 /\ m * Grain \in Int
  BY Decimals
<1>2. PICK t \in Int : /\ Rounded(d) = t * Grain /\ Rounded(d) \in Int
                       /\ 2 * Rounded(d) <= 2 * d + Grain
                       /\ 2 * d - Grain < 2 * Rounded(d)
  BY RoundedNear
<1>3. (m + t) * Grain = m * Grain + t * Grain
  BY <1>1
<1>4. /\ m * Grain + d \in Int /\ m + t \in Int
      /\ 2 * ((m + t) * Grain) <= 2 * (m * Grain + d) + Grain
      /\ 2 * (m * Grain + d) - Grain < 2 * ((m + t) * Grain)
  BY <1>1, <1>2, <1>3
<1>5. Rounded(m * Grain + d) = (m + t) * Grain
  BY <1>4, RoundedIs
<1>. QED  BY <1>2, <1>3, <1>5

\* What is rounded stays as it is.
LEMMA RoundedTwice ==
  ASSUME NEW t \in Int
  PROVE  Rounded(t * Grain) = t * Grain
<1>1. Grain \in Nat /\ Grain > 0 /\ t * Grain \in Int
  BY Decimals
<1>. QED  BY <1>1, RoundedIs

\* A number between two whole numbers of grains is rounded to one between them.
LEMMA RoundedWithin ==
  ASSUME NEW lo \in Int, NEW hi \in Int,
         NEW n \in (lo * Grain)..(hi * Grain)
  PROVE  Rounded(n) \in (lo * Grain)..(hi * Grain)
<1>1. /\ Grain \in Nat /\ Grain > 0
      /\ n \in Int /\ lo * Grain <= n /\ n <= hi * Grain
      /\ lo * Grain \in Int /\ hi * Grain \in Int
  BY Decimals
<1>2. PICK t \in Int : /\ Rounded(n) = t * Grain /\ Rounded(n) \in Int
                       /\ 2 * Rounded(n) <= 2 * n + Grain
                       /\ 2 * n - Grain < 2 * Rounded(n)
  BY <1>1, RoundedNear
<1>3. ~(hi + 1 <= t)
  <2>. SUFFICES ASSUME hi + 1 <= t PROVE FALSE
    OBVIOUS
  <2>1. (hi + 1) * Grain <= t * Grain /\ (hi + 1) * Grain = hi * Grain + Grain
    BY <1>1, Scaled, OneMore
  <2>. QED  BY <1>1, <1>2, <2>1
<1>4. ~(t + 1 <= lo)
  <2>. SUFFICES ASSUME t + 1 <= lo PROVE FALSE
    OBVIOUS
  <2>1. (t + 1) * Grain <= lo * Grain /\ (t + 1) * Grain = t * Grain + Grain
    BY <1>1, Scaled, OneMore
  <2>. QED  BY <1>1, <1>2, <2>1
<1>5. lo <= t /\ t <= hi
  BY <1>3, <1>4
<1>6. lo * Grain <= t * Grain /\ t * Grain <= hi * Grain
  BY <1>1, <1>5, Scaled
<1>. QED  BY <1>1, <1>2, <1>6

\* The bounds of an edge's numbers are whole numbers of grains.
LEMMA RoundedBounds ==
  /\ \A n \in -One..One : Rounded(n) \in -One..One
  /\ \A n \in 0..One : Rounded(n) \in 0..One
<1>1. PICK q \in Nat : One = q * Grain
  BY Decimals
<1>2. -One = (-q) * Grain /\ 0 = 0 * Grain /\ -q \in Int /\ q \in Int
  BY <1>1, Decimals
<1>3. \A n \in ((-q) * Grain)..(q * Grain) : Rounded(n) \in ((-q) * Grain)..(q * Grain)
  BY <1>2, RoundedWithin
<1>4. \A n \in (0 * Grain)..(q * Grain) : Rounded(n) \in (0 * Grain)..(q * Grain)
  BY <1>2, RoundedWithin
<1>. QED  BY <1>1, <1>2, <1>3, <1>4

-----------------------------------------------------------------------------
(* The rules of an edge.                                                    *)

\* c is e with dimensions moved and the same move pending.
Grown(e, c) ==
  /\ c \in Edge /\ c.stage = e.stage
  /\ \A d \in Dimensions : c.dims[d] - e.dims[d] = c.pending[d] - e.pending[d]

\* Redis keeps an edge rounded, number by number.
LEMMA StoredEdge ==
  ASSUME NEW e \in Edge
  PROVE  /\ Stored(e) \in Edge /\ Stored(e).stage = e.stage
         /\ \A d \in Dimensions : /\ Stored(e).dims[d] = Rounded(e.dims[d])
                                  /\ Stored(e).pending[d] = Rounded(e.pending[d])
         /\ Stored(e).salience = Rounded(e.salience)
<1>1. /\ e.dims \in [Dimensions -> -One..One] /\ e.pending \in [Dimensions -> Int]
      /\ e.salience \in 0..One /\ e.stage \in Stages
  BY DEF Edge
<1>2. /\ [d \in Dimensions |-> Rounded(e.dims[d])] \in [Dimensions -> -One..One]
      /\ [d \in Dimensions |-> Rounded(e.pending[d])] \in [Dimensions -> Int]
      /\ Rounded(e.salience) \in 0..One
  BY <1>1, RoundedBounds, RoundedNear
<1>. DEFINE dims == [d \in Dimensions |-> Rounded(e.dims[d])]
            pending == [d \in Dimensions |-> Rounded(e.pending[d])]
<1>3. Stored(e) = [[[e EXCEPT !.dims = dims] EXCEPT !.salience = Rounded(e.salience)]
                     EXCEPT !.pending = pending]
  BY DEF Stored, Edge
<1>. HIDE DEF dims, pending
<1>4. Stored(e) = [dims |-> dims, stage |-> e.stage, salience |-> Rounded(e.salience),
                   pending |-> pending]
  BY <1>3 DEF Edge
<1>. QED  BY <1>1, <1>2, <1>4 DEF Edge, dims, pending

\* Two edges with the same entries are the same.
LEMMA SameEdge ==
  ASSUME NEW e \in Edge, NEW c \in Edge,
         e.stage = c.stage, e.salience = c.salience,
         \A d \in Dimensions : e.dims[d] = c.dims[d] /\ e.pending[d] = c.pending[d]
  PROVE  e = c
<1>1. e.dims \in [Dimensions -> -One..One] /\ c.dims \in [Dimensions -> -One..One]
      /\ e.pending \in [Dimensions -> Int] /\ c.pending \in [Dimensions -> Int]
  BY DEF Edge
<1>2. e.dims = c.dims /\ e.pending = c.pending
  BY <1>1
<1>. QED  BY <1>2 DEF Edge

\* Once is enough.
LEMMA StoredTwice ==
  ASSUME NEW e \in Edge
  PROVE  Stored(Stored(e)) = Stored(e)
<1>. DEFINE c == Stored(e)
<1>1. c \in Edge /\ Stored(c) \in Edge /\ Stored(c).stage = c.stage
  BY StoredEdge
<1>2. \A n \in Int : Rounded(Rounded(n)) = Rounded(n)
  BY RoundedNear, RoundedTwice
<1>3. \A d \in Dimensions : e.dims[d] \in Int /\ e.pending[d] \in Int
  BY DEF Edge
<1>4. e.salience \in Int
  BY DEF Edge
<1>5. \A d \in Dimensions : /\ c.dims[d] = Rounded(e.dims[d])
                            /\ c.pending[d] = Rounded(e.pending[d])
  BY StoredEdge
<1>6. \A d \in Dimensions : /\ Stored(c).dims[d] = Rounded(c.dims[d])
                            /\ Stored(c).pending[d] = Rounded(c.pending[d])
  BY <1>1, StoredEdge
<1>7. c.salience = Rounded(e.salience) /\ Stored(c).salience = Rounded(c.salience)
  BY <1>1, StoredEdge
<1>. HIDE DEF c
<1>8. Stored(c) = c
  BY <1>1, <1>2, <1>3, <1>4, <1>5, <1>6, <1>7, SameEdge
<1>. QED  BY <1>8 DEF c

\* A move goes as far as the bounds allow, and so does what is pending.
LEMMA MovedGrows ==
  ASSUME NEW e \in Edge, NEW delta \in [Dimensions -> Int], NEW weight \in Int
  PROVE  /\ Grown(e, Moved(e, delta))
         /\ Grown(e, [Moved(e, delta) EXCEPT !.salience = Within(0, One, @ + weight)])
         /\ Grown(e, [Moved(e, delta) EXCEPT !.salience = Within(0, One, @ - weight)])
<1>0. One \in Nat /\ One > 0
  BY Decimals
<1>1. /\ e.dims \in [Dimensions -> -One..One] /\ e.pending \in [Dimensions -> Int]
      /\ e.salience \in 0..One /\ e.stage \in Stages
  BY DEF Edge
<1>. DEFINE dims == [d \in Dimensions |-> Clamp(d, e.dims[d] + delta[d])]
            pending == [d \in Dimensions |-> e.pending[d] + dims[d] - e.dims[d]]
<1>2. \A d \in Dimensions, v \in Int : Clamp(d, v) \in -One..One
  BY <1>0 DEF Clamp, Within, Low
<1>3. \A v \in Int : Within(0, One, v) \in 0..One
  BY <1>0 DEF Within
<1>4. \A d \in Dimensions : e.dims[d] \in Int /\ delta[d] \in Int /\ e.pending[d] \in Int
  BY <1>0, <1>1
<1>5. dims \in [Dimensions -> -One..One]
  BY <1>2, <1>4
<1>6. \A d \in Dimensions : dims[d] \in Int
  BY <1>0, <1>5
<1>7. pending \in [Dimensions -> Int]
  BY <1>4, <1>6
<1>8. Moved(e, delta) = [dims |-> dims, stage |-> e.stage, salience |-> e.salience,
                         pending |-> pending]
  <2>1. Moved(e, delta) = [[e EXCEPT !.dims = dims] EXCEPT !.pending = pending]
    BY DEF Moved, Edge
  <2>. HIDE DEF dims, pending
  <2>. QED  BY <2>1 DEF Edge
<1>9. \A d \in Dimensions : dims[d] - e.dims[d] = pending[d] - e.pending[d]
  BY <1>4, <1>6
<1>10. /\ Within(0, One, e.salience + weight) \in 0..One
       /\ Within(0, One, e.salience - weight) \in 0..One
  BY <1>0, <1>1, <1>3
<1>. HIDE DEF dims, pending
<1>11. \A s \in 0..One :
         Grown(e, [dims |-> dims, stage |-> e.stage, salience |-> s, pending |-> pending])
  BY <1>1, <1>5, <1>7, <1>9 DEF Grown, Edge
<1>. QED  BY <1>1, <1>8, <1>10, <1>11

\* The table entries are numbers.
LEMMA TableEntries ==
  ASSUME NEW table, IsTable(table), NEW d \in Numbers
  PROVE  Of(table, d) \in Int
BY DEF IsTable, Of

\* Every rule moves dimensions and pending alike and leaves the stage alone.
LEMMA ChangedGrows ==
  ASSUME NEW e \in Edge, NEW j, j.op \in {"interact", "feel", "cool", "muse"},
         j.op = "cool" => j.ticks \in Int, j.op = "muse" => j.sure \in Int
  PROVE  Grown(e, Changed(j, e))
<1>0. One \in Nat /\ One > 0 /\ FeelingWeight \in Int /\ InsightWeight \in Int
  BY Decimals, RelationshipAssumption
<1>1. /\ e.dims \in [Dimensions -> -One..One] /\ e.pending \in [Dimensions -> Int]
      /\ e.salience \in 0..One /\ e.stage \in Stages
  BY DEF Edge
<1>2. Grown(e, e)
  <2>1. \A d \in Dimensions : e.dims[d] \in Int /\ e.pending[d] \in Int
    BY <1>0, <1>1
  <2>. QED  BY <2>1 DEF Grown
<1>3. Dimensions \subseteq Numbers /\ "salience" \in Numbers
  BY DEF Numbers
<1>4. CASE j.op = "interact"
  <2>1. CASE j.how \in DOMAIN Effects /\ j.way \in DOMAIN Effects[j.how]
    <3>. DEFINE table == Effects[j.how][j.way]
                delta == [d \in Dimensions |-> Of(table, d)]
    <3>1. IsTable(table)
      BY <2>1, RelationshipAssumption
    <3>2. delta \in [Dimensions -> Int] /\ Of(table, "salience") \in Int
      BY <1>3, <3>1, TableEntries
    <3>3. Changed(j, e) = ApplyDeltas(e, delta, Of(table, "salience"))
      BY <1>4, <2>1 DEF Changed, ApplyInteraction
    <3>. HIDE DEF table, delta
    <3>. QED  BY <3>2, <3>3, MovedGrows DEF ApplyDeltas
  <2>2. CASE ~(j.how \in DOMAIN Effects /\ j.way \in DOMAIN Effects[j.how])
    BY <1>2, <1>4, <2>2 DEF Changed, ApplyInteraction
  <2>. QED  BY <2>1, <2>2
<1>5. CASE j.op = "feel"
  <2>1. CASE j.how \in DOMAIN Feelings
    <3>. DEFINE table == Feelings[j.how]
                delta == [d \in Dimensions |-> (Of(table, d) * Felt) \div One]
                weight == (FeelingWeight * Felt) \div One
    <3>1. IsTable(table)
      BY <2>1, RelationshipAssumption
    <3>2. Felt \in Int
      BY <1>0, DivBounds DEF Felt
    <3>3. \A d \in Dimensions : Of(table, d) * Felt \in Int
      BY <1>3, <3>1, <3>2, TableEntries
    <3>4. FeelingWeight * Felt \in Int
      BY <1>0, <3>2
    <3>5. delta \in [Dimensions -> Int] /\ weight \in Int
      BY <1>0, <3>3, <3>4, DivBounds
    <3>6. Changed(j, e) = ApplyDeltas(e, delta, weight)
      BY <1>5, <2>1 DEF Changed, ConsolidateEmotion
    <3>. HIDE DEF table, delta, weight
    <3>. QED  BY <3>5, <3>6, MovedGrows DEF ApplyDeltas
  <2>2. CASE j.how \notin DOMAIN Feelings
    BY <1>2, <1>5, <2>2 DEF Changed, ConsolidateEmotion
  <2>. QED  BY <2>1, <2>2
<1>6. CASE j.op = "cool"
  <2>. DEFINE delta == [d \in Dimensions |-> -(Of(Rates, d) * j.ticks)]
              weight == Of(Rates, "salience") * j.ticks
  <2>1. IsTable(Rates)
    BY RelationshipAssumption
  <2>2. delta \in [Dimensions -> Int] /\ weight \in Int
    BY <1>3, <1>6, <2>1, TableEntries
  <2>3. Changed(j, e) = [Moved(e, delta) EXCEPT !.salience = Within(0, One, @ - weight)]
    BY <1>6 DEF Changed, DecayEdge
  <2>. HIDE DEF delta, weight
  <2>. QED  BY <2>2, <2>3, MovedGrows
<1>7. CASE j.op = "muse"
  <2>. DEFINE weight == (InsightWeight * j.sure) \div One
  <2>1. weight \in Int
    <3>1. InsightWeight * j.sure \in Int
      BY <1>0, <1>7
    <3>. QED  BY <1>0, <3>1, DivBounds
  <2>2. Changed(j, e) = [e EXCEPT !.salience = Within(0, One, @ + weight)]
    BY <1>7 DEF Changed, ConsolidateInsight
  <2>. HIDE DEF weight
  <2>3. Within(0, One, e.salience + weight) \in 0..One
    BY <1>0, <1>1, <2>1 DEF Within
  <2>4. \A s \in 0..One : Grown(e, [e EXCEPT !.salience = s])
    BY <1>1, <1>2 DEF Grown, Edge
  <2>. QED  BY <2>2, <2>3, <2>4
<1>. QED  BY <1>4, <1>5, <1>6, <1>7

\* e is as Redis keeps it.
Kept(e) == e \in Edge /\ Stored(e) = e

\* said is all the world was told of e but for what is pending.
Owes(e, said) == \A d \in Dimensions : e.dims[d] - said[d] = e.pending[d]

\* What is pending of e is less than worth telling.
Small(e) == PendingL1(e) < PublishAt + Rest

\* Dimensions and pending are rounded alike, because both were round before.
LEMMA SavedOwes ==
  ASSUME NEW e, Kept(e), NEW said \in [Dimensions -> Int], Owes(e, said),
         NEW c, Grown(e, c)
  PROVE  Owes(Stored(c), said)
<1>1. SUFFICES ASSUME NEW d \in Dimensions
               PROVE  Stored(c).dims[d] - said[d] = Stored(c).pending[d]
  BY DEF Owes
<1>2. /\ e \in Edge /\ c \in Edge
      /\ e.dims[d] \in Int /\ e.pending[d] \in Int
      /\ c.dims[d] \in Int /\ c.pending[d] \in Int /\ said[d] \in Int
  BY Decimals DEF Kept, Grown, Edge
<1>3. e.dims[d] = Rounded(e.dims[d]) /\ e.pending[d] = Rounded(e.pending[d])
  BY <1>2, StoredEdge DEF Kept
<1>a. PICK t \in Int : Rounded(e.dims[d]) = t * Grain
  BY <1>2, RoundedNear
<1>b. PICK u \in Int : Rounded(e.pending[d]) = u * Grain
  BY <1>2, RoundedNear
<1>4. e.dims[d] = t * Grain /\ e.pending[d] = u * Grain
  BY <1>3, <1>a, <1>b
<1>. DEFINE move == c.dims[d] - e.dims[d]
<1>5. move \in Int /\ c.dims[d] = t * Grain + move /\ c.pending[d] = u * Grain + move
  BY <1>2, <1>4 DEF Grown
<1>. HIDE DEF move
<1>6. /\ Rounded(c.dims[d]) = t * Grain + Rounded(move)
      /\ Rounded(c.pending[d]) = u * Grain + Rounded(move)
      /\ Rounded(move) \in Int
  BY <1>5, RoundedShift, RoundedNear
<1>7. /\ Stored(c).dims[d] = Rounded(c.dims[d])
      /\ Stored(c).pending[d] = Rounded(c.pending[d])
  BY <1>2, StoredEdge
<1>8. e.dims[d] - said[d] = e.pending[d]
  BY DEF Owes
<1>. QED  BY <1>2, <1>4, <1>6, <1>7, <1>8

\* Rounding five numbers adds half a grain to each at most.
LEMMA SavedSmall ==
  ASSUME NEW c \in Edge, ~WorthTelling(c)
  PROVE  Small(Stored(c))
<1>1. \A d \in Dimensions : c.pending[d] \in Int /\ Stored(c).pending[d] = Rounded(c.pending[d])
  BY StoredEdge DEF Edge
<1>. DEFINE half == Grain \div 2
<1>2. Grain \in Nat /\ half \in Int /\ Grain < 2 * half + 2
  BY Decimals, DivBounds
<1>. HIDE DEF half
<1>3. ASSUME NEW n \in Int PROVE Abs(Rounded(n)) \in Int /\ Abs(n) \in Int
                                 /\ Abs(Rounded(n)) <= Abs(n) + half
  <2>1. /\ Rounded(n) \in Int /\ 2 * Rounded(n) <= 2 * n + Grain
        /\ 2 * n - Grain < 2 * Rounded(n)
    BY RoundedNear
  <2>. QED  BY <1>2, <2>1 DEF Abs
<1>. DEFINE p(d) == Abs(c.pending[d])
            q(d) == Abs(Stored(c).pending[d])
<1>4. \A d \in Dimensions : p(d) \in Int /\ q(d) \in Int /\ q(d) <= p(d) + half
  BY <1>1, <1>3
<1>5. p("trust") + p("intimacy") + p("respect") + p("attraction") + p("resentment") < PublishAt
  <2>1. \A d \in Dimensions : p(d) \in Int
    BY <1>4
  <2>2. PendingL1(c) = p("trust") + p("intimacy") + p("respect") + p("attraction") + p("resentment")
    BY DEF PendingL1
  <2>. HIDE DEF p
  <2>. QED  BY <2>1, <2>2, Decimals DEF WorthTelling, Dimensions
<1>6. PendingL1(Stored(c)) = q("trust") + q("intimacy") + q("respect") + q("attraction") + q("resentment")
  BY DEF PendingL1
<1>7. Rest = 5 * half
  BY DEF Rest, half
<1>. HIDE DEF p, q
<1>. QED  BY <1>2, <1>4, <1>5, <1>6, <1>7, Decimals DEF Small, Dimensions

\* What was told is no longer pending.
LEMMA SavedTold ==
  ASSUME NEW c \in Edge
  PROVE  /\ Owes(Stored(ConsumePending(c)), Stored(c).dims)
         /\ Small(Stored(ConsumePending(c)))
         /\ Stored(ConsumePending(c)).stage = c.stage
         /\ ConsumePending(c) \in Edge
<1>0. Grain \in Nat /\ Grain > 0 /\ PublishAt \in Nat /\ PublishAt > 0
  BY Decimals
<1>. DEFINE z == ConsumePending(c)
<1>1. /\ z \in Edge /\ z.dims = c.dims /\ z.stage = c.stage
      /\ \A d \in Dimensions : z.pending[d] = 0
  BY DEF ConsumePending, Zero, Edge
<1>2. Rounded(0) = 0
  <2>1. Rounded(0 * Grain) = 0 * Grain
    BY RoundedTwice
  <2>. QED  BY <1>0, <2>1
<1>. HIDE DEF z
<1>3. \A d \in Dimensions : /\ Stored(z).dims[d] = Rounded(c.dims[d])
                            /\ Stored(c).dims[d] = Rounded(c.dims[d])
                            /\ Stored(z).pending[d] = 0
                            /\ Rounded(c.dims[d]) \in Int
  <2>1. \A d \in Dimensions : c.dims[d] \in Int
    BY Decimals DEF Edge
  <2>. QED  BY <1>1, <1>2, <2>1, StoredEdge, RoundedNear
<1>4. Owes(Stored(z), Stored(c).dims)
  BY <1>3 DEF Owes
<1>5. PendingL1(Stored(z)) = 0
  BY <1>3 DEF PendingL1, Abs, Dimensions
<1>6. Rest \in Nat
  BY <1>0, DivBounds DEF Rest
<1>7. Small(Stored(z))
  BY <1>0, <1>5, <1>6 DEF Small
<1>. QED  BY <1>1, <1>4, <1>7, StoredEdge DEF z

\* A stage is no number.
LEMMA StageKept ==
  ASSUME NEW e, Kept(e), NEW s \in Stages
  PROVE  LET c == TransitionStage(e, s)
         IN /\ Kept(c) /\ c.stage = s
            /\ \A said : Owes(e, said) => Owes(c, said)
            /\ Small(e) => Small(c)
<1>. DEFINE c == TransitionStage(e, s)
<1>1. /\ e \in Edge /\ c \in Edge /\ c.stage = s /\ c.dims = e.dims
      /\ c.salience = e.salience /\ c.pending = e.pending
  BY DEF Kept, TransitionStage, Edge
<1>. HIDE DEF c
<1>2. Stored(c) = c
  BY <1>1, StoredEdge, SameEdge DEF Kept
<1>3. \A said : Owes(e, said) => Owes(c, said)
  BY <1>1 DEF Owes
<1>4. Small(e) => Small(c)
  BY <1>1 DEF Small, PendingL1
<1>. QED  BY <1>1, <1>2, <1>3, <1>4 DEF Kept, c

\* Whoever has just been met owes nothing.
LEMMA NewcomerKept ==
  LET e == TransitionStage(Stranger, "acquaintance")
  IN /\ Kept(e) /\ e.stage = "acquaintance" /\ Owes(e, Zero) /\ Small(e)
     /\ Zero \in [Dimensions -> Int]
<1>0. /\ One \in Nat /\ Grain \in Nat /\ Grain > 0
      /\ PublishAt \in Nat /\ PublishAt > 0
  BY Decimals
<1>1. Stranger \in Edge /\ Stranger.dims = Zero /\ Stranger.pending = Zero
      /\ Stranger.salience = 0 /\ Zero \in [Dimensions -> Int]
      /\ \A d \in Dimensions : Zero[d] = 0
  BY <1>0 DEF Stranger, Edge, Zero, Stages
<1>2. Rounded(0) = 0
  <2>1. Rounded(0 * Grain) = 0 * Grain
    BY RoundedTwice
  <2>. QED  BY <1>0, <2>1
<1>3. Stored(Stranger) = Stranger
  BY <1>1, <1>2, StoredEdge, SameEdge
<1>4. Owes(Stranger, Zero)
  BY <1>1 DEF Owes
<1>5. PendingL1(Stranger) = 0 /\ Rest \in Nat
  BY <1>0, <1>1, DivBounds DEF PendingL1, Abs, Dimensions, Rest
<1>6. Small(Stranger)
  BY <1>0, <1>5 DEF Small
<1>. QED  BY <1>1, <1>3, <1>4, <1>6, StageKept DEF Kept, Stages

-----------------------------------------------------------------------------
(* Sets in a row.                                                           *)

\* A set with 0 and the successor of each member holds every number: by the least
\* number outside it.
LEMMA NumberInduction ==
  ASSUME NEW I, 0 \in I, \A n \in Nat : n \in I => n + 1 \in I
  PROVE  Nat \subseteq I
<1> SUFFICES ASSUME Nat \ I # {} PROVE FALSE
  OBVIOUS
<1> DEFINE R == OpToRel(<, Nat)
<1>1. PICK n \in Nat \ I : \A m \in Nat \ I : ~ (<<m, n>> \in R)
  BY NatLessThanWellFounded, WFMin
<1>2. \A m \in Nat \ I : ~ (m < n)
  BY <1>1 DEF OpToRel
<1>3. n # 0 /\ n - 1 \in Nat /\ n - 1 \in I
  BY <1>2
<1>4. QED
  BY <1>3

\* A nonempty set of numbers has a smallest.
LEMMA SmallestOf ==
  ASSUME NEW S \in SUBSET Nat, S # {}
  PROVE  \E k \in S : \A m \in S : k <= m
<1>. DEFINE R == OpToRel(<, Nat)
<1>1. PICK k \in S : \A m \in S : ~(<<m, k>> \in R)
  BY NatLessThanWellFounded, WFMin
<1>2. \A m \in S : ~(m < k)
  BY <1>1 DEF OpToRel
<1>. QED  BY <1>2

\* seq lists the members of S in ascending order.
Ascends(seq, S) ==
  /\ seq \in [1..Cardinality(S) -> S]
  /\ \A m, n \in DOMAIN seq : m < n => seq[m] < seq[n]

\* Every finite set of numbers can be listed: the smallest in front of the rest.
LEMMA ListingExists ==
  ASSUME NEW S \in SUBSET Nat, IsFiniteSet(S)
  PROVE  \E seq : Ascends(seq, S)
<1>. DEFINE I == {n \in Nat : \A T \in SUBSET Nat :
                    IsFiniteSet(T) /\ Cardinality(T) = n => \E seq : Ascends(seq, T)}
<1>1. 0 \in I
  <2>. SUFFICES ASSUME NEW T \in SUBSET Nat, IsFiniteSet(T), Cardinality(T) = 0
                PROVE  \E seq : Ascends(seq, T)
    OBVIOUS
  <2>1. Ascends([n \in 1..Cardinality(T) |-> n], T)
    BY DEF Ascends
  <2>. QED  BY <2>1
<1>2. ASSUME NEW n \in Nat, n \in I PROVE n + 1 \in I
  <2>. SUFFICES ASSUME NEW T \in SUBSET Nat, IsFiniteSet(T), Cardinality(T) = n + 1
                PROVE  \E seq : Ascends(seq, T)
    OBVIOUS
  <2>1. T # {}
    BY FS_EmptySet
  <2>2. PICK least \in T : \A m \in T : least <= m
    BY <2>1, SmallestOf
  <2>. DEFINE U == T \ {least}
  <2>3. U \in SUBSET Nat /\ IsFiniteSet(U) /\ Cardinality(U) = n
    <3>1. IsFiniteSet(U) /\ Cardinality(U) = Cardinality(T) - 1
      BY <2>2, FS_RemoveElement
    <3>. QED  BY <3>1
  <2>4. \A m \in U : m \in T /\ m \in Nat /\ least < m
    BY <2>2
  <2>. HIDE DEF U
  <2>5. PICK rest : Ascends(rest, U)
    <3>1. \A V \in SUBSET Nat :
            IsFiniteSet(V) /\ Cardinality(V) = n => \E seq : Ascends(seq, V)
      BY <1>2
    <3>. QED  BY <2>3, <3>1
  <2>6. rest \in [1..n -> U] /\ \A i, k \in 1..n : i < k => rest[i] < rest[k]
    BY <2>3, <2>5 DEF Ascends
  <2>. DEFINE seq == [i \in 1..(n + 1) |-> IF i = 1 THEN least ELSE rest[i - 1]]
  <2>7. \A i \in 2..(n + 1) : i - 1 \in 1..n /\ seq[i] = rest[i - 1] /\ seq[i] \in U
    BY <2>6
  <2>8. seq[1] = least /\ DOMAIN seq = 1..(n + 1)
    OBVIOUS
  <2>9. seq \in [1..Cardinality(T) -> T]
    <3>1. \A i \in 1..(n + 1) : i = 1 \/ i \in 2..(n + 1)
      OBVIOUS
    <3>2. \A i \in 1..(n + 1) : seq[i] \in T
      <4>. HIDE DEF seq
      <4>. QED  BY <2>2, <2>4, <2>7, <2>8, <3>1
    <3>. QED  BY <3>2
  <2>. HIDE DEF seq
  <2>10. ASSUME NEW i \in 1..(n + 1), NEW k \in 1..(n + 1), i < k PROVE seq[i] < seq[k]
    <3>1. CASE i = 1
      <4>1. k \in 2..(n + 1)
        BY <2>10, <3>1
      <4>. QED  BY <2>4, <2>7, <2>8, <3>1, <4>1
    <3>2. CASE i # 1
      <4>1. i \in 2..(n + 1) /\ k \in 2..(n + 1) /\ i - 1 < k - 1
        BY <2>10, <3>2
      <4>. QED  BY <2>6, <2>7, <4>1
    <3>. QED  BY <3>1, <3>2
  <2>11. Ascends(seq, T)
    BY <2>8, <2>9, <2>10 DEF Ascends
  <2>. QED  BY <2>11
<1>3. Nat \subseteq I
  <2>. HIDE DEF I
  <2>. QED  BY <1>1, <1>2, NumberInduction
<1>4. Cardinality(S) \in I
  BY <1>3, FS_CardinalityType
<1>. QED  BY <1>4

\* InOrder lists a set, each member in some place.
LEMMA InOrderIs ==
  ASSUME NEW S \in SUBSET Nat, IsFiniteSet(S)
  PROVE  InOrder(S) \in Seq(S) /\ DOMAIN InOrder(S) = 1..Len(InOrder(S))
<1>1. \E seq \in [1..Cardinality(S) -> S] : \A m, n \in DOMAIN seq : m < n => seq[m] < seq[n]
  BY ListingExists DEF Ascends
<1>2. InOrder(S) \in [1..Cardinality(S) -> S]
  BY <1>1 DEF InOrder
<1>3. Cardinality(S) \in Nat
  BY FS_CardinalityType
<1>. QED  BY <1>2, <1>3

\* SetToSeq lists a finite set, each member once.
LEMMA SetToSeqIs ==
  ASSUME NEW S, IsFiniteSet(S)
  PROVE  /\ SetToSeq(S) \in Seq(S)
         /\ \A x \in S : \E n \in 1..Len(SetToSeq(S)) : SetToSeq(S)[n] = x
<1>1. Cardinality(S) \in Nat /\ ExistsBijection(1..Cardinality(S), S)
  BY FS_CardinalityType
<1>2. PICK f \in Bijection(1..Cardinality(S), S) : TRUE
  BY <1>1 DEF ExistsBijection
<1>3. f \in [1..Cardinality(S) -> S] /\ IsInjective(f)
  BY <1>2 DEF Bijection, Injection, IsInjective
<1>. DEFINE seq == SetToSeq(S)
<1>4. seq \in [1..Cardinality(S) -> S] /\ IsInjective(seq)
  BY <1>3 DEF SetToSeq
<1>. HIDE DEF seq
<1>5. seq \in Seq(S) /\ Len(seq) = Cardinality(S)
  BY <1>1, <1>4
<1>6. seq \in Injection(1..Cardinality(S), S)
  BY <1>4 DEF Injection, IsInjective
<1>7. IsFiniteSet(1..Cardinality(S)) /\ Cardinality(1..Cardinality(S)) = Cardinality(S)
  BY <1>1, FS_Interval
<1>8. seq \in Surjection(1..Cardinality(S), S)
  BY <1>6, <1>7, FS_Injection
<1>9. \A x \in S : \E n \in 1..Len(seq) : seq[n] = x
  BY <1>5, <1>8 DEF Surjection
<1>. QED  BY <1>5, <1>9 DEF seq

-----------------------------------------------------------------------------
(* Rows of tasks.                                                           *)

\* What a row of two rows holds comes from one of them.
LEMMA RowConcat ==
  ASSUME NEW X, NEW s \in Seq(X), NEW t \in Seq(X)
  PROVE  /\ s \o t \in Seq(X) /\ Len(s \o t) = Len(s) + Len(t)
         /\ \A n \in 1..Len(s) : (s \o t)[n] = s[n]
         /\ \A n \in 1..Len(s \o t) :
              \/ n \in 1..Len(s) /\ (s \o t)[n] = s[n]
              \/ n - Len(s) \in 1..Len(t) /\ (s \o t)[n] = t[n - Len(s)]
<1>. DEFINE r == s \o t
            k == Len(s)
            m == Len(t)
<1>1. /\ r \in Seq(X) /\ Len(r) = k + m /\ k \in Nat /\ m \in Nat
      /\ \A i \in 1..(k + m) : r[i] = IF i <= k THEN s[i] ELSE t[i - k]
  BY ConcatProperties, LenProperties
<1>. HIDE DEF r, k, m
<1>2. \A n \in 1..k : r[n] = s[n]
  BY <1>1
<1>3. \A n \in 1..Len(r) : \/ n \in 1..k /\ r[n] = s[n]
                           \/ n - k \in 1..m /\ r[n] = t[n - k]
  BY <1>1
<1>. QED  BY <1>1, <1>2, <1>3 DEF r, k, m

\* Something in front of a row.
LEMMA RowFront ==
  ASSUME NEW X, NEW x \in X, NEW s \in Seq(X)
  PROVE  /\ <<x>> \o s \in Seq(X) /\ <<x>> \o s # <<>> /\ Len(<<x>> \o s) = Len(s) + 1
         /\ Head(<<x>> \o s) = x /\ (<<x>> \o s)[1] = x
         /\ \A n \in 1..Len(<<x>> \o s) : n > 1 =>
              n - 1 \in 1..Len(s) /\ (<<x>> \o s)[n] = s[n - 1]
<1>. DEFINE u == <<x>>
            r == u \o s
            m == Len(s)
<1>1. u \in Seq(X) /\ Len(u) = 1 /\ u[1] = x
  OBVIOUS
<1>. HIDE DEF u
<1>2. /\ r \in Seq(X) /\ Len(r) = 1 + m /\ m \in Nat
      /\ \A i \in 1..(Len(u) + m) : r[i] = IF i <= Len(u) THEN u[i] ELSE s[i - Len(u)]
  <2>1. /\ u \o s \in Seq(X) /\ Len(u \o s) = Len(u) + Len(s)
        /\ \A i \in 1..(Len(u) + Len(s)) :
             (u \o s)[i] = IF i <= Len(u) THEN u[i] ELSE s[i - Len(u)]
    BY <1>1, ConcatProperties
  <2>. QED  BY <1>1, <2>1
<1>. HIDE DEF r, m
<1>3. /\ r[1] = x
      /\ \A n \in 1..Len(r) : n > 1 => n - 1 \in 1..m /\ r[n] = s[n - 1]
  <2>1. 1 \in 1..(Len(u) + m) /\ 1 <= Len(u)
    BY <1>1, <1>2
  <2>2. r[1] = x
    BY <1>1, <1>2, <2>1
  <2>3. ASSUME NEW n \in 1..Len(r), n > 1
        PROVE  n - 1 \in 1..m /\ r[n] = s[n - 1]
    <3>1. n \in 1..(Len(u) + m) /\ ~ (n <= Len(u)) /\ n - Len(u) = n - 1
          /\ n - 1 \in 1..m
      BY <1>1, <1>2, <2>3
    <3>2. r[n] = s[n - Len(u)]
      BY <1>2, <3>1
    <3>. QED  BY <3>1, <3>2
  <2>. QED  BY <2>2, <2>3
<1>4. r # <<>> /\ Head(r) = x
  BY <1>2, <1>3
<1>. QED  BY <1>2, <1>3, <1>4 DEF r, m, u

\* A row with an element is not empty.
LEMMA RowHas ==
  ASSUME NEW S, NEW row \in Seq(S), NEW n \in 1..Len(row)
  PROVE  row # <<>>
OBVIOUS

\* A row without its first.
LEMMA RowRest ==
  ASSUME NEW X, NEW s \in Seq(X), s # <<>>
  PROVE  /\ Tail(s) \in Seq(X) /\ Head(s) \in X /\ Head(s) = s[1] /\ Len(s) >= 1
         /\ 1 \in 1..Len(s) /\ Len(Tail(s)) = Len(s) - 1
         /\ \A n \in 1..Len(Tail(s)) : n + 1 \in 1..Len(s) /\ Tail(s)[n] = s[n + 1]
BY HeadTailProperties

-----------------------------------------------------------------------------
(* Types.                                                                   *)

Reading == {"interact", "feel", "stage", "cool", "muse"}

Making == {"interact", "feel", "stage"}

Rev(k) == <<k[2], k[1]>>

KeysOf(j) == {j.keys[n] : n \in 1..Len(j.keys)}

OneKey == {<<k>> : k \in Keys}

BothKeys == {<<k, Rev(k)>> : k \in {l \in Keys : l[2] \in Actors}}

Ways == {d.how : d \in UNION Scripts}

\* An insight into somebody is about another.
BeliefsOf(a) == {b \in Beliefs : b.kind = "person_insight" => <<a, b.about>> \in Keys}

\* What a worker may have to do: about one edge, about both of a pair, about an
\* actor, about what it believes.
Tasks ==
  [op : {"interact"}, keys : OneKey, how : Ways, way : {"incoming", "outgoing"}]
  \cup [op : {"feel"}, keys : OneKey, how : Ways]
  \cup [op : {"stage"}, keys : BothKeys, how : Ways]
  \cup [op : {"put"}, keys : OneKey, value : Edge]
  \cup [op : {"forget"}, keys : OneKey]
  \cup [op : {"cool"}, keys : OneKey, ticks : Int]
  \cup [op : {"muse"}, keys : OneKey, sure : 0..One]
  \cup [op : {"decay"}, who : Actors, ticks : Int]
  \cup [op : {"reflect"}, who : Actors]
  \cup {j \in [op : {"believe", "note"}, who : Actors, belief : Beliefs] :
          j.belief \in BeliefsOf(j.who)}
  \cup [op : {"end"}, who : SUBSET Actors]

TypeInv == TypeOK /\ jobs \in [Workers -> Seq(Tasks)]

\* A key names an actor and somebody else.
LEMMA KeyFacts ==
  /\ \A k \in Keys : /\ k[1] \in Actors /\ k[2] \in Others /\ k[1] # k[2]
                     /\ k = <<k[1], k[2]>> /\ k # None
  /\ \A a \in Actors, b \in Others : a # b => <<a, b>> \in Keys
  /\ \A k \in Keys : k[2] \in Actors => Rev(k) \in Keys /\ Rev(k) # k /\ Rev(Rev(k)) = k
  /\ Actors \subseteq Others /\ Others \subseteq Nat
  /\ \A a \in Actors : Home[a] \in Workers
  /\ None \notin Edge
BY EdgeAssumption DEF Keys, Others, Actors, Rev

\* A task about edges.
LEMMA KeyTasks ==
  ASSUME NEW j \in Tasks, j.op \in Reading \cup {"put", "forget"}
  PROVE  /\ j.keys \in Seq(Keys) /\ j.keys # <<>> /\ j.keys[1] \in Keys
         /\ j.op # "stage" => /\ j.keys = <<j.keys[1]>> /\ Len(j.keys) = 1
                              /\ KeysOf(j) = {j.keys[1]}
         /\ j.op = "stage" => /\ Len(j.keys) = 2 /\ j.keys[1][2] \in Actors
                              /\ j.keys[2] = Rev(j.keys[1])
                              /\ KeysOf(j) = {j.keys[1], Rev(j.keys[1])}
         /\ KeysOf(j) \subseteq Keys
         /\ j.op = "put" => j.value \in Edge
         /\ j.op = "cool" => j.ticks \in Int
         /\ j.op = "muse" => j.sure \in Int
<1>1. CASE j.op = "stage"
  <2>1. j.keys \in BothKeys
    BY <1>1 DEF Tasks
  <2>2. PICK k \in Keys : k[2] \in Actors /\ j.keys = <<k, Rev(k)>>
    BY <2>1 DEF BothKeys
  <2>3. Rev(k) \in Keys
    BY <2>2, KeyFacts
  <2>. QED  BY <1>1, <2>2, <2>3 DEF KeysOf
<1>2. CASE j.op # "stage"
  <2>1. j.keys \in OneKey
    BY <1>2 DEF Tasks, Reading
  <2>2. PICK k \in Keys : j.keys = <<k>>
    BY <2>1 DEF OneKey
  <2>3. /\ j.op = "put" => j.value \in Edge
        /\ j.op = "cool" => j.ticks \in Int
        /\ j.op = "muse" => j.sure \in Int
    BY DEF Tasks
  <2>. QED  BY <1>2, <2>2, <2>3 DEF KeysOf
<1>. QED  BY <1>1, <1>2

\* A task about an actor.
LEMMA ActorTasks ==
  ASSUME NEW j \in Tasks
  PROVE  /\ j.op = "decay" => j.who \in Actors /\ j.ticks \in Int
         /\ j.op = "reflect" => j.who \in Actors
         /\ j.op \in {"believe", "note"} =>
              j.who \in Actors /\ j.belief \in BeliefsOf(j.who) /\ j.belief \in Beliefs
         /\ j.op = "end" => j.who \subseteq Actors
<1>1. j.op \in {"believe", "note"} => j.who \in Actors /\ j.belief \in BeliefsOf(j.who)
  BY DEF Tasks
<1>2. \A a : BeliefsOf(a) \subseteq Beliefs
  BY DEF BeliefsOf
<1>3. /\ j.op = "decay" => j.who \in Actors /\ j.ticks \in Int
      /\ j.op = "reflect" => j.who \in Actors
      /\ j.op = "end" => j.who \subseteq Actors
  BY DEF Tasks
<1>. QED  BY <1>1, <1>2, <1>3

\* The tasks a worker sets itself.
LEMMA TaskMakes ==
  /\ \A k \in Keys : /\ [op |-> "forget", keys |-> <<k>>] \in Tasks
                     /\ \A e \in Edge : [op |-> "put", keys |-> <<k>>, value |-> e] \in Tasks
                     /\ \A t \in Int : [op |-> "cool", keys |-> <<k>>, ticks |-> t] \in Tasks
                     /\ \A s \in 0..One : [op |-> "muse", keys |-> <<k>>, sure |-> s] \in Tasks
  /\ \A a \in Actors :
       /\ [op |-> "reflect", who |-> a] \in Tasks
       /\ \A t \in Int : [op |-> "decay", who |-> a, ticks |-> t] \in Tasks
       /\ \A b \in BeliefsOf(a) : /\ [op |-> "believe", who |-> a, belief |-> b] \in Tasks
                                  /\ [op |-> "note", who |-> a, belief |-> b] \in Tasks
  /\ \A S \in SUBSET Actors : [op |-> "end", who |-> S] \in Tasks
<1>1. \A k \in Keys : <<k>> \in OneKey
  BY DEF OneKey
<1>2. \A a \in Actors : \A b \in BeliefsOf(a) :
        /\ [op |-> "believe", who |-> a, belief |-> b] \in Tasks
        /\ [op |-> "note", who |-> a, belief |-> b] \in Tasks
  <2>. SUFFICES ASSUME NEW a \in Actors, NEW b \in BeliefsOf(a),
                       NEW o \in {"believe", "note"}
                PROVE  [op |-> o, who |-> a, belief |-> b] \in Tasks
    OBVIOUS
  <2>1. [op |-> o, who |-> a, belief |-> b]
          \in [op : {"believe", "note"}, who : Actors, belief : Beliefs]
    BY DEF BeliefsOf
  <2>. QED  BY <2>1 DEF Tasks
<1>. QED  BY <1>1, <1>2 DEF Tasks

\* The tasks a deed brings.
LEMMA DeedTasks ==
  ASSUME NEW script \in Scripts, NEW d \in script
  PROVE  /\ JobsOf(d) \in Seq(Tasks)
         /\ \A n \in 1..Len(JobsOf(d)) : JobsOf(d)[n].op \in Making
<1>. DEFINE mine == <<d.who, d.whom>>
            theirs == <<d.whom, d.who>>
<1>1. /\ d.what \in {"hears", "says", "acts", "feels"} /\ mine \in Keys
      /\ d.what \in {"says", "acts"} => d.whom \in Actors
  BY EdgeAssumption
<1>2. d.how \in Ways
  BY DEF Ways
<1>3. mine[1] = d.who /\ mine[2] = d.whom
  OBVIOUS
<1>4. d.what = "acts" => theirs \in Keys /\ theirs = Rev(mine) /\ mine[2] \in Actors
  BY <1>1, <1>3, KeyFacts DEF Rev
<1>. HIDE DEF mine, theirs
<1>5. \A k \in Keys, way \in {"incoming", "outgoing"} :
        Interact(k, d.how, way) \in Tasks /\ Interact(k, d.how, way).op = "interact"
  <2>1. \A k \in Keys : <<k>> \in OneKey
    BY DEF OneKey
  <2>. QED  BY <1>2, <2>1 DEF Interact, Tasks
<1>6. [op |-> "feel", keys |-> <<mine>>, how |-> d.how] \in Tasks
  <2>1. <<mine>> \in OneKey
    BY <1>1 DEF OneKey
  <2>. QED  BY <1>2, <2>1 DEF Tasks
<1>7. d.what = "acts" => [op |-> "stage", keys |-> <<mine, theirs>>, how |-> d.how] \in Tasks
  <2>1. d.what = "acts" => <<mine, theirs>> \in BothKeys
    BY <1>1, <1>4 DEF BothKeys
  <2>. QED  BY <1>2, <2>1 DEF Tasks
<1>8. CASE d.what = "hears"
  <2>1. JobsOf(d) = <<Interact(mine, d.how, "incoming")>>
    BY <1>8 DEF JobsOf, mine
  <2>. QED  BY <1>1, <1>5, <2>1 DEF Making
<1>9. CASE d.what = "says"
  <2>1. JobsOf(d) = <<Interact(mine, d.how, "outgoing")>>
    BY <1>9 DEF JobsOf, mine
  <2>. QED  BY <1>1, <1>5, <2>1 DEF Making
<1>10. CASE d.what = "feels"
  <2>1. JobsOf(d) = <<[op |-> "feel", keys |-> <<mine>>, how |-> d.how]>>
    BY <1>10 DEF JobsOf, mine
  <2>. QED  BY <1>6, <2>1 DEF Making
<1>11. CASE d.what = "acts"
  <2>. DEFINE out == Interact(mine, d.how, "outgoing")
              in == Interact(theirs, d.how, "incoming")
              stage == [op |-> "stage", keys |-> <<mine, theirs>>, how |-> d.how]
  <2>1. JobsOf(d) = <<out, in>> \o (IF d.how \in {"confess", "sever"} THEN <<stage>> ELSE <<>>)
    BY <1>11 DEF JobsOf, mine, theirs
  <2>2. /\ out \in Tasks /\ in \in Tasks /\ stage \in Tasks
        /\ out.op \in Making /\ in.op \in Making /\ stage.op \in Making
    BY <1>1, <1>4, <1>5, <1>7, <1>11 DEF Making
  <2>. HIDE DEF out, in, stage
  <2>3. CASE d.how \in {"confess", "sever"}
    <3>. DEFINE s == <<out, in>>
                t == <<stage>>
    <3>1. /\ s \in Seq(Tasks) /\ t \in Seq(Tasks)
          /\ \A n \in 1..Len(s) : s[n].op \in Making
          /\ \A n \in 1..Len(t) : t[n].op \in Making
      BY <2>2
    <3>2. JobsOf(d) = s \o t
      BY <2>1, <2>3
    <3>. HIDE DEF s, t
    <3>. QED  BY <3>1, <3>2, RowConcat
  <2>4. CASE d.how \notin {"confess", "sever"}
    <3>1. JobsOf(d) = <<out, in>>
      BY <2>1, <2>2, <2>4
    <3>. QED  BY <2>2, <3>1
  <2>. QED  BY <2>3, <2>4
<1>. QED  BY <1>1, <1>8, <1>9, <1>10, <1>11

-----------------------------------------------------------------------------
(* What an actor concludes.                                                 *)

\* The numbers of reflection.
LEMMA Certainties ==
  /\ One \in Nat /\ One > 0 /\ Faded \in Nat /\ Restate \in Nat /\ Restate > 0
  /\ SupportTrust \in Nat /\ SupportIntimacy \in Nat /\ ThreatAt \in Nat /\ FeltAt \in Nat
  /\ Faded + Restate <= (SupportTrust + SupportIntimacy) \div 2
  /\ Faded + Restate <= ThreatAt /\ Faded + Restate <= FeltAt /\ FeltAt <= One
<1>1. /\ One \in Nat /\ One > 0 /\ Faded \in Nat /\ Restate \in Nat /\ Restate > 0
      /\ SupportTrust \in Nat /\ SupportIntimacy \in Nat /\ ThreatAt \in Nat /\ FeltAt \in Nat
      /\ FeltAt <= One
  BY ReflectionAssumption, Decimals
<1>2. (SupportTrust + SupportIntimacy) \div 2 \in Int
  BY <1>1, DivBounds
<1>. QED  BY <1>1, <1>2, ReflectionAssumption

\* There are finitely many slots, and finitely many beliefs.
LEMMA SlotsFinite == IsFiniteSet(Slots)
<1>. DEFINE K == RuleKinds \cup InsightKinds
            A == Others \cup {Nobody}
<1>1. IsFiniteSet(K)
  <2>1. K = {"supporter", "threat", "felt_support", "self_image", "world_view", "person_insight"}
    BY DEF RuleKinds, InsightKinds
  <2>2. IsFiniteSet({}) /\ \A U, x : IsFiniteSet(U) => IsFiniteSet(U \cup {x})
    BY FS_EmptySet, FS_AddElement
  <2>3. IsFiniteSet({} \cup {"supporter"} \cup {"threat"} \cup {"felt_support"}
                     \cup {"self_image"} \cup {"world_view"} \cup {"person_insight"})
    BY <2>2
  <2>4. K = {} \cup {"supporter"} \cup {"threat"} \cup {"felt_support"}
              \cup {"self_image"} \cup {"world_view"} \cup {"person_insight"}
    BY <2>1
  <2>. QED  BY <2>3, <2>4
<1>2. IsFiniteSet(A)
  BY EdgeAssumption, FS_AddElement
<1>3. Slots = K \X A
  BY DEF Slots
<1>. HIDE DEF K, A
<1>. QED  BY <1>1, <1>2, <1>3, FS_Product

\* There are finitely many beliefs: kinds, subjects and degrees are.
LEMMA BeliefsFinite ==
  ASSUME NEW S \in SUBSET Beliefs
  PROVE  IsFiniteSet(S)
<1>. DEFINE T == Slots \X (0..One)
            f == [b \in Beliefs |-> <<<<b.kind, b.about>>, b.sure>>]
<1>1. IsFiniteSet(0..One)
  BY Certainties, FS_Interval
<1>2. IsFiniteSet(T)
  BY <1>1, SlotsFinite, FS_Product
<1>3. \A b \in Beliefs : f[b] \in T
  BY DEF Beliefs, Slots
<1>4. \A b, c \in Beliefs : f[b] = f[c] => b = c
  BY DEF Beliefs
<1>5. f \in Injection(Beliefs, T)
  <2>. HIDE DEF T
  <2>1. f \in [Beliefs -> T]
    BY <1>3
  <2>. QED  BY <1>4, <2>1 DEF Injection, IsInjective
<1>. HIDE DEF f, T
<1>. QED  BY <1>2, <1>5, FS_Injection, FS_Subset

\* The rules state what is certain enough.
LEMMA DerivedIs ==
  ASSUME NEW edges, DOMAIN edges \subseteq Others, \A b \in DOMAIN edges : edges[b] \in Edge,
         NEW grateful \in SUBSET Others
  PROVE  \A x \in Derived(edges, grateful) :
           x \in Beliefs /\ x.kind \in RuleKinds /\ x.sure >= Faded + Restate
<1>. SUFFICES ASSUME NEW x \in Derived(edges, grateful)
              PROVE  x \in Beliefs /\ x.kind \in RuleKinds /\ x.sure >= Faded + Restate
  OBVIOUS
<1>. DEFINE dims(b) == edges[b].dims
<1>1. \A b \in DOMAIN edges : \A d \in Dimensions :
        dims(b)[d] \in Int /\ -One <= dims(b)[d] /\ dims(b)[d] <= One
  BY Decimals DEF Edge
<1>2. {"trust", "intimacy", "resentment"} \subseteq Dimensions
  BY DEF Dimensions
<1>3. \A kind \in RuleKinds, b \in Others, sure \in 0..One :
        /\ Belief(kind, b, sure) \in Beliefs /\ Belief(kind, b, sure).kind = kind
        /\ Belief(kind, b, sure).sure = sure
  BY DEF Belief, Beliefs
<1>4. CASE \E b \in DOMAIN edges :
             /\ dims(b)["trust"] >= SupportTrust /\ dims(b)["intimacy"] >= SupportIntimacy
             /\ x = Belief("supporter", b, (dims(b)["trust"] + dims(b)["intimacy"]) \div 2)
  <2>1. PICK b \in DOMAIN edges :
             /\ dims(b)["trust"] >= SupportTrust /\ dims(b)["intimacy"] >= SupportIntimacy
             /\ x = Belief("supporter", b, (dims(b)["trust"] + dims(b)["intimacy"]) \div 2)
    BY <1>4
  <2>. DEFINE u == dims(b)["trust"]
              v == dims(b)["intimacy"]
  <2>2. u \in Int /\ v \in Int /\ u <= One /\ v <= One /\ u >= SupportTrust /\ v >= SupportIntimacy
    BY <1>1, <1>2, <2>1
  <2>. HIDE DEF u, v
  <2>3. /\ (u + v) \div 2 \in Int /\ 2 * ((u + v) \div 2) <= u + v /\ u + v < 2 * ((u + v) \div 2) + 2
        /\ (SupportTrust + SupportIntimacy) \div 2 \in Int
        /\ 2 * ((SupportTrust + SupportIntimacy) \div 2) <= SupportTrust + SupportIntimacy
    BY <2>2, Certainties, DivBounds
  <2>4. (u + v) \div 2 \in 0..One /\ (u + v) \div 2 >= Faded + Restate
    BY <2>2, <2>3, Certainties
  <2>. HIDE DEF dims
  <2>. QED  BY <1>3, <2>1, <2>4 DEF RuleKinds, u, v
<1>5. CASE \E b \in DOMAIN edges :
             dims(b)["resentment"] >= ThreatAt /\ x = Belief("threat", b, dims(b)["resentment"])
  <2>1. PICK b \in DOMAIN edges :
             dims(b)["resentment"] >= ThreatAt /\ x = Belief("threat", b, dims(b)["resentment"])
    BY <1>5
  <2>2. /\ dims(b)["resentment"] \in 0..One
        /\ dims(b)["resentment"] >= Faded + Restate
    BY <1>1, <1>2, <2>1, Certainties
  <2>. HIDE DEF dims
  <2>. QED  BY <1>3, <2>1, <2>2 DEF RuleKinds
<1>6. CASE \E b \in grateful : x = Belief("felt_support", b, FeltAt)
  <2>1. FeltAt \in 0..One /\ FeltAt >= Faded + Restate
    BY Certainties
  <2>. QED  BY <1>3, <1>6, <2>1 DEF RuleKinds
<1>. QED  BY <1>4, <1>5, <1>6 DEF Derived

\* What is taken back is what the rules no longer state.
LEMMA RetractedIs ==
  ASSUME NEW known, DOMAIN known \subseteq Slots, NEW derived
  PROVE  /\ \A x \in Retracted(known, derived) :
              /\ x \in Beliefs /\ x.kind \in RuleKinds /\ x.sure = Faded
              /\ Slot(x) \notin {Slot(b) : b \in derived}
         /\ \A s \in DOMAIN known : s[1] \in RuleKinds /\ s \notin {Slot(b) : b \in derived} =>
              \E x \in Retracted(known, derived) : Slot(x) = s
<1>. DEFINE old == {s \in DOMAIN known : s[1] \in RuleKinds} \ {Slot(b) : b \in derived}
<1>1. Retracted(known, derived) = {Belief(s[1], s[2], Faded) : s \in old}
  BY DEF Retracted
<1>2. Faded \in 0..One
  BY Certainties
<1>3. \A s \in old : /\ s = <<s[1], s[2]>> /\ s[1] \in RuleKinds
                     /\ s[2] \in Others \cup {Nobody}
                     /\ s \notin {Slot(b) : b \in derived}
  BY DEF Slots
<1>4. \A s \in old : LET x == Belief(s[1], s[2], Faded)
                     IN /\ x \in Beliefs /\ x.kind = s[1] /\ x.sure = Faded /\ Slot(x) = s
  BY <1>2, <1>3 DEF Belief, Beliefs, Slot
<1>. HIDE DEF old
<1>5. \A x \in Retracted(known, derived) :
        /\ x \in Beliefs /\ x.kind \in RuleKinds /\ x.sure = Faded
        /\ Slot(x) \notin {Slot(b) : b \in derived}
  BY <1>1, <1>3, <1>4
<1>6. \A s \in old : \E x \in Retracted(known, derived) : Slot(x) = s
  BY <1>1, <1>4
<1>. QED  BY <1>5, <1>6 DEF old

\* What is accepted of a model's answer.
LEMMA InsightsAre ==
  ASSUME NEW p \in Proposals, NEW known \in SUBSET Others
  PROVE  \A x \in Insights(p, known) : x \in Beliefs /\ x.kind \in InsightKinds
                                       /\ (x.kind = "person_insight" => x.about \in known)
<1>. DEFINE about == IF p.kind = "person_insight" /\ p.about \in known THEN p.about ELSE Nobody
            sure == Within(0, One, p.sure)
<1>1. sure \in 0..One
  BY Decimals, EdgeAssumption DEF Within
<1>2. about \in Others \cup {Nobody}
  OBVIOUS
<1>3. \A x \in Insights(p, known) :
        /\ p.kind \in InsightKinds /\ x = Belief(p.kind, about, sure)
        /\ p.kind = "person_insight" => about \in known
  BY DEF Insights
<1>. HIDE DEF about, sure
<1>4. p.kind \in InsightKinds =>
        /\ Belief(p.kind, about, sure) \in Beliefs
        /\ Belief(p.kind, about, sure).kind = p.kind
        /\ Belief(p.kind, about, sure).about = about
  BY <1>1, <1>2 DEF Belief, Beliefs
<1>. QED  BY <1>3, <1>4

-----------------------------------------------------------------------------
(* What a worker does next.                                                 *)

\* The task in front.
LEMMA JobFacts ==
  ASSUME TypeInv, NEW w \in Workers, jobs[w] # <<>>
  PROVE  /\ jobs[w] \in Seq(Tasks) /\ Job(w) \in Tasks /\ Job(w) = jobs[w][1]
         /\ Tail(jobs[w]) \in Seq(Tasks) /\ 1 \in 1..Len(jobs[w])
         /\ Finished(w) \in [Workers -> Seq(Tasks)]
         /\ \A x \in Tasks : [jobs EXCEPT ![w] = <<x>> \o Tail(@)] \in [Workers -> Seq(Tasks)]
         /\ \A s \in Seq(Tasks) : [jobs EXCEPT ![w] = s \o Tail(@)] \in [Workers -> Seq(Tasks)]
<1>1. jobs \in [Workers -> Seq(Tasks)] /\ jobs[w] \in Seq(Tasks)
  BY DEF TypeInv
<1>2. /\ Tail(jobs[w]) \in Seq(Tasks) /\ Head(jobs[w]) \in Tasks
      /\ Head(jobs[w]) = jobs[w][1] /\ 1 \in 1..Len(jobs[w])
  BY <1>1, RowRest
<1>3. \A x \in Tasks : <<x>> \o Tail(jobs[w]) \in Seq(Tasks)
  BY <1>2, RowFront
<1>4. \A s \in Seq(Tasks) : s \o Tail(jobs[w]) \in Seq(Tasks)
  BY <1>2, RowConcat
<1>. QED  BY <1>1, <1>2, <1>3, <1>4 DEF Job, Finished

\* A task about edges.
LEMMA DoingKeys ==
  ASSUME TypeInv, NEW w \in Workers, NEW ops, ops \subseteq Reading \cup {"put", "forget"},
         Doing(w, ops)
  PROVE  /\ jobs[w] # <<>> /\ Job(w) \in Tasks /\ Job(w).op \in ops
         /\ KeysOf(Job(w)) \subseteq Keys
         /\ Job(w).keys[1] \in Keys /\ Job(w).keys[1] \in KeysOf(Job(w))
         /\ Job(w).op # "stage" => KeysOf(Job(w)) = {Job(w).keys[1]}
         /\ Job(w).op = "stage" => /\ Job(w).keys[2] = Rev(Job(w).keys[1])
                                   /\ Rev(Job(w).keys[1]) \in Keys
                                   /\ Job(w).keys[1][2] \in Actors
                                   /\ KeysOf(Job(w)) = {Job(w).keys[1], Rev(Job(w).keys[1])}
<1>1. jobs[w] # <<>> /\ Job(w).op \in ops
  BY DEF Doing
<1>2. Job(w) \in Tasks
  BY <1>1, JobFacts
<1>. QED  BY <1>1, <1>2, KeyTasks

\* The next key is one of the task's, not read yet.
LEMMA NextKeyIs ==
  ASSUME TypeInv, NEW w \in Workers, Loading(w)
  PROVE  /\ NextKey(w) \in KeysOf(Job(w)) /\ NextKey(w) \in Keys
         /\ hand[w][NextKey(w)] = None /\ crowded[w] = None
         /\ Doing(w, Reading)
<1>1. Doing(w, Reading) /\ crowded[w] = None
  BY DEF Loading, Reading
<1>. DEFINE keys == Job(w).keys
            left == {n \in 1..Len(keys) : hand[w][keys[n]] = None}
            n0 == CHOOSE n \in left : \A m \in left : n <= m
<1>2. keys \in Seq(Keys)
  <2>1. jobs[w] # <<>> /\ Job(w).op \in Reading /\ Job(w) \in Tasks
    BY <1>1, DoingKeys
  <2>. QED  BY <2>1, KeyTasks
<1>3. left # {} /\ left \in SUBSET Nat
  BY <1>2 DEF Loading
<1>4. \E n \in left : \A m \in left : n <= m
  <2>. HIDE DEF left
  <2>. QED  BY <1>3, SmallestOf
<1>5. n0 \in left
  BY <1>4
<1>6. NextKey(w) = keys[n0]
  BY DEF NextKey
<1>. HIDE DEF n0
<1>7. n0 \in 1..Len(keys) /\ hand[w][keys[n0]] = None
  BY <1>5
<1>8. keys[n0] \in KeysOf(Job(w)) /\ keys[n0] \in Keys
  BY <1>2, <1>7 DEF KeysOf
<1>. QED  BY <1>1, <1>6, <1>7, <1>8

\* All keys of the task are read.
LEMMA InHandIs ==
  ASSUME TypeInv, NEW w \in Workers, InHand(w)
  PROVE  /\ Doing(w, Reading) /\ crowded[w] = None /\ jobs[w] # <<>>
         /\ \A k \in KeysOf(Job(w)) : k \in Keys /\ hand[w][k] # None /\ hand[w][k] \in Edge
<1>1. Doing(w, Reading) /\ crowded[w] = None /\ ~Loading(w)
  BY DEF InHand, Reading
<1>2. KeysOf(Job(w)) \subseteq Keys /\ jobs[w] # <<>>
  BY <1>1, DoingKeys
<1>3. \A k \in KeysOf(Job(w)) : hand[w][k] # None
  BY <1>1 DEF Loading, KeysOf, Doing, Reading
<1>4. \A k \in Keys : hand[w][k] \in Edge \cup {None}
  BY DEF TypeInv, TypeOK
<1>. QED  BY <1>1, <1>2, <1>3, <1>4

\* What is written of a changed edge.
LEMMA SaveFacts ==
  ASSUME TypeInv, NEW w \in Workers, Save(w)
  PROVE  LET k == Job(w).keys[1]
             c == Changed(Job(w), hand[w][k])
             kept == Stored(IF Job(w).op = "muse" THEN c ELSE Settled(c))
         IN /\ k \in Keys /\ KeysOf(Job(w)) = {k} /\ Doing(w, Reading)
            /\ Job(w).op \in {"interact", "feel", "cool", "muse"} /\ jobs[w] # <<>>
            /\ hand[w][k] \in Edge /\ hand[w][k] # None
            /\ Grown(hand[w][k], c) /\ c \in Edge
            /\ kept \in Edge /\ Stored(kept) = kept /\ kept.stage = hand[w][k].stage
            /\ edge' = [edge EXCEPT ![k] = kept]
<1>. DEFINE k == Job(w).keys[1]
            c == Changed(Job(w), hand[w][k])
            e == IF Job(w).op = "muse" THEN c ELSE Settled(c)
<1>1. InHand(w) /\ Job(w).op # "stage"
  BY DEF Save
<1>2. Doing(w, Reading) /\ jobs[w] # <<>>
  BY <1>1, InHandIs
<1>3. /\ k \in Keys /\ k \in KeysOf(Job(w)) /\ KeysOf(Job(w)) = {k}
      /\ Job(w).op \in Reading /\ Job(w) \in Tasks
  BY <1>1, <1>2, DoingKeys
<1>4. hand[w][k] \in Edge /\ hand[w][k] # None
  BY <1>1, <1>3, InHandIs
<1>5. Job(w).op \in {"interact", "feel", "cool", "muse"}
  BY <1>1, <1>3 DEF Reading
<1>6. /\ Job(w).op = "cool" => Job(w).ticks \in Int
      /\ Job(w).op = "muse" => Job(w).sure \in Int
  BY <1>3, <1>5, KeyTasks
<1>7. Grown(hand[w][k], c)
  <2>. HIDE DEF k
  <2>. QED  BY <1>4, <1>5, <1>6, ChangedGrows
<1>8. c \in Edge /\ c.stage = hand[w][k].stage
  BY <1>7 DEF Grown
<1>9. e \in Edge /\ e.stage = c.stage
  <2>. HIDE DEF c
  <2>. QED  BY <1>8, SavedTold DEF Settled, ConsumePending, Edge
<1>10. edge' = [edge EXCEPT ![k] = Stored(e)]
  BY DEF Save
<1>. HIDE DEF e, c, k
<1>11. Stored(e) \in Edge /\ Stored(Stored(e)) = Stored(e) /\ Stored(e).stage = e.stage
  BY <1>9, StoredEdge, StoredTwice
<1>. QED  BY <1>2, <1>3, <1>4, <1>5, <1>7, <1>8, <1>9, <1>10, <1>11 DEF e, c, k

\* The verdict over two edges.
LEMMA VerdictIs ==
  ASSUME NEW how, NEW mine, NEW theirs
  PROVE  LET v == StageAfterAction(how, mine, theirs)
         IN /\ v.stages \in {{}, {"romantic"}, {"stranger"}}
            /\ v.milestone \in {"none", "confession_accepted", "confession_declined", "severed"}
BY DEF StageAfterAction, NoTransition

\* What is written and what is left to write when an action changes a stage.
LEMMA JudgeFacts ==
  ASSUME TypeInv, NEW w \in Workers, Judge(w)
  PROVE  \E s \in Stages \cup {"same"} :
         LET k == Job(w).keys[1]
             l == Rev(k)
             after(e) == IF s = "same" THEN e ELSE TransitionStage(e, s)
         IN /\ k \in Keys /\ l \in Keys /\ k[2] \in Actors /\ k # l /\ KeysOf(Job(w)) = {k, l}
            /\ Doing(w, {"stage"}) /\ jobs[w] # <<>> /\ crowded[w] = None
            /\ hand[w][k] \in Edge /\ hand[w][k] # None
            /\ hand[w][l] \in Edge /\ hand[w][l] # None
            /\ after(hand[w][k]) \in Edge /\ after(hand[w][l]) \in Edge
            /\ edge' = [edge EXCEPT ![k] = Stored(after(hand[w][k]))]
            /\ jobs' = [jobs EXCEPT ![w] =
                 <<[op |-> "put", keys |-> <<l>>, value |-> after(hand[w][l])]>> \o Tail(@)]
            /\ \/ told' = told
               \/ \E m \in {"confession_accepted", "confession_declined", "severed"} :
                    told' = [told EXCEPT ![w][k] = Append(@, News(k, m, hand[w][k].dims))]
<1>. DEFINE k == Job(w).keys[1]
            l == Rev(k)
            v == StageAfterAction(Job(w).how, hand[w][k], hand[w][l])
            s == IF v.stages = {} THEN "same" ELSE CHOOSE x \in v.stages : TRUE
            after(e) == IF s = "same" THEN e ELSE TransitionStage(e, s)
<1>1. InHand(w) /\ Job(w).op = "stage"
  BY DEF Judge
<1>2. Doing(w, Reading) /\ jobs[w] # <<>> /\ crowded[w] = None
  BY <1>1, InHandIs
<1>3. /\ k \in Keys /\ l \in Keys /\ k[2] \in Actors /\ KeysOf(Job(w)) = {k, l}
      /\ Job(w).keys[2] = l
  BY <1>1, <1>2, DoingKeys
<1>4. /\ hand[w][k] \in Edge /\ hand[w][k] # None
      /\ hand[w][l] \in Edge /\ hand[w][l] # None
  BY <1>1, <1>3, InHandIs
<1>5. /\ v.stages \in {{}, {"romantic"}, {"stranger"}}
      /\ v.milestone \in {"none", "confession_accepted", "confession_declined", "severed"}
  BY VerdictIs
<1>6. s \in Stages \cup {"same"} /\ (s = "same" <=> v.stages = {})
  BY <1>5 DEF Stages
<1>7. \A e \in Edge : after(e) \in Edge
  <2>. HIDE DEF s
  <2>. QED  BY <1>6 DEF TransitionStage, Edge
<1>8. \A e : after(e) = IF v.stages = {} THEN e
                         ELSE TransitionStage(e, CHOOSE x \in v.stages : TRUE)
  BY <1>6
<1>9. /\ edge' = [edge EXCEPT ![k] = Stored(after(hand[w][k]))]
      /\ jobs' = [jobs EXCEPT ![w] =
           <<[op |-> "put", keys |-> <<l>>, value |-> after(hand[w][l])]>> \o Tail(@)]
  <2>. HIDE DEF after, s
  <2>. QED  BY Zenon, <1>3, <1>8 DEF Judge
<1>10. \/ told' = told
       \/ \E m \in {"confession_accepted", "confession_declined", "severed"} :
            told' = [told EXCEPT ![w][k] = Append(@, News(k, m, hand[w][k].dims))]
  BY <1>3, <1>5 DEF Judge, Tell
<1>11. Doing(w, {"stage"}) /\ k # l
  BY <1>1, <1>2, <1>3, KeyFacts DEF Doing
<1>. HIDE DEF v, after
<1>. QED  BY Zenon, <1>2, <1>3, <1>4, <1>6, <1>7, <1>9, <1>10, <1>11 DEF after

-----------------------------------------------------------------------------
(* Every step keeps the types.                                              *)

\* A piece of news.
LEMMA NewsIs ==
  /\ \A k \in Keys, dims \in [Dimensions -> Int],
       type \in {"met", "changed", "confession_accepted", "confession_declined", "severed"} :
         /\ News(k, type, dims) \in Event /\ News(k, type, dims).type = type
         /\ News(k, type, dims).dims = dims
  /\ \A e \in Edge : e.dims \in [Dimensions -> Int]
  /\ Zero \in [Dimensions -> Int]
<1>1. \A e \in Edge : e.dims \in [Dimensions -> Int]
  <2>. SUFFICES ASSUME NEW e \in Edge PROVE e.dims \in [Dimensions -> Int]
    OBVIOUS
  <2>1. e.dims \in [Dimensions -> -One..One] /\ One \in Nat
    BY Decimals DEF Edge
  <2>. QED  BY <2>1
<1>. QED  BY <1>1 DEF News, Event, Zero

\* Nothing in hand.
LEMMA Nothing ==
  /\ Empty \in [Keys -> Edge \cup {None}] /\ \A k \in Keys : Empty[k] = None
  /\ Silence \in [Keys -> Seq(Event)] /\ \A k \in Keys : Silence[k] = <<>>
BY DEF Empty, Silence

\* A worker with one more event to append.
LEMMA ToldMore ==
  ASSUME TypeInv, NEW w \in Workers, NEW k \in Keys, NEW x \in Event
  PROVE  [told EXCEPT ![w][k] = Append(@, x)] \in [Workers -> [Keys -> Seq(Event)]]
<1>1. told[w][k] \in Seq(Event) /\ told \in [Workers -> [Keys -> Seq(Event)]]
  BY DEF TypeInv, TypeOK
<1>2. Append(told[w][k], x) \in Seq(Event)
  BY <1>1, AppendProperties
<1>. QED  BY <1>1, <1>2

\* The town starts well typed.
LEMMA TypeInit == Init => TypeInv
<1>. SUFFICES ASSUME Init PROVE TypeInv
  OBVIOUS
<1>1. ledger = [a \in Actors |-> [s \in {} |-> 0]]
  BY DEF Init
<1>2. /\ DOMAIN ledger = Actors
      /\ \A a \in Actors : /\ DOMAIN ledger[a] \subseteq Slots
                           /\ ledger[a] \in [DOMAIN ledger[a] -> 0..One]
  BY <1>1
<1>3. jobs \in [Workers -> Seq(Tasks)] /\ story \in [Keys -> Seq(Event)]
      /\ formed \in [Actors -> Seq(Beliefs)]
  BY DEF Init
<1>4. /\ hand \in [Workers -> [Keys -> Edge \cup {None}]]
      /\ told \in [Workers -> [Keys -> Seq(Event)]]
  BY Nothing DEF Init
<1>5. \E script \in Scripts : deeds \subseteq script
  BY DEF Init
<1>6. faults \in 0..MaxFaults
  BY EdgeAssumption DEF Init
<1>. QED  BY <1>2, <1>3, <1>4, <1>5, <1>6 DEF Init, TypeInv, TypeOK

\* The tasks of a new tick.
LEMMA StartFacts ==
  ASSUME TypeInv, NEW w \in Workers, StartTick(w)
  PROVE  /\ jobs[w] = <<>> /\ told[w] = Silence /\ jobs' = [jobs EXCEPT ![w] = jobs'[w]]
         /\ jobs'[w] \in Seq(Tasks)
         /\ \A n \in 1..Len(jobs'[w]) : /\ jobs'[w][n].op \in Making \cup {"decay", "reflect", "end"}
                                        /\ jobs'[w][n].op \in {"reflect", "decay"}
                                             => Home[jobs'[w][n].who] = w
<1>. DEFINE residents == {a \in Actors : Home[a] = w}
            Good(j) == /\ j.op \in Making \cup {"decay", "reflect", "end"}
                       /\ j.op \in {"reflect", "decay"} => Home[j.who] = w
<1>1. PICK awake \in SUBSET residents :
        LET plan == {a \in awake : settled[a] < clock}
            rest == DecayJobs(plan, clock) \o ReflectJobs(plan, clock)
                    \o <<[op |-> "end", who |-> plan]>>
        IN \/ \E d \in {x \in deeds : x.who \in residents} :
                /\ jobs' = [jobs EXCEPT ![w] = JobsOf(d) \o rest]
                /\ deeds' = deeds \ {d}
           \/ /\ jobs' = [jobs EXCEPT ![w] = rest]
              /\ UNCHANGED deeds
  BY DEF StartTick
<1>. DEFINE plan == {a \in awake : settled[a] < clock}
            s == DecayJobs(plan, clock)
            t == ReflectJobs(plan, clock)
            u == <<[op |-> "end", who |-> plan]>>
            rest == s \o t \o u
<1>2. plan \subseteq Actors /\ \A a \in plan : Home[a] = w
  OBVIOUS
<1>3. clock \in Nat /\ settled \in [Actors -> Nat] /\ jobs \in [Workers -> Seq(Tasks)]
  BY DEF TypeInv, TypeOK
<1>4. IsFiniteSet(plan) /\ plan \in SUBSET Nat
  BY <1>2, KeyFacts, EdgeAssumption, FS_Subset
<1>. HIDE DEF plan
<1>5. s \in Seq(Tasks) /\ \A n \in 1..Len(s) : Good(s[n])
  <2>. DEFINE who == InOrder(plan)
  <2>1. who \in Seq(plan) /\ DOMAIN who = 1..Len(who)
    BY <1>4, InOrderIs
  <2>. HIDE DEF who
  <2>2. s = [n \in DOMAIN who |-> [op |-> "decay", who |-> who[n],
                                   ticks |-> clock - settled[who[n]]]]
    BY DEF DecayJobs, who
  <2>3. \A n \in DOMAIN who :
          /\ who[n] \in plan
          /\ [op |-> "decay", who |-> who[n], ticks |-> clock - settled[who[n]]] \in Tasks
    <3>. SUFFICES ASSUME NEW n \in DOMAIN who
                  PROVE  /\ who[n] \in plan
                         /\ [op |-> "decay", who |-> who[n], ticks |-> clock - settled[who[n]]]
                              \in Tasks
      OBVIOUS
    <3>1. who[n] \in plan /\ who[n] \in Actors /\ clock - settled[who[n]] \in Int
      BY <1>2, <1>3, <2>1, ElementOfSeq
    <3>. QED  BY <3>1, TaskMakes
  <2>4. s \in Seq(Tasks) /\ Len(s) = Len(who)
    BY <2>1, <2>2, <2>3
  <2>5. \A n \in 1..Len(s) : s[n].op = "decay" /\ s[n].who \in plan
    BY <2>1, <2>2, <2>3, <2>4
  <2>. QED  BY <1>2, <2>4, <2>5
<1>6. t \in Seq(Tasks) /\ \A n \in 1..Len(t) : Good(t[n])
  <2>. DEFINE those == IF clock % ReflectEvery = 0 THEN plan ELSE {}
              who == InOrder(those)
  <2>1. those \in SUBSET Nat /\ IsFiniteSet(those) /\ those \subseteq plan
    BY <1>4, FS_EmptySet
  <2>. HIDE DEF those
  <2>2. who \in Seq(those) /\ DOMAIN who = 1..Len(who)
    BY <2>1, InOrderIs
  <2>. HIDE DEF who
  <2>3. t = [n \in DOMAIN who |-> [op |-> "reflect", who |-> who[n]]]
    BY DEF ReflectJobs, who, those
  <2>4. \A n \in DOMAIN who : /\ who[n] \in plan
                              /\ [op |-> "reflect", who |-> who[n]] \in Tasks
    <3>. SUFFICES ASSUME NEW n \in DOMAIN who
                  PROVE  who[n] \in plan /\ [op |-> "reflect", who |-> who[n]] \in Tasks
      OBVIOUS
    <3>1. who[n] \in plan /\ who[n] \in Actors
      BY <1>2, <2>1, <2>2, ElementOfSeq
    <3>. QED  BY <3>1, TaskMakes
  <2>5. t \in Seq(Tasks) /\ Len(t) = Len(who)
    BY <2>2, <2>3, <2>4
  <2>6. \A n \in 1..Len(t) : t[n].op = "reflect" /\ t[n].who \in plan
    BY <2>2, <2>3, <2>4, <2>5
  <2>. QED  BY <1>2, <2>5, <2>6
<1>7. u \in Seq(Tasks) /\ \A n \in 1..Len(u) : Good(u[n])
  <2>1. [op |-> "end", who |-> plan] \in Tasks
    BY <1>2, TaskMakes
  <2>. QED  BY <2>1
<1>. HIDE DEF s, t, u
<1>8. rest \in Seq(Tasks) /\ \A n \in 1..Len(rest) : Good(rest[n])
  <2>. HIDE DEF Good
  <2>1. s \o t \in Seq(Tasks) /\ \A n \in 1..Len(s \o t) : Good((s \o t)[n])
    BY <1>5, <1>6, RowConcat
  <2>. QED  BY <1>7, <2>1, RowConcat
<1>. HIDE DEF rest
<1>9. \E row \in Seq(Tasks) : /\ jobs' = [jobs EXCEPT ![w] = row]
                              /\ \A n \in 1..Len(row) : Good(row[n])
  <2>1. CASE \E d \in {x \in deeds : x.who \in residents} :
               /\ jobs' = [jobs EXCEPT ![w] = JobsOf(d) \o rest]
               /\ deeds' = deeds \ {d}
    <3>1. PICK d \in deeds : jobs' = [jobs EXCEPT ![w] = JobsOf(d) \o rest]
      BY <2>1
    <3>2. JobsOf(d) \in Seq(Tasks) /\ \A n \in 1..Len(JobsOf(d)) : JobsOf(d)[n].op \in Making
      BY DeedTasks DEF TypeInv, TypeOK
    <3>3. \A n \in 1..Len(JobsOf(d)) : Good(JobsOf(d)[n])
      BY <3>2 DEF Making
    <3>. HIDE DEF Good
    <3>4. /\ JobsOf(d) \o rest \in Seq(Tasks)
          /\ \A n \in 1..Len(JobsOf(d) \o rest) : Good((JobsOf(d) \o rest)[n])
      BY <1>8, <3>2, <3>3, RowConcat
    <3>. QED  BY <3>1, <3>4
  <2>2. CASE jobs' = [jobs EXCEPT ![w] = rest] /\ UNCHANGED deeds
    BY <1>8, <2>2
  <2>. QED  BY <1>1, <2>1, <2>2 DEF rest, plan, s, t, u
<1>10. PICK row \in Seq(Tasks) : /\ jobs' = [jobs EXCEPT ![w] = row]
                                 /\ \A n \in 1..Len(row) : Good(row[n])
  BY <1>9
<1>11. jobs'[w] = row
  BY <1>3, <1>10
<1>12. jobs[w] = <<>> /\ told[w] = Silence
  BY DEF StartTick, Idle
<1>. QED  BY <1>10, <1>11, <1>12

\* Taking a tick's events keeps the types.
LEMMA TypeStart ==
  ASSUME TypeInv, NEW w \in Workers, StartTick(w)
  PROVE  TypeInv'
<1>1. jobs' \in [Workers -> Seq(Tasks)]
  BY StartFacts DEF TypeInv
<1>2. tick' \in [Workers -> Nat] /\ deeds' \subseteq deeds
  BY DEF StartTick, TypeInv, TypeOK
<1>. QED  BY <1>1, <1>2 DEF StartTick, TypeInv, TypeOK, redis, beliefs, history

\* Reading an edge, or making a first one, keeps the types.
LEMMA TypeRead ==
  ASSUME TypeInv, NEW w \in Workers, Load(w) \/ Meet(w)
  PROVE  TypeInv'
<1>. DEFINE k == NextKey(w)
<1>1. k \in Keys /\ jobs[w] # <<>>
  BY NextKeyIs DEF Load, Meet, Doing
<1>2. edge[k] \in Edge \cup {None} /\ TransitionStage(Stranger, "acquaintance") \in Edge
  BY <1>1, NewcomerKept DEF TypeInv, TypeOK, Kept
<1>3. k[1] \in Actors /\ k[2] \in Others /\ k[1] # k[2]
  BY <1>1, KeyFacts
<1>4. News(k, "met", Zero) \in Event
  BY <1>1, NewsIs
<1>. HIDE DEF k
<1>5. clash' \in BOOLEAN
  BY DEF Load, Meet, TypeInv, TypeOK, Busy
<1>6. CASE Load(w)
  <2>1. hand' = [hand EXCEPT ![w][k] = edge[k]]
    BY <1>6 DEF Load, Take, k
  <2>. QED  BY <1>1, <1>2, <1>5, <1>6, <2>1 DEF Load, TypeInv, TypeOK, redis, beliefs
<1>7. CASE Meet(w)
  <2>1. /\ hand' = [hand EXCEPT ![w][k] = TransitionStage(Stranger, "acquaintance")]
        /\ told' = [told EXCEPT ![w][k] = Append(@, News(k, "met", Zero))]
        /\ index' = [index EXCEPT ![k[1]] = index[k[1]] \cup {k[2]}]
        /\ crowded' \in [Workers -> Keys \cup {None}]
    BY <1>1, <1>7 DEF Meet, Take, Tell, k, TypeInv, TypeOK
  <2>2. hand' \in [Workers -> [Keys -> Edge \cup {None}]]
    BY <1>1, <1>2, <2>1 DEF TypeInv, TypeOK
  <2>3. told' \in [Workers -> [Keys -> Seq(Event)]]
    BY <1>1, <1>4, <2>1 DEF TypeInv, TypeOK
  <2>4. index' \in [Actors -> SUBSET Others] /\ \A a \in Actors : a \notin index'[a]
    BY <1>3, <2>1 DEF TypeInv, TypeOK
  <2>. QED  BY <1>5, <1>7, <2>1, <2>2, <2>3, <2>4 DEF Meet, TypeInv, TypeOK, beliefs
<1>. QED  BY <1>6, <1>7

\* Forgetting, skipping what is gone, and the second write keep the types.
LEMMA TypeForget ==
  ASSUME TypeInv, NEW w \in Workers, Forget(w) \/ Gone(w) \/ Put(w)
  PROVE  TypeInv'
<1>. DEFINE k == Job(w).keys[1]
<1>1. jobs[w] # <<>>
  BY DEF Forget, Gone, Put, Doing
<1>2. jobs' \in [Workers -> Seq(Tasks)]
  BY <1>1, JobFacts DEF Forget, Gone, Put
<1>3. CASE Forget(w)
  <2>1. k \in Keys
    BY <1>3, DoingKeys DEF Forget
  <2>2. edge' = [edge EXCEPT ![k] = None] /\ clash' \in BOOLEAN
    BY <1>3 DEF Forget, TypeInv, TypeOK, Busy
  <2>. HIDE DEF k
  <2>. QED  BY <1>2, <1>3, <2>1, <2>2 DEF Forget, TypeInv, TypeOK, beliefs
<1>4. CASE Gone(w)
  BY <1>2, <1>4 DEF Gone, TypeInv, TypeOK, redis, beliefs, history
<1>5. CASE Put(w)
  <2>1. k \in Keys /\ Job(w) \in Tasks /\ Job(w).op = "put"
    BY <1>5, DoingKeys DEF Put
  <2>2. Job(w).value \in Edge
    BY <2>1, KeyTasks
  <2>3. edge' = [edge EXCEPT ![k] = Stored(Job(w).value)] /\ Stored(Job(w).value) \in Edge
    BY <1>5, <2>2, StoredEdge DEF Put
  <2>. HIDE DEF k
  <2>4. edge' \in [Keys -> Edge \cup {None}]
    BY <2>1, <2>3 DEF TypeInv, TypeOK
  <2>5. hand' \in [Workers -> [Keys -> Edge \cup {None}]]
    BY <1>5, Nothing DEF Put, TypeInv, TypeOK
  <2>. QED  BY <1>2, <1>5, <2>4, <2>5 DEF Put, TypeInv, TypeOK, beliefs, history
<1>. QED  BY <1>3, <1>4, <1>5

\* Who is put to rest is somebody else.
LEMMA WeakestIs ==
  ASSUME TypeInv, NEW k \in Keys, index[k[1]] \ {k[2]} # {}
  PROVE  Weakest(k) \in index[k[1]] \ {k[2]}
<1>. DEFINE rest == index[k[1]] \ {k[2]}
            salience == [b \in rest |-> IF edge[<<k[1], b>>] = None THEN 0
                                        ELSE edge[<<k[1], b>>].salience]
            values == {salience[b] : b \in rest}
<1>1. rest \subseteq Nat /\ \A b \in rest : <<k[1], b>> \in Keys
  BY KeyFacts DEF TypeInv, TypeOK
<1>2. \A b \in rest : salience[b] \in Nat
  <2>. SUFFICES ASSUME NEW b \in rest PROVE salience[b] \in Nat
    OBVIOUS
  <2>1. edge[<<k[1], b>>] \in Edge \cup {None}
    BY <1>1 DEF TypeInv, TypeOK
  <2>2. edge[<<k[1], b>>] \in Edge => edge[<<k[1], b>>].salience \in 0..One /\ One \in Nat
    BY Decimals DEF Edge
  <2>. QED  BY <2>1, <2>2
<1>. HIDE DEF salience
<1>3. values \in SUBSET Nat /\ values # {}
  BY <1>2
<1>4. PICK v \in values : \A u \in values : v <= u
  BY <1>3, SmallestOf
<1>. DEFINE low == {b \in rest : salience[b] = v}
<1>5. low \in SUBSET Nat /\ low # {}
  BY <1>1, <1>4
<1>6. PICK b \in low : \A c \in low : b <= c
  BY <1>5, SmallestOf
<1>7. b \in rest /\ salience[b] = v /\ v \in Nat
  BY <1>3, <1>4, <1>6
<1>8. \A c \in rest : v <= salience[c] /\ salience[c] \in Nat
  BY <1>2, <1>4
<1>9. \A c \in rest : salience[c] = v => b <= c
  BY <1>6
<1>. HIDE DEF rest, values, low
<1>10. \A c \in rest : \/ salience[b] < salience[c]
                       \/ salience[b] = salience[c] /\ b <= c
  BY <1>1, <1>7, <1>8, <1>9
<1>11. \E x \in rest : \A c \in rest : \/ salience[x] < salience[c]
                                       \/ salience[x] = salience[c] /\ x <= c
  BY <1>7, <1>10
<1>12. Weakest(k) = CHOOSE x \in rest : \A c \in rest :
                      \/ salience[x] < salience[c]
                      \/ salience[x] = salience[c] /\ x <= c
  BY DEF Weakest, salience, rest
<1>. QED  BY <1>11, <1>12 DEF rest

\* Putting an edge to rest keeps the types.
LEMMA TypeRest ==
  ASSUME TypeInv, NEW w \in Workers, PutToRest(w)
  PROVE  TypeInv'
<1>. DEFINE a == crowded[w][1]
            b == Weakest(crowded[w])
<1>1. crowded[w] \in Keys /\ a \in Actors
  <2>1. crowded[w] \in Keys
    BY DEF PutToRest, TypeInv, TypeOK
  <2>. QED  BY <2>1, KeyFacts
<1>2. crowded' = [crowded EXCEPT ![w] = None]
  BY DEF PutToRest
<1>3. CASE index[a] \ {crowded[w][2]} = {}
  BY <1>1, <1>2, <1>3 DEF PutToRest, TypeInv, TypeOK, beliefs
<1>4. CASE index[a] \ {crowded[w][2]} # {}
  <2>1. b \in index[a] \ {crowded[w][2]}
    BY <1>1, <1>4, WeakestIs
  <2>2. <<a, b>> \in Keys
    BY <1>1, <2>1, KeyFacts DEF TypeInv, TypeOK
  <2>3. jobs' = [jobs EXCEPT ![w] = <<[op |-> "forget", keys |-> <<<<a, b>>>>]>> \o @]
    BY <1>4 DEF PutToRest
  <2>4. <<[op |-> "forget", keys |-> <<<<a, b>>>>]>> \o jobs[w] \in Seq(Tasks)
    <3>1. [op |-> "forget", keys |-> <<<<a, b>>>>] \in Tasks
      BY <2>2, TaskMakes
    <3>. QED  BY <3>1, RowFront DEF TypeInv
  <2>5. jobs' \in [Workers -> Seq(Tasks)]
    BY <2>3, <2>4 DEF TypeInv
  <2>6. /\ index' = [index EXCEPT ![a] = @ \ {b}] /\ dormant' = dormant \cup {<<a, b>>}
        /\ clash' \in BOOLEAN
    BY <1>4 DEF PutToRest, TypeInv, TypeOK, Busy
  <2>. HIDE DEF a, b
  <2>7. index' \in [Actors -> SUBSET Others] /\ \A c \in Actors : c \notin index'[c]
    BY <1>1, <2>6 DEF TypeInv, TypeOK
  <2>. QED  BY <1>2, <2>2, <2>5, <2>6, <2>7 DEF PutToRest, TypeInv, TypeOK, beliefs
<1>. QED  BY <1>3, <1>4

\* Saving and judging keep the types.
LEMMA TypeWrite ==
  ASSUME TypeInv, NEW w \in Workers, Save(w) \/ Judge(w)
  PROVE  TypeInv'
<1>1. CASE Save(w)
  <2>. DEFINE k == Job(w).keys[1]
              c == Changed(Job(w), hand[w][k])
              e == Stored(IF Job(w).op = "muse" THEN c ELSE Settled(c))
  <2>1. k \in Keys /\ c \in Edge /\ e \in Edge /\ jobs[w] # <<>> /\ edge' = [edge EXCEPT ![k] = e]
    BY <1>1, SaveFacts
  <2>2. \/ told' = told
        \/ told' = [told EXCEPT ![w][k] = Append(@, News(k, "changed", Stored(c).dims))]
    BY <1>1 DEF Save, Tell
  <2>3. jobs' = Finished(w) /\ hand' = [hand EXCEPT ![w] = Empty]
    BY <1>1 DEF Save
  <2>. HIDE DEF k, c, e
  <2>4. News(k, "changed", Stored(c).dims) \in Event
    BY <2>1, StoredEdge, NewsIs
  <2>5. told' \in [Workers -> [Keys -> Seq(Event)]]
    <3>1. CASE told' = told
      BY <3>1 DEF TypeInv, TypeOK
    <3>2. CASE told' = [told EXCEPT ![w][k] = Append(@, News(k, "changed", Stored(c).dims))]
      BY <2>1, <2>4, <3>2, ToldMore
    <3>. QED  BY <2>2, <3>1, <3>2
  <2>6. jobs' \in [Workers -> Seq(Tasks)]
    BY <2>1, <2>3, JobFacts
  <2>7. hand' \in [Workers -> [Keys -> Edge \cup {None}]]
    BY <2>3, Nothing DEF TypeInv, TypeOK
  <2>8. edge' \in [Keys -> Edge \cup {None}]
    BY <2>1 DEF TypeInv, TypeOK
  <2>. QED  BY <1>1, <2>5, <2>6, <2>7, <2>8 DEF Save, TypeInv, TypeOK, beliefs, history
<1>2. CASE Judge(w)
  <2>. DEFINE k == Job(w).keys[1]
              l == Rev(k)
              after(s, e) == IF s = "same" THEN e ELSE TransitionStage(e, s)
  <2>1. PICK s \in Stages \cup {"same"} :
            /\ k \in Keys /\ l \in Keys /\ jobs[w] # <<>> /\ hand[w][k] \in Edge
            /\ after(s, hand[w][k]) \in Edge /\ after(s, hand[w][l]) \in Edge
            /\ edge' = [edge EXCEPT ![k] = Stored(after(s, hand[w][k]))]
            /\ jobs' = [jobs EXCEPT ![w] =
                 <<[op |-> "put", keys |-> <<l>>, value |-> after(s, hand[w][l])]>> \o Tail(@)]
            /\ \/ told' = told
               \/ \E m \in {"confession_accepted", "confession_declined", "severed"} :
                    told' = [told EXCEPT ![w][k] = Append(@, News(k, m, hand[w][k].dims))]
    BY <1>2, JudgeFacts
  <2>. DEFINE e == after(s, hand[w][k])
              f == after(s, hand[w][l])
              job == [op |-> "put", keys |-> <<l>>, value |-> f]
  <2>2. job \in Tasks
    BY Zenon, <2>1, TaskMakes
  <2>. HIDE DEF job
  <2>3. jobs' \in [Workers -> Seq(Tasks)]
    <3>1. jobs' = [jobs EXCEPT ![w] = <<job>> \o Tail(@)]
      BY <2>1 DEF job
    <3>2. jobs[w] # <<>>
      BY Zenon, <2>1
    <3>. QED  BY <2>2, <3>1, <3>2, JobFacts
  <2>4. Stored(e) \in Edge
    <3>1. e \in Edge
      BY <2>1
    <3>. HIDE DEF e
    <3>. QED  BY <3>1, StoredEdge
  <2>5. edge' \in [Keys -> Edge \cup {None}]
    <3>1. edge' = [edge EXCEPT ![k] = Stored(e)]
      BY Zenon, <2>1
    <3>. HIDE DEF e, k
    <3>. QED  BY <2>1, <2>4, <3>1 DEF TypeInv, TypeOK
  <2>6. \A m \in {"confession_accepted", "confession_declined", "severed"} :
          News(k, m, hand[w][k].dims) \in Event
    BY <2>1, NewsIs
  <2>. HIDE DEF k, l
  <2>7. told' \in [Workers -> [Keys -> Seq(Event)]]
    <3>1. CASE told' = told
      BY <3>1 DEF TypeInv, TypeOK
    <3>2. CASE told' # told
      <4>1. PICK m \in {"confession_accepted", "confession_declined", "severed"} :
              told' = [told EXCEPT ![w][k] = Append(@, News(k, m, hand[w][k].dims))]
        BY <2>1, <3>2
      <4>2. k \in Keys /\ News(k, m, hand[w][k].dims) \in Event
        BY <2>1, <2>6
      <4>. QED  BY <4>1, <4>2, ToldMore
    <3>. QED  BY <3>1, <3>2
  <2>. QED  BY Zenon, <1>2, <2>3, <2>5, <2>7 DEF Judge, TypeInv, TypeOK, beliefs, history
<1>. QED  BY <1>1, <1>2

\* The edges to cool.
LEMMA CoolJobs ==
  ASSUME TypeInv, NEW w \in Workers, ListEdges(w)
  PROVE  LET a == Job(w).who
             others == InOrder(index[a])
         IN [n \in DOMAIN others |-> [op |-> "cool", keys |-> <<<<a, others[n]>>>>,
                                      ticks |-> Job(w).ticks]] \in Seq(Tasks)
<1>. DEFINE a == Job(w).who
            others == InOrder(index[a])
            cool == [n \in DOMAIN others |-> [op |-> "cool", keys |-> <<<<a, others[n]>>>>,
                                              ticks |-> Job(w).ticks]]
<1>1. jobs[w] # <<>> /\ Job(w).op = "decay"
  BY DEF ListEdges, Doing
<1>2. a \in Actors /\ Job(w).ticks \in Int
  BY <1>1, JobFacts, ActorTasks
<1>. HIDE DEF a
<1>3. index[a] \in SUBSET Nat /\ IsFiniteSet(index[a]) /\ \A b \in index[a] : <<a, b>> \in Keys
  <2>1. index[a] \subseteq Others /\ a \notin index[a]
    BY <1>2 DEF TypeInv, TypeOK
  <2>. QED  BY <1>2, <2>1, KeyFacts, EdgeAssumption, FS_Subset
<1>4. others \in Seq(index[a]) /\ DOMAIN others = 1..Len(others)
  BY <1>3, InOrderIs
<1>. HIDE DEF others
<1>5. \A n \in DOMAIN others :
        [op |-> "cool", keys |-> <<<<a, others[n]>>>>, ticks |-> Job(w).ticks] \in Tasks
  <2>. SUFFICES ASSUME NEW n \in DOMAIN others
                PROVE  [op |-> "cool", keys |-> <<<<a, others[n]>>>>, ticks |-> Job(w).ticks]
                         \in Tasks
    OBVIOUS
  <2>1. <<a, others[n]>> \in Keys
    BY <1>3, <1>4
  <2>. QED  BY <1>2, <2>1, TaskMakes
<1>6. cool \in Seq(Tasks)
  BY <1>4, <1>5
<1>. QED  BY <1>6 DEF a, others

\* Listing the edges for the sweep keeps the types.
LEMMA TypeList ==
  ASSUME TypeInv, NEW w \in Workers, ListEdges(w)
  PROVE  TypeInv'
<1>. DEFINE a == Job(w).who
            others == InOrder(index[a])
            cool == [n \in DOMAIN others |-> [op |-> "cool", keys |-> <<<<a, others[n]>>>>,
                                              ticks |-> Job(w).ticks]]
<1>1. cool \in Seq(Tasks)
  BY CoolJobs
<1>2. jobs' = [jobs EXCEPT ![w] = cool \o Tail(@)] /\ jobs[w] # <<>>
  BY DEF ListEdges, Doing
<1>. HIDE DEF cool
<1>3. jobs' \in [Workers -> Seq(Tasks)]
  BY <1>1, <1>2, JobFacts
<1>. QED  BY <1>3 DEF ListEdges, TypeInv, TypeOK, redis, beliefs, history

\* Appending what a worker has to tell keeps the types.
LEMMA TypeAppend ==
  ASSUME TypeInv, NEW w \in Workers, AppendNews(w)
  PROVE  TypeInv'
<1>1. PICK k \in Keys : /\ story' = [story EXCEPT ![k] = @ \o told[w][k]]
                        /\ told' = [told EXCEPT ![w][k] = <<>>]
  BY DEF AppendNews
<1>2. story[k] \o told[w][k] \in Seq(Event)
  BY RowConcat DEF TypeInv, TypeOK
<1>3. story' \in [Keys -> Seq(Event)] /\ told' \in [Workers -> [Keys -> Seq(Event)]]
  BY <1>1, <1>2 DEF TypeInv, TypeOK
<1>. QED  BY <1>3 DEF AppendNews, TypeInv, TypeOK, redis, beliefs, history

\* To state what was derived, what is gone and what a model thought of.
BeliefRow(a, derived, gone, insights) ==
  LET all == SetToSeq(derived) \o SetToSeq(gone) \o SetToSeq(insights)
  IN  [n \in DOMAIN all |-> [op |-> "believe", who |-> a, belief |-> all[n]]]

\* What a reflection leads to.
LEMMA ReflectFacts ==
  ASSUME TypeInv, NEW w \in Workers, Reflect(w)
  PROVE  \E derived \in SUBSET Beliefs, insights \in SUBSET BeliefsOf(Job(w).who) :
         LET a == Job(w).who
             gone == Retracted(ledger[a], derived)
         IN /\ a \in Actors /\ jobs[w] # <<>> /\ Job(w).op = "reflect" /\ told[w] = Silence
            /\ gone \subseteq BeliefsOf(a) /\ derived \subseteq BeliefsOf(a)
            /\ \A b \in derived : b.kind \in RuleKinds /\ b.sure >= Faded + Restate
            /\ \A b \in insights : b.kind \in InsightKinds
            /\ jobs' = [jobs EXCEPT ![w] = BeliefRow(a, derived, gone, insights) \o Tail(@)]
            /\ grounds' = [grounds EXCEPT ![a] = {Slot(b) : b \in derived}]
<1>. DEFINE a == Job(w).who
            held == [b \in {x \in index[a] : edge[<<a, x>>] # None} |-> edge[<<a, b>>]]
            known == DOMAIN held \cup (Actors \ {a})
            met == index[a] \cup {b \in Others : <<a, b>> \in dormant}
<1>1. jobs[w] # <<>> /\ Job(w).op = "reflect" /\ told[w] = Silence
  BY DEF Reflect, Doing
<1>2. a \in Actors
  BY <1>1, JobFacts, ActorTasks
<1>3. PICK grateful \in SUBSET {b \in met : <<a, b>> \in Thanked},
           insights \in {{}} \cup {Insights(p, known) : p \in Proposals} :
        LET derived == Derived(held, grateful)
            all == SetToSeq(derived) \o SetToSeq(Retracted(ledger[a], derived))
                   \o SetToSeq(insights)
        IN /\ jobs' = [jobs EXCEPT ![w] =
                [n \in DOMAIN all |->
                   [op |-> "believe", who |-> a, belief |-> all[n]]] \o Tail(@)]
           /\ grounds' = [grounds EXCEPT ![a] = {Slot(b) : b \in derived}]
  BY Zenon DEF Reflect
<1>. DEFINE derived == Derived(held, grateful)
            gone == Retracted(ledger[a], derived)
<1>4. index[a] \subseteq Others /\ a \notin index[a]
  BY <1>2 DEF TypeInv, TypeOK
<1>. HIDE DEF a
<1>5. DOMAIN held \subseteq Others /\ \A b \in DOMAIN held : held[b] \in Edge
  <2>1. DOMAIN held \subseteq index[a]
    OBVIOUS
  <2>2. ASSUME NEW b \in DOMAIN held PROVE held[b] \in Edge
    <3>1. b \in index[a] /\ edge[<<a, b>>] # None /\ held[b] = edge[<<a, b>>]
      OBVIOUS
    <3>2. <<a, b>> \in Keys
      BY <1>2, <1>4, <3>1, KeyFacts
    <3>. QED  BY <3>1, <3>2 DEF TypeInv, TypeOK
  <2>. QED  BY <1>4, <2>1, <2>2
<1>6. grateful \in SUBSET Others
  BY <1>4
<1>7. known \in SUBSET Others /\ \A b \in known : <<a, b>> \in Keys
  <2>1. known \subseteq Others /\ a \notin known
    BY <1>4, <1>5, KeyFacts
  <2>. QED  BY <1>2, <2>1, KeyFacts
<1>. HIDE DEF held, known, met
<1>8. /\ derived \in SUBSET Beliefs
      /\ \A b \in derived : b.kind \in RuleKinds /\ b.sure >= Faded + Restate
  BY <1>5, <1>6, DerivedIs
<1>9. insights \in SUBSET BeliefsOf(a) /\ \A b \in insights : b.kind \in InsightKinds
  <2>1. CASE insights = {}
    BY <2>1
  <2>2. CASE insights # {}
    <3>1. PICK p \in Proposals : insights = Insights(p, known)
      BY <1>3, <2>2
    <3>2. \A b \in insights : /\ b \in Beliefs /\ b.kind \in InsightKinds
                              /\ b.kind = "person_insight" => b.about \in known
      BY <1>7, <3>1, InsightsAre
    <3>. QED  BY <1>7, <3>2 DEF BeliefsOf
  <2>. QED  BY <2>1, <2>2
<1>10. gone \subseteq BeliefsOf(a) /\ derived \subseteq BeliefsOf(a)
  <2>1. DOMAIN ledger[a] \subseteq Slots
    BY <1>2 DEF TypeInv, TypeOK
  <2>. HIDE DEF derived
  <2>2. \A b \in gone : b \in Beliefs /\ b.kind \in RuleKinds
    BY <2>1, RetractedIs
  <2>. HIDE DEF gone
  <2>. QED  BY <1>8, <2>2 DEF BeliefsOf, RuleKinds
<1>11. /\ jobs' = [jobs EXCEPT ![w] = BeliefRow(a, derived, gone, insights) \o Tail(@)]
       /\ grounds' = [grounds EXCEPT ![a] = {Slot(b) : b \in derived}]
  BY <1>3 DEF BeliefRow
<1>. HIDE DEF gone, derived
<1>. QED  BY <1>1, <1>2, <1>8, <1>9, <1>10, <1>11 DEF a, gone

\* The row a reflection of a states: beliefs of a alone, and every one of stated.
States(row, a, stated, insights) ==
  /\ row \in Seq(Tasks)
  /\ \A n \in 1..Len(row) : /\ row[n].op = "believe" /\ row[n].who = a
                            /\ row[n].belief \in stated \cup insights
  /\ \A b \in stated : \E n \in 1..Len(row) : row[n].belief = b

\* BeliefRow builds such a row.
LEMMA BelieveJobs ==
  ASSUME NEW a \in Actors, NEW derived \in SUBSET BeliefsOf(a),
         NEW gone \in SUBSET BeliefsOf(a), NEW insights \in SUBSET BeliefsOf(a)
  PROVE  States(BeliefRow(a, derived, gone, insights), a, derived \cup gone, insights)
<1>. DEFINE s == SetToSeq(derived)
            t == SetToSeq(gone)
            u == SetToSeq(insights)
            X == derived \cup gone \cup insights
            all == s \o t \o u
            row == [n \in DOMAIN all |-> [op |-> "believe", who |-> a, belief |-> all[n]]]
<1>1. /\ s \in Seq(derived) /\ t \in Seq(gone) /\ u \in Seq(insights)
      /\ \A b \in derived : \E n \in 1..Len(s) : s[n] = b
      /\ \A b \in gone : \E n \in 1..Len(t) : t[n] = b
  <2>1. IsFiniteSet(derived) /\ IsFiniteSet(gone) /\ IsFiniteSet(insights)
    BY BeliefsFinite DEF BeliefsOf
  <2>. QED  BY <2>1, SetToSeqIs
<1>. HIDE DEF s, t, u
<1>2. s \in Seq(X) /\ t \in Seq(X) /\ u \in Seq(X)
  BY <1>1, SeqMonotonic
<1>. HIDE DEF X
<1>. DEFINE st == s \o t
<1>3. /\ st \in Seq(X) /\ Len(st) = Len(s) + Len(t)
      /\ \A n \in 1..Len(s) + Len(t) : st[n] = IF n <= Len(s) THEN s[n] ELSE t[n - Len(s)]
      /\ Len(s) \in Nat /\ Len(t) \in Nat /\ Len(u) \in Nat
  BY <1>2, ConcatProperties, LenProperties
<1>4. all = st \o u
  OBVIOUS
<1>. HIDE DEF st, all
<1>5. /\ all \in Seq(X) /\ Len(all) = Len(st) + Len(u)
      /\ \A n \in 1..Len(st) : all[n] = st[n]
  <2>1. st \in Seq(X) /\ u \in Seq(X)
    BY <1>2, <1>3
  <2>. QED  BY <1>4, <2>1, RowConcat
<1>6. \A b \in derived \cup gone : \E n \in 1..Len(all) : all[n] = b
  <2>1. ASSUME NEW b \in derived PROVE \E n \in 1..Len(all) : all[n] = b
    <3>1. PICK n \in 1..Len(s) : s[n] = b
      BY <1>1
    <3>2. n \in 1..Len(st) /\ n \in 1..Len(all) /\ st[n] = b
      BY <1>3, <1>5, <3>1
    <3>. QED  BY <1>5, <3>2
  <2>2. ASSUME NEW b \in gone PROVE \E n \in 1..Len(all) : all[n] = b
    <3>1. PICK n \in 1..Len(t) : t[n] = b
      BY <1>1
    <3>. DEFINE m == n + Len(s)
    <3>2. m \in 1..Len(s) + Len(t) /\ ~(m <= Len(s)) /\ m - Len(s) = n
      BY <1>3, <3>1
    <3>3. st[m] = t[n] /\ m \in 1..Len(st) /\ m \in 1..Len(all)
      BY <1>3, <1>5, <3>2
    <3>. HIDE DEF m
    <3>. QED  BY <1>5, <3>1, <3>3
  <2>. QED  BY <2>1, <2>2
<1>7. DOMAIN all = 1..Len(all) /\ Len(all) \in Nat /\ \A n \in 1..Len(all) : all[n] \in X
  BY <1>5
<1>8. X \subseteq BeliefsOf(a)
  BY DEF X
<1>9. DOMAIN row = 1..Len(all) /\ \A n \in 1..Len(all) :
        row[n] = [op |-> "believe", who |-> a, belief |-> all[n]]
  BY <1>7
<1>10. \A n \in 1..Len(all) : row[n] \in Tasks /\ row[n].op = "believe" /\ row[n].who = a
                              /\ row[n].belief = all[n]
  BY <1>7, <1>8, <1>9, TaskMakes
<1>. HIDE DEF row
<1>11. row \in Seq(Tasks) /\ Len(row) = Len(all)
  <2>1. row = [n \in 1..Len(all) |-> row[n]]
    BY <1>9 DEF row
  <2>. QED  BY <1>7, <1>9, <1>10, <2>1
<1>12. States(row, a, derived \cup gone, insights)
  BY <1>6, <1>7, <1>10, <1>11 DEF X, States
<1>. QED  BY <1>12 DEF row, all, s, t, u, BeliefRow

\* w has reflected: what it derived, and what it is to state.
Concludes(w, derived, new) ==
  LET a == Job(w).who
      gone == Retracted(ledger[a], derived)
  IN /\ a \in Actors /\ jobs[w] # <<>> /\ Job(w).op = "reflect" /\ told[w] = Silence
     /\ \A b \in derived : b.kind \in RuleKinds /\ b.sure >= Faded + Restate
     /\ jobs' = [jobs EXCEPT ![w] = new \o Tail(jobs[w])]
     /\ grounds' = [grounds EXCEPT ![a] = {Slot(b) : b \in derived}]
     /\ \A n \in 1..Len(new) :
          /\ new[n].op = "believe" /\ new[n].who = a
          /\ new[n].belief.kind \in RuleKinds => new[n].belief \in derived \cup gone
     /\ \A b \in derived \cup gone : \E n \in 1..Len(new) : new[n].belief = b

\* A reflection derives beliefs and leaves one task to state each.
LEMMA ReflectRow ==
  ASSUME TypeInv, NEW w \in Workers, Reflect(w)
  PROVE  \E derived \in SUBSET Beliefs, new \in Seq(Tasks) : Concludes(w, derived, new)
<1>. DEFINE a == Job(w).who
            gone(derived) == Retracted(ledger[a], derived)
            row(derived, insights) == BeliefRow(a, derived, gone(derived), insights)
<1>1. PICK derived \in SUBSET Beliefs, insights \in SUBSET BeliefsOf(a) :
        /\ a \in Actors /\ jobs[w] # <<>> /\ Job(w).op = "reflect" /\ told[w] = Silence
        /\ gone(derived) \subseteq BeliefsOf(a) /\ derived \subseteq BeliefsOf(a)
        /\ \A b \in derived : b.kind \in RuleKinds /\ b.sure >= Faded + Restate
        /\ \A b \in insights : b.kind \in InsightKinds
        /\ jobs' = [jobs EXCEPT ![w] = row(derived, insights) \o Tail(@)]
        /\ grounds' = [grounds EXCEPT ![a] = {Slot(b) : b \in derived}]
  BY ReflectFacts
<1>. DEFINE new == row(derived, insights)
<1>2. States(new, a, derived \cup gone(derived), insights)
  <2>. DEFINE old == gone(derived)
  <2>1. old \in SUBSET BeliefsOf(a) /\ derived \in SUBSET BeliefsOf(a) /\ a \in Actors
    BY <1>1
  <2>. HIDE DEF old, a
  <2>2. States(BeliefRow(a, derived, old, insights), a, derived \cup old, insights)
    BY <2>1, BelieveJobs
  <2>. QED  BY <2>2 DEF old, a
<1>. HIDE DEF row
<1>3. jobs' = [jobs EXCEPT ![w] = new \o Tail(jobs[w])]
  BY <1>1 DEF TypeInv
<1>4. \A n \in 1..Len(new) : new[n].belief.kind \in RuleKinds =>
        new[n].belief \in derived \cup gone(derived)
  BY <1>1, <1>2 DEF RuleKinds, InsightKinds, States
<1>. HIDE DEF new
<1>5. /\ new \in Seq(Tasks)
      /\ \A n \in 1..Len(new) : new[n].op = "believe" /\ new[n].who = a
      /\ \A b \in derived \cup gone(derived) : \E n \in 1..Len(new) : new[n].belief = b
  BY <1>2 DEF States
<1>6. Concludes(w, derived, new)
  <2>1. /\ a \in Actors /\ jobs[w] # <<>> /\ Job(w).op = "reflect" /\ told[w] = Silence
        /\ \A b \in derived : b.kind \in RuleKinds /\ b.sure >= Faded + Restate
        /\ grounds' = [grounds EXCEPT ![a] = {Slot(b) : b \in derived}]
    BY <1>1
  <2>2. \A n \in 1..Len(new) :
          /\ new[n].op = "believe" /\ new[n].who = a
          /\ new[n].belief.kind \in RuleKinds => new[n].belief \in derived \cup gone(derived)
    BY <1>4, <1>5
  <2>3. \A b \in derived \cup gone(derived) : \E n \in 1..Len(new) : new[n].belief = b
    BY <1>5
  <2>. QED  BY <1>3, <2>1, <2>2, <2>3, Zenon DEF Concludes
<1>7. derived \in SUBSET Beliefs /\ new \in Seq(Tasks)
  BY <1>1, <1>5
<1>. QED  BY <1>6, <1>7

\* What a reflection leaves to do are statements of beliefs only.
LEMMA ReflectMakes ==
  ASSUME TypeInv, NEW w \in Workers, Reflect(w)
  PROVE  \E s \in Seq(Tasks) : /\ jobs' = [jobs EXCEPT ![w] = s \o Tail(jobs[w])]
                               /\ \A n \in 1..Len(s) : s[n].op = "believe"
<1>1. PICK derived \in SUBSET Beliefs, new \in Seq(Tasks) : Concludes(w, derived, new)
  BY ReflectRow
<1>2. /\ jobs' = [jobs EXCEPT ![w] = new \o Tail(jobs[w])]
      /\ \A n \in 1..Len(new) : new[n].op = "believe"
  BY <1>1 DEF Concludes
<1>. QED  BY <1>2

\* Reflecting keeps the types.
LEMMA TypeReflect ==
  ASSUME TypeInv, NEW w \in Workers, Reflect(w)
  PROVE  TypeInv'
<1>. DEFINE a == Job(w).who
            gone(derived) == Retracted(ledger[a], derived)
            row(derived, insights) == BeliefRow(a, derived, gone(derived), insights)
<1>1. PICK derived \in SUBSET Beliefs, insights \in SUBSET BeliefsOf(a) :
        /\ a \in Actors /\ jobs[w] # <<>>
        /\ gone(derived) \subseteq BeliefsOf(a) /\ derived \subseteq BeliefsOf(a)
        /\ \A b \in derived : b.kind \in RuleKinds
        /\ jobs' = [jobs EXCEPT ![w] = row(derived, insights) \o Tail(@)]
        /\ grounds' = [grounds EXCEPT ![a] = {Slot(b) : b \in derived}]
  BY ReflectFacts
<1>2. row(derived, insights) \in Seq(Tasks)
  <2>1. /\ gone(derived) \in SUBSET BeliefsOf(a) /\ derived \in SUBSET BeliefsOf(a)
        /\ insights \in SUBSET BeliefsOf(a) /\ a \in Actors
    BY <1>1
  <2>. QED  BY <2>1, BelieveJobs DEF States
<1>. HIDE DEF row
<1>3. jobs' \in [Workers -> Seq(Tasks)]
  BY <1>1, <1>2, JobFacts
<1>4. {Slot(b) : b \in derived} \subseteq Slots
  BY DEF Slot, Slots, Beliefs
<1>. HIDE DEF a
<1>5. grounds' \in [Actors -> {None} \cup SUBSET Slots]
  BY <1>1, <1>4 DEF TypeInv, TypeOK
<1>6. UNCHANGED <<redis, ledger, formed, story, settled, clock, tick, hand, crowded,
                  told, deeds, faults, history>>
  BY DEF Reflect
<1>. QED  BY <1>3, <1>5, <1>6 DEF TypeInv, TypeOK, redis, history

\* A belief is noted after it was stated.
LEMMA NoteTask ==
  ASSUME TypeInv, NEW w \in Workers, State(w)
  PROVE  /\ [Job(w) EXCEPT !.op = "note"] \in Tasks
         /\ [Job(w) EXCEPT !.op = "note"]
              = [op |-> "note", who |-> Job(w).who, belief |-> Job(w).belief]
         /\ [Job(w) EXCEPT !.op = "note"].op = "note"
<1>. DEFINE a == Job(w).who
            belief == Job(w).belief
<1>1. jobs[w] # <<>> /\ Job(w) \in Tasks /\ Job(w).op = "believe"
  BY JobFacts DEF State, Doing
<1>2. a \in Actors /\ belief \in BeliefsOf(a)
  BY <1>1, ActorTasks
<1>3. Job(w) = [op |-> "believe", who |-> a, belief |-> belief]
  BY <1>1 DEF Tasks
<1>4. [Job(w) EXCEPT !.op = "note"] = [op |-> "note", who |-> a, belief |-> belief]
  BY <1>3
<1>. QED  BY <1>2, <1>4, TaskMakes

\* An insight into somebody is about an edge.
LEMMA MuseTask ==
  ASSUME TypeInv, NEW w \in Workers, Note(w), Job(w).belief.kind = "person_insight"
  PROVE  LET b == Job(w).belief
             x == [op |-> "muse", keys |-> <<<<Job(w).who, b.about>>>>, sure |-> b.sure]
         IN x \in Tasks /\ x.op = "muse"
<1>. DEFINE b == Job(w).belief
<1>1. jobs[w] # <<>> /\ Job(w) \in Tasks /\ Job(w).op = "note"
  BY JobFacts DEF Note, Doing
<1>2. b \in BeliefsOf(Job(w).who)
  BY <1>1, ActorTasks
<1>3. <<Job(w).who, b.about>> \in Keys /\ b.sure \in 0..One
  BY <1>2 DEF BeliefsOf, Beliefs
<1>. QED  BY <1>3, TaskMakes

\* Stating a belief keeps the types.
LEMMA TypeBelieve ==
  ASSUME TypeInv, NEW w \in Workers, State(w) \/ Note(w)
  PROVE  TypeInv'
<1>. DEFINE a == Job(w).who
            belief == Job(w).belief
<1>1. jobs[w] # <<>> /\ Job(w) \in Tasks /\ Job(w).op \in {"believe", "note"}
  BY JobFacts DEF State, Note, Doing
<1>2. a \in Actors /\ belief \in BeliefsOf(a) /\ belief \in Beliefs
  BY <1>1, ActorTasks
<1>3. CASE State(w)
  <2>2. [Job(w) EXCEPT !.op = "note"] \in Tasks
    BY <1>3, NoteTask
  <2>3. jobs' \in [Workers -> Seq(Tasks)]
    BY <1>1, <1>3, <2>2, JobFacts DEF State
  <2>. HIDE DEF a, belief
  <2>4. Append(formed[a], belief) \in Seq(Beliefs)
    BY <1>2, AppendProperties DEF TypeInv, TypeOK
  <2>5. formed' = [formed EXCEPT ![a] = Append(@, belief)] \/ formed' = formed
    BY <1>3 DEF State, a, belief
  <2>6. formed' \in [Actors -> Seq(Beliefs)]
    BY <1>2, <2>4, <2>5 DEF TypeInv, TypeOK
  <2>7. UNCHANGED <<redis, ledger, grounds, story, settled, clock, tick, hand, crowded,
                    told, deeds, faults, history>>
    BY <1>3 DEF State
  <2>. QED  BY <2>3, <2>6, <2>7 DEF TypeInv, TypeOK, redis, history
<1>4. CASE Note(w)
  <2>1. \/ jobs' = [jobs EXCEPT ![w] = <<>> \o Tail(@)]
        \/ /\ belief.kind = "person_insight"
           /\ jobs' = [jobs EXCEPT ![w] =
                <<[op |-> "muse", keys |-> <<<<a, belief.about>>>>, sure |-> belief.sure]>>
                  \o Tail(@)]
    BY <1>4 DEF Note
  <2>2. ledger' = [ledger EXCEPT ![a] = Noted(@, belief)]
    BY <1>4 DEF Note
  <2>. HIDE DEF a
  <2>3. jobs' \in [Workers -> Seq(Tasks)]
    <3>1. CASE jobs' = [jobs EXCEPT ![w] = <<>> \o Tail(@)]
      BY <1>1, <3>1, JobFacts
    <3>2. CASE /\ belief.kind = "person_insight"
               /\ jobs' = [jobs EXCEPT ![w] =
                    <<[op |-> "muse", keys |-> <<<<a, belief.about>>>>, sure |-> belief.sure]>>
                      \o Tail(@)]
      <4>2. [op |-> "muse", keys |-> <<<<a, belief.about>>>>, sure |-> belief.sure] \in Tasks
        BY <1>4, <3>2, MuseTask DEF a
      <4>. QED  BY <1>1, <3>2, <4>2, JobFacts
    <3>. QED  BY <2>1, <3>1, <3>2
  <2>. HIDE DEF belief
  <2>4. /\ DOMAIN Noted(ledger[a], belief) \subseteq Slots
        /\ Noted(ledger[a], belief) \in [DOMAIN Noted(ledger[a], belief) -> 0..One]
    <3>1. DOMAIN ledger[a] \subseteq Slots /\ ledger[a] \in [DOMAIN ledger[a] -> 0..One]
      BY <1>2 DEF TypeInv, TypeOK
    <3>2. Slot(belief) \in Slots /\ belief.sure \in 0..One
      BY <1>2 DEF Slot, Slots, Beliefs
    <3>. QED  BY <3>1, <3>2 DEF Noted
  <2>5. /\ DOMAIN ledger' = Actors
        /\ \A c \in Actors : /\ DOMAIN ledger'[c] \subseteq Slots
                             /\ ledger'[c] \in [DOMAIN ledger'[c] -> 0..One]
    BY <1>2, <2>2, <2>4 DEF TypeInv, TypeOK
  <2>6. UNCHANGED <<redis, formed, grounds, story, settled, clock, tick, hand, crowded,
                    told, deeds, faults, history>>
    BY <1>4 DEF Note
  <2>. QED  BY <2>3, <2>5, <2>6 DEF TypeInv, TypeOK, redis, history
<1>. QED  BY <1>3, <1>4

\* The leader, the end of a tick and a crash keep the types.
LEMMA TypeEnd ==
  ASSUME TypeInv
  PROVE  /\ NextTick => TypeInv'
         /\ \A w \in Workers : FinishTick(w) => TypeInv'
         /\ \A w \in Workers : Crash(w) => TypeInv'
<1>1. ASSUME NextTick PROVE TypeInv'
  BY <1>1 DEF NextTick, TypeInv, TypeOK, redis, beliefs, mind, history
<1>2. ASSUME NEW w \in Workers, FinishTick(w) PROVE TypeInv'
  <2>1. jobs[w] # <<>>
    BY <1>2 DEF FinishTick, Doing
  <2>2. jobs' \in [Workers -> Seq(Tasks)]
    BY <1>2, <2>1, JobFacts DEF FinishTick
  <2>3. settled' \in [Actors -> Nat]
    BY <1>2 DEF FinishTick, TypeInv, TypeOK
  <2>4. UNCHANGED <<redis, story, clock, beliefs, tick, hand, crowded, told, deeds, faults,
                    history>>
    BY <1>2 DEF FinishTick
  <2>. QED  BY <2>2, <2>3, <2>4 DEF TypeInv, TypeOK, redis, beliefs, history
<1>3. ASSUME NEW w \in Workers, Crash(w) PROVE TypeInv'
  <2>1. jobs' \in [Workers -> Seq(Tasks)]
    BY <1>3 DEF Crash, Lost, TypeInv
  <2>2. /\ hand' \in [Workers -> [Keys -> Edge \cup {None}]]
        /\ told' \in [Workers -> [Keys -> Seq(Event)]]
        /\ crowded' \in [Workers -> Keys \cup {None}]
        /\ grounds' \in [Actors -> {None} \cup SUBSET Slots]
    BY <1>3, Nothing DEF Crash, Lost, TypeInv, TypeOK
  <2>3. faults' \in 0..MaxFaults
    BY <1>3, EdgeAssumption DEF Crash, TypeInv, TypeOK
  <2>4. UNCHANGED <<redis, ledger, formed, story, settled, clock, tick, deeds, history>>
    BY <1>3 DEF Crash, Lost
  <2>. QED  BY <2>1, <2>2, <2>3, <2>4 DEF TypeInv, TypeOK, redis, history
<1>. QED  BY <1>1, <1>2, <1>3

\* The state stays well-formed.
LEMMA TypeNext ==
  ASSUME TypeInv, [Next]_vars
  PROVE  TypeInv'
<1>1. CASE UNCHANGED vars
  BY <1>1 DEF vars, redis, beliefs, mind, history, TypeInv, TypeOK
<1>2. CASE Next
  BY <1>2, TypeStart, TypeRead, TypeRest, TypeForget, TypeWrite, TypeList, TypeAppend,
     TypeReflect, TypeBelieve, TypeEnd DEF Next, Keep
<1>. QED  BY <1>1, <1>2

-----------------------------------------------------------------------------
(* The shape of what a worker has in mind.                                  *)

At(row, ops) == row # <<>> /\ row[1].op \in ops

\* Only what is done next can be half done.
HeadFirst(row) ==
  \A n \in 1..Len(row) : n > 1 => row[n].op \notin {"put", "forget", "note"}

\* A worker that puts an edge to rest was about to make another.
ForgetShape(row, asleep) ==
  At(row, {"forget"}) =>
    /\ Len(row) > 1 /\ row[2].op \in Making
    /\ row[1].keys[1] \in asleep /\ row[1].keys[1] \notin KeysOf(row[2])

CrowdedShape(row, crowd) ==
  crowd # None => At(row, Making) /\ crowd \in KeysOf(row[1])

\* The edges in hand are those of the task, as Redis keeps them.
HandShape(row, held) ==
  \A k \in Keys : held[k] # None =>
    /\ Kept(held[k])
    /\ \/ At(row, Reading) /\ k \in KeysOf(row[1])
       \/ At(row, {"forget"}) /\ k \in KeysOf(row[2])
       \/ At(row, {"put"}) /\ k \in {row[1].keys[1], Rev(row[1].keys[1])}

PutShape(row, held) ==
  At(row, {"put"}) =>
    LET l == row[1].keys[1]
    IN l[2] \in Actors /\ held[l] # None /\ held[Rev(l)] # None /\ Kept(row[1].value)

Shape(row, held, crowd, asleep) ==
  /\ HeadFirst(row) /\ ForgetShape(row, asleep) /\ CrowdedShape(row, crowd)
  /\ HandShape(row, held) /\ PutShape(row, held)

ShapeInv ==
  /\ \A w \in Workers : Shape(jobs[w], hand[w], crowded[w], dormant)
  /\ \A k \in Keys : edge[k] # None => Kept(edge[k])

\* The task in front, in other words.
LEMMA DoingAt ==
  ASSUME TypeInv, NEW w \in Workers, NEW ops
  PROVE  Doing(w, ops) <=> At(jobs[w], ops)
BY JobFacts DEF Doing, At

\* More that is asleep disturbs nothing.
LEMMA ShapeAsleep ==
  ASSUME NEW row, NEW held, NEW crowd, NEW asleep, NEW more, asleep \subseteq more,
         Shape(row, held, crowd, asleep)
  PROVE  Shape(row, held, crowd, more)
BY DEF Shape, ForgetShape

\* With nothing in hand, any row will do that begins with nothing half done.
LEMMA ShapeFresh ==
  ASSUME NEW row, HeadFirst(row), ~At(row, {"put", "forget"}),
         NEW held, \A k \in Keys : held[k] = None, NEW asleep
  PROVE  Shape(row, held, None, asleep)
BY DEF Shape, ForgetShape, CrowdedShape, HandShape, PutShape, At

\* Away from edges there is nothing in hand.
LEMMA ShapeElsewhere ==
  ASSUME NEW row, NEW held, NEW crowd, NEW asleep, Shape(row, held, crowd, asleep),
         ~At(row, Reading \cup {"put", "forget"})
  PROVE  crowd = None /\ \A k \in Keys : held[k] = None
BY DEF Shape, CrowdedShape, HandShape, At, Reading, Making

\* The rest of a row has nothing half done.
LEMMA ShapeTail ==
  ASSUME NEW row \in Seq(Tasks), row # <<>>, HeadFirst(row)
  PROVE  /\ HeadFirst(Tail(row)) /\ ~At(Tail(row), {"put", "forget"})
         /\ \A x \in Tasks : /\ HeadFirst(<<x>> \o Tail(row))
                             /\ At(<<x>> \o Tail(row), {x.op})
         /\ \A s \in Seq(Tasks) : (\A n \in 1..Len(s) : s[n].op \notin {"put", "forget", "note"})
              => HeadFirst(s \o Tail(row)) /\ ~At(s \o Tail(row), {"put", "forget"})
<1>. DEFINE rest == Tail(row)
            done == {"put", "forget", "note"}
<1>1. rest \in Seq(Tasks) /\ \A n \in 1..Len(rest) : rest[n].op \notin done
  <2>1. /\ rest \in Seq(Tasks) /\ Len(rest) = Len(row) - 1
        /\ \A n \in 1..Len(rest) : n + 1 \in 1..Len(row) /\ rest[n] = row[n + 1]
    BY RowRest
  <2>. HIDE DEF rest
  <2>2. \A n \in 1..Len(rest) : n \in Nat /\ n > 0 /\ n + 1 > 1
    OBVIOUS
  <2>. QED  BY <2>1, <2>2 DEF HeadFirst
<1>. HIDE DEF rest
<1>2. \A s \in Seq(Tasks) : s # <<>> => 1 \in 1..Len(s)
  BY RowRest
<1>3. HeadFirst(rest) /\ ~At(rest, {"put", "forget"})
  BY <1>1, <1>2 DEF HeadFirst, At
<1>4. ASSUME NEW x \in Tasks
      PROVE  HeadFirst(<<x>> \o rest) /\ At(<<x>> \o rest, {x.op})
  <2>1. /\ <<x>> \o rest # <<>> /\ (<<x>> \o rest)[1] = x
        /\ \A n \in 1..Len(<<x>> \o rest) : n > 1 =>
             n - 1 \in 1..Len(rest) /\ (<<x>> \o rest)[n] = rest[n - 1]
    BY <1>1, RowFront
  <2>. QED  BY <1>1, <2>1 DEF HeadFirst, At
<1>5. ASSUME NEW s \in Seq(Tasks), \A n \in 1..Len(s) : s[n].op \notin done
      PROVE  HeadFirst(s \o rest) /\ ~At(s \o rest, {"put", "forget"})
  <2>1. /\ s \o rest \in Seq(Tasks)
        /\ \A n \in 1..Len(s \o rest) :
             \/ n \in 1..Len(s) /\ (s \o rest)[n] = s[n]
             \/ n - Len(s) \in 1..Len(rest) /\ (s \o rest)[n] = rest[n - Len(s)]
    BY <1>1, RowConcat
  <2>2. \A n \in 1..Len(s \o rest) : (s \o rest)[n].op \notin done
    BY <1>1, <1>5, <2>1
  <2>. QED  BY <1>2, <2>1, <2>2 DEF HeadFirst, At
<1>. QED  BY <1>3, <1>4, <1>5 DEF rest

\* What a step of w leaves to the others.
LEMMA ShapeOthers ==
  ASSUME ShapeInv, NEW w \in Workers, dormant \subseteq dormant',
         \A v \in Workers \ {w} :
           jobs'[v] = jobs[v] /\ hand'[v] = hand[v] /\ crowded'[v] = crowded[v],
         Shape(jobs'[w], hand'[w], crowded'[w], dormant'),
         \A k \in Keys : edge'[k] # None => Kept(edge'[k])
  PROVE  ShapeInv'
BY ShapeAsleep DEF ShapeInv

\* At the start nobody is at work.
LEMMA ShapeInit == Init => ShapeInv
<1>. SUFFICES ASSUME Init PROVE ShapeInv
  OBVIOUS
<1>1. HeadFirst(<<>>) /\ ~At(<<>>, {"put", "forget"})
  BY DEF HeadFirst, At
<1>2. \A w \in Workers : Shape(jobs[w], hand[w], crowded[w], dormant)
  BY <1>1, Nothing, ShapeFresh DEF Init
<1>. QED  BY <1>2 DEF Init, ShapeInv

\* Taking a tick's events keeps the shape of the work.
LEMMA ShapeStart ==
  ASSUME TypeInv, ShapeInv, NEW w \in Workers, StartTick(w)
  PROVE  ShapeInv'
<1>1. /\ jobs[w] = <<>> /\ jobs' = [jobs EXCEPT ![w] = jobs'[w]] /\ jobs'[w] \in Seq(Tasks)
      /\ \A n \in 1..Len(jobs'[w]) : jobs'[w][n].op \in Making \cup {"decay", "reflect", "end"}
  BY StartFacts
<1>2. UNCHANGED <<edge, hand, crowded, dormant>>
  BY DEF StartTick, redis, history
<1>3. Shape(jobs[w], hand[w], crowded[w], dormant)
  BY DEF ShapeInv
<1>4. crowded[w] = None /\ \A k \in Keys : hand[w][k] = None
  BY <1>1, <1>3, ShapeElsewhere DEF At
<1>5. HeadFirst(jobs'[w]) /\ ~At(jobs'[w], {"put", "forget"})
  BY <1>1, RowRest DEF HeadFirst, At, Making
<1>6. Shape(jobs'[w], hand'[w], crowded'[w], dormant')
  BY <1>2, <1>4, <1>5, ShapeFresh
<1>7. \A v \in Workers \ {w} : jobs'[v] = jobs[v]
  BY <1>1 DEF TypeInv
<1>. QED  BY <1>2, <1>6, <1>7, ShapeOthers DEF ShapeInv

\* Reading an edge, or making a first one, keeps the shape.
LEMMA ShapeRead ==
  ASSUME TypeInv, ShapeInv, NEW w \in Workers, Load(w) \/ Meet(w)
  PROVE  ShapeInv'
<1>. DEFINE k == NextKey(w)
            row == jobs[w]
<1>1. /\ k \in Keys /\ k \in KeysOf(row[1]) /\ At(row, Reading) /\ crowded[w] = None
      /\ row # <<>>
  BY NextKeyIs, DoingAt, JobFacts DEF Load, Meet, At
<1>2. Shape(row, hand[w], crowded[w], dormant)
  BY DEF ShapeInv
<1>3. \E e \in Edge : Kept(e) /\ hand' = [hand EXCEPT ![w][k] = e]
  <2>1. CASE Load(w)
    <3>1. edge[k] # None /\ hand' = [hand EXCEPT ![w][k] = edge[k]]
      BY <2>1 DEF Load, Take
    <3>. HIDE DEF k
    <3>2. Kept(edge[k]) /\ edge[k] \in Edge
      BY <1>1, <3>1 DEF ShapeInv, Kept
    <3>. QED  BY <3>1, <3>2
  <2>2. CASE Meet(w)
    BY <2>2, NewcomerKept DEF Meet, Take, Kept
  <2>. QED  BY <2>1, <2>2
<1>4. PICK e \in Edge : Kept(e) /\ hand' = [hand EXCEPT ![w][k] = e]
  BY <1>3
<1>5. jobs' = jobs /\ edge' = edge /\ dormant' = dormant
  BY DEF Load, Meet, redis
<1>6. /\ crowded'[w] \in {k, None} /\ (crowded'[w] # None => At(row, Making))
      /\ \A v \in Workers \ {w} : crowded'[v] = crowded[v]
  <2>1. CASE Load(w)
    BY <1>1, <2>1 DEF Load
  <2>2. CASE Meet(w)
    <3>1. ~Doing(w, {"cool", "muse"})
      BY <2>2 DEF Meet
    <3>2. At(row, Making)
      BY <1>1, <3>1, DoingAt DEF At, Reading, Making
    <3>3. crowded' = [crowded EXCEPT ![w] = IF Cardinality(index[k[1]] \cup {k[2]}) > MaxEdges
                                            THEN k ELSE None]
      BY <2>2 DEF Meet
    <3>. HIDE DEF k
    <3>. QED  BY <3>2, <3>3 DEF TypeInv, TypeOK
  <2>. QED  BY <2>1, <2>2
<1>. HIDE DEF k
<1>7. /\ \A v \in Workers \ {w} : hand'[v] = hand[v]
      /\ \A l \in Keys : hand'[w][l] = IF l = k THEN e ELSE hand[w][l]
  BY <1>1, <1>4 DEF TypeInv, TypeOK
<1>8. Shape(row, hand'[w], crowded'[w], dormant)
  <2>1. HandShape(row, hand'[w])
    BY <1>1, <1>2, <1>4, <1>7 DEF Shape, HandShape
  <2>2. CrowdedShape(row, crowded'[w])
    BY <1>1, <1>6 DEF CrowdedShape
  <2>3. PutShape(row, hand'[w])
    BY <1>1 DEF PutShape, At, Reading
  <2>. QED  BY <1>2, <2>1, <2>2, <2>3 DEF Shape
<1>. QED  BY <1>5, <1>6, <1>7, <1>8, ShapeOthers DEF ShapeInv

\* Who is put to rest is in nobody's task.
LEMMA RestFacts ==
  ASSUME TypeInv, ShapeInv, NEW w \in Workers, PutToRest(w)
  PROVE  LET a == crowded[w][1]
             b == Weakest(crowded[w])
         IN /\ crowded[w] \in Keys /\ a \in Actors /\ crowded' = [crowded EXCEPT ![w] = None]
            /\ At(jobs[w], Making) /\ crowded[w] \in KeysOf(jobs[w][1])
            /\ \/ /\ index[a] \ {crowded[w][2]} = {}
                  /\ UNCHANGED <<index, jobs, dormant, clash>>
               \/ /\ <<a, b>> \in Keys /\ b \in index[a]
                  /\ <<a, b>> \notin KeysOf(jobs[w][1])
                  /\ index' = [index EXCEPT ![a] = @ \ {b}]
                  /\ jobs' = [jobs EXCEPT ![w] =
                                <<[op |-> "forget", keys |-> <<<<a, b>>>>]>> \o @]
                  /\ dormant' = dormant \cup {<<a, b>>}
                  /\ clash' = (clash \/ Busy(<<a, b>>, w))
<1>. DEFINE c == crowded[w]
            a == c[1]
            b == Weakest(c)
<1>1. c \in Keys /\ a \in Actors /\ c[1] # c[2] /\ c = <<a, c[2]>>
  <2>1. c \in Keys
    BY DEF PutToRest, TypeInv, TypeOK
  <2>. QED  BY <2>1, KeyFacts
<1>2. At(jobs[w], Making) /\ c \in KeysOf(jobs[w][1])
  BY DEF PutToRest, ShapeInv, Shape, CrowdedShape
<1>3. crowded' = [crowded EXCEPT ![w] = None]
  BY DEF PutToRest
<1>4. CASE index[a] \ {c[2]} = {}
  BY <1>1, <1>2, <1>3, <1>4 DEF PutToRest
<1>5. CASE index[a] \ {c[2]} # {}
  <2>1. b \in index[a] \ {c[2]}
    BY <1>1, <1>5, WeakestIs
  <2>2. <<a, b>> \in Keys
    BY <1>1, <2>1, KeyFacts DEF TypeInv, TypeOK
  <2>3. KeysOf(jobs[w][1]) \subseteq {c, Rev(c)}
    <3>1. jobs[w][1] \in Tasks /\ jobs[w][1].op \in Reading
      BY <1>2, JobFacts DEF At, Making, Reading
    <3>. DEFINE j == jobs[w][1]
    <3>2. \/ KeysOf(j) = {j.keys[1]}
          \/ /\ KeysOf(j) = {j.keys[1], Rev(j.keys[1])}
             /\ j.keys[1] \in Keys /\ j.keys[1][2] \in Actors
      BY <3>1, KeyTasks
    <3>. HIDE DEF j
    <3>3. KeysOf(j) \subseteq {c, Rev(c)}
      BY <1>2, <3>2, KeyFacts DEF j
    <3>. QED  BY <3>3 DEF j
  <2>4. <<a, b>> # c /\ <<a, b>> # Rev(c)
    BY <1>1, <2>1 DEF Rev
  <2>5. /\ index' = [index EXCEPT ![a] = @ \ {b}]
        /\ jobs' = [jobs EXCEPT ![w] = <<[op |-> "forget", keys |-> <<<<a, b>>>>]>> \o @]
        /\ dormant' = dormant \cup {<<a, b>>}
        /\ clash' = (clash \/ Busy(<<a, b>>, w))
    BY <1>5 DEF PutToRest
  <2>. HIDE DEF a, b, c
  <2>6. b \in index[a] /\ <<a, b>> \notin KeysOf(jobs[w][1])
    BY <2>1, <2>3, <2>4
  <2>. QED  BY <1>1, <1>2, <1>3, <2>2, <2>5, <2>6 DEF a, b, c
<1>. QED  BY <1>4, <1>5

\* Putting an edge to rest keeps the shape.
LEMMA ShapeRest ==
  ASSUME TypeInv, ShapeInv, NEW w \in Workers, PutToRest(w)
  PROVE  ShapeInv'
<1>. DEFINE a == crowded[w][1]
            b == Weakest(crowded[w])
            row == jobs[w]
<1>1. /\ crowded' = [crowded EXCEPT ![w] = None] /\ At(row, Making)
      /\ \/ UNCHANGED <<index, jobs, dormant, clash>>
         \/ /\ <<a, b>> \in Keys /\ <<a, b>> \notin KeysOf(row[1])
            /\ jobs' = [jobs EXCEPT ![w] = <<[op |-> "forget", keys |-> <<<<a, b>>>>]>> \o @]
            /\ dormant' = dormant \cup {<<a, b>>}
  BY RestFacts
<1>2. edge' = edge /\ hand' = hand
  BY DEF PutToRest
<1>3. Shape(row, hand[w], crowded[w], dormant)
  BY DEF ShapeInv
<1>4. /\ crowded'[w] = None
      /\ \A v \in Workers \ {w} : crowded'[v] = crowded[v]
  BY <1>1 DEF TypeInv, TypeOK
<1>5. CASE UNCHANGED <<index, jobs, dormant, clash>>
  <2>1. Shape(jobs'[w], hand'[w], crowded'[w], dormant')
    BY <1>2, <1>3, <1>4, <1>5 DEF Shape, CrowdedShape
  <2>. QED  BY <1>2, <1>4, <1>5, <2>1, ShapeOthers DEF ShapeInv
<1>6. CASE /\ <<a, b>> \in Keys /\ <<a, b>> \notin KeysOf(row[1])
           /\ jobs' = [jobs EXCEPT ![w] = <<[op |-> "forget", keys |-> <<<<a, b>>>>]>> \o @]
           /\ dormant' = dormant \cup {<<a, b>>}
  <2>. DEFINE key == <<a, b>>
              x == [op |-> "forget", keys |-> <<key>>]
              new == <<x>> \o row
  <2>1. x \in Tasks /\ row \in Seq(Tasks)
    BY <1>6, TaskMakes DEF TypeInv
  <2>2. x.op = "forget" /\ x.keys[1] = key
    OBVIOUS
  <2>. HIDE DEF x
  <2>3. /\ new # <<>> /\ new[1] = x /\ Len(new) = Len(row) + 1 /\ new \in Seq(Tasks)
        /\ \A n \in 1..Len(new) : n > 1 => n - 1 \in 1..Len(row) /\ new[n] = row[n - 1]
    BY <2>1, RowFront
  <2>4. /\ Len(row) \in Nat /\ Len(row) >= 1 /\ row # <<>> /\ row[1].op \in Making
        /\ row[1].op \in Reading /\ ~(row[1].op \in {"put", "forget", "note"})
    BY <1>1, <2>1, RowRest DEF At, Making, Reading
  <2>. HIDE DEF new
  <2>5. new[2] = row[1] /\ Len(new) > 1
    BY <2>3, <2>4
  <2>6. HeadFirst(new)
    <3>1. ASSUME NEW n \in 1..Len(new), n > 1
          PROVE  new[n].op \notin {"put", "forget", "note"}
      <4>1. n - 1 \in 1..Len(row) /\ new[n] = row[n - 1] /\ (n - 1 = 1 \/ n - 1 > 1)
        BY <2>3, <3>1
      <4>2. \A m \in 1..Len(row) : m > 1 => row[m].op \notin {"put", "forget", "note"}
        BY <1>3 DEF Shape, HeadFirst
      <4>. QED  BY <2>4, <4>1, <4>2
    <3>. QED  BY <3>1 DEF HeadFirst
  <2>7. At(new, {"forget"}) /\ ~At(new, {"put"})
    BY <2>2, <2>3 DEF At
  <2>8. HandShape(new, hand[w])
    <3>1. \A k \in Keys : hand[w][k] # None => Kept(hand[w][k]) /\ k \in KeysOf(row[1])
      BY <1>3, <2>4 DEF Shape, HandShape, At
    <3>. QED  BY <2>5, <2>7, <3>1 DEF HandShape
  <2>. HIDE DEF key
  <2>9. Shape(new, hand[w], None, dormant \cup {key})
    BY <1>6, <2>2, <2>3, <2>4, <2>5, <2>6, <2>7, <2>8
       DEF Shape, ForgetShape, CrowdedShape, PutShape, key
  <2>10. /\ jobs'[w] = new /\ dormant' = dormant \cup {key}
         /\ \A v \in Workers \ {w} : jobs'[v] = jobs[v]
    BY <1>6 DEF TypeInv, new, x, key
  <2>11. Shape(jobs'[w], hand'[w], crowded'[w], dormant')
    BY <1>2, <1>4, <2>9, <2>10
  <2>. QED  BY <1>2, <1>4, <2>10, <2>11, ShapeOthers DEF ShapeInv
<1>. QED  BY <1>1, <1>5, <1>6

\* The sweep keeps the shape.
LEMMA ShapeForget ==
  ASSUME TypeInv, ShapeInv, NEW w \in Workers, Forget(w)
  PROVE  ShapeInv'
<1>. DEFINE row == jobs[w]
            k == Job(w).keys[1]
<1>1. At(row, {"forget"}) /\ row # <<>> /\ k \in Keys
  BY DoingAt, DoingKeys DEF Forget
<1>2. /\ row \in Seq(Tasks) /\ Tail(row) \in Seq(Tasks) /\ Len(Tail(row)) = Len(row) - 1
      /\ \A n \in 1..Len(Tail(row)) : n + 1 \in 1..Len(row) /\ Tail(row)[n] = row[n + 1]
  BY <1>1, RowRest, JobFacts
<1>3. /\ HeadFirst(row) /\ Len(row) > 1 /\ row[2].op \in Making
      /\ crowded[w] = None
      /\ \A l \in Keys : hand[w][l] # None => Kept(hand[w][l]) /\ l \in KeysOf(row[2])
  BY <1>1 DEF ShapeInv, Shape, ForgetShape, CrowdedShape, HandShape, At, Reading, Making
<1>4. /\ jobs' = [jobs EXCEPT ![w] = Tail(@)] /\ edge' = [edge EXCEPT ![k] = None]
      /\ UNCHANGED <<hand, crowded, dormant>>
  BY DEF Forget, Finished
<1>. DEFINE new == Tail(row)
<1>5. /\ jobs'[w] = new /\ \A v \in Workers \ {w} : jobs'[v] = jobs[v]
      /\ \A l \in Keys : edge'[l] = IF l = k THEN None ELSE edge[l]
  <2>. HIDE DEF k
  <2>. QED  BY <1>1, <1>4 DEF TypeInv, TypeOK
<1>6. HeadFirst(new) /\ ~At(new, {"put", "forget"})
  BY <1>1, <1>2, <1>3, ShapeTail
<1>. HIDE DEF new, k
<1>7. new[1] = row[2] /\ new # <<>>
  <2>1. Len(Tail(row)) \in Nat /\ Len(row) - 1 >= 1
    BY <1>2, <1>3
  <2>2. 1 \in 1..Len(Tail(row))
    BY <1>2, <2>1
  <2>3. Tail(row)[1] = row[1 + 1] /\ Tail(row) # <<>>
    <3>1. Tail(row)[1] = row[1 + 1]
      BY <1>2, <2>2
    <3>2. Tail(row) # <<>>
      BY <1>2, <2>2, RowHas
    <3>. QED  BY <3>1, <3>2
  <2>. HIDE DEF row
  <2>. QED  BY <2>3 DEF new
<1>8. HandShape(new, hand[w])
  BY <1>3, <1>7 DEF HandShape, At, Making, Reading
<1>9. Shape(new, hand[w], None, dormant)
  BY <1>6, <1>8 DEF Shape, ForgetShape, CrowdedShape, PutShape, At
<1>10. Shape(jobs'[w], hand'[w], crowded'[w], dormant')
  BY <1>3, <1>4, <1>5, <1>9
<1>. QED  BY <1>4, <1>5, <1>10, ShapeOthers DEF ShapeInv

\* A step that ends with empty hands and a row with nothing half done.
LEMMA ShapeIdle ==
  ASSUME TypeInv, ShapeInv, NEW w \in Workers, NEW row,
         jobs' = [jobs EXCEPT ![w] = row],
         HeadFirst(row), ~At(row, {"put", "forget"}),
         \A k \in Keys : hand'[w][k] = None,
         \A v \in Workers \ {w} : hand'[v] = hand[v] /\ crowded'[v] = crowded[v],
         crowded'[w] = None, dormant' = dormant,
         \A k \in Keys : edge'[k] # None => Kept(edge'[k])
  PROVE  ShapeInv'
<1>1. Shape(row, hand'[w], crowded'[w], dormant')
  BY ShapeFresh
<1>2. jobs'[w] = row /\ \A v \in Workers \ {w} : jobs'[v] = jobs[v]
  BY DEF TypeInv
<1>. QED  BY <1>1, <1>2, ShapeOthers

\* Skipping an edge that is gone keeps the shape.
LEMMA ShapeGone ==
  ASSUME TypeInv, ShapeInv, NEW w \in Workers, Gone(w)
  PROVE  ShapeInv'
<1>. DEFINE row == jobs[w]
            k == Job(w).keys[1]
<1>1. /\ Doing(w, {"cool", "muse"}) /\ row # <<>> /\ Loading(w) /\ Job(w).op # "stage"
      /\ At(row, {"cool", "muse"})
  BY DoingAt DEF Gone, Doing
<1>2. KeysOf(Job(w)) = {k} /\ Job(w) = row[1] /\ row \in Seq(Tasks)
  BY <1>1, DoingKeys, JobFacts DEF Reading
<1>3. NextKey(w) = k /\ hand[w][k] = None /\ crowded[w] = None
  BY <1>1, <1>2, NextKeyIs
<1>4. \A l \in Keys : hand[w][l] = None
  BY <1>1, <1>2, <1>3 DEF ShapeInv, Shape, HandShape, At
<1>5. jobs' = [jobs EXCEPT ![w] = Tail(row)] /\ UNCHANGED <<edge, hand, crowded, dormant>>
  BY DEF Gone, Finished, redis, history
<1>6. HeadFirst(Tail(row)) /\ ~At(Tail(row), {"put", "forget"})
  BY <1>1, <1>2, ShapeTail DEF ShapeInv, Shape
<1>7. \A l \in Keys : edge'[l] # None => Kept(edge'[l])
  BY <1>5 DEF ShapeInv
<1>. QED  BY <1>3, <1>4, <1>5, <1>6, <1>7, ShapeIdle

\* The last write of a task keeps the shape.
LEMMA ShapeWrite ==
  ASSUME TypeInv, ShapeInv, NEW w \in Workers, Save(w) \/ Put(w)
  PROVE  ShapeInv'
<1>. DEFINE row == jobs[w]
            k == Job(w).keys[1]
<1>1. row # <<>> /\ crowded[w] = None /\ k \in Keys
  <2>1. CASE Save(w)
    BY <2>1, SaveFacts DEF Save, InHand
  <2>2. CASE Put(w)
    BY <2>2, DoingAt, DoingKeys
       DEF Put, ShapeInv, Shape, CrowdedShape, At, Making
  <2>. QED  BY <2>1, <2>2
<1>2. /\ jobs' = [jobs EXCEPT ![w] = Tail(row)] /\ hand' = [hand EXCEPT ![w] = Empty]
      /\ UNCHANGED <<crowded, dormant>>
  BY DEF Save, Put, Finished, history
<1>3. HeadFirst(Tail(row)) /\ ~At(Tail(row), {"put", "forget"})
  BY <1>1, JobFacts, ShapeTail DEF ShapeInv, Shape
<1>4. \E e \in Edge : Kept(e) /\ edge' = [edge EXCEPT ![k] = e]
  <2>1. CASE Save(w)
    BY <2>1, SaveFacts DEF Kept
  <2>2. CASE Put(w)
    <3>1. Kept(Job(w).value)
      BY <1>1, <2>2, DoingAt, JobFacts DEF Put, ShapeInv, Shape, PutShape
    <3>2. edge' = [edge EXCEPT ![k] = Stored(Job(w).value)]
      BY <2>2 DEF Put
    <3>. QED  BY <3>1, <3>2 DEF Kept
  <2>. QED  BY <2>1, <2>2
<1>5. PICK e \in Edge : Kept(e) /\ edge' = [edge EXCEPT ![k] = e]
  BY <1>4
<1>. HIDE DEF k
<1>6. \A l \in Keys : edge'[l] # None => Kept(edge'[l])
  BY <1>1, <1>5 DEF ShapeInv, TypeInv, TypeOK
<1>7. /\ \A l \in Keys : hand'[w][l] = None
      /\ \A v \in Workers \ {w} : hand'[v] = hand[v] /\ crowded'[v] = crowded[v]
      /\ crowded'[w] = None
  BY <1>1, <1>2, Nothing DEF TypeInv, TypeOK
<1>. QED  BY <1>2, <1>3, <1>6, <1>7, ShapeIdle

\* A changed stage is written as it is.
LEMMA AfterKept ==
  ASSUME NEW e, Kept(e), NEW s \in Stages \cup {"same"}
  PROVE  LET c == IF s = "same" THEN e ELSE TransitionStage(e, s)
         IN /\ Kept(c) /\ Stored(c) = c /\ c.stage = IF s = "same" THEN e.stage ELSE s
            /\ \A said : Owes(e, said) => Owes(c, said)
            /\ Small(e) => Small(c)
BY StageKept DEF Kept

\* Judging the stage of an edge keeps the shape.
LEMMA ShapeJudge ==
  ASSUME TypeInv, ShapeInv, NEW w \in Workers, Judge(w)
  PROVE  ShapeInv'
<1>. DEFINE row == jobs[w]
            k == Job(w).keys[1]
            l == Rev(k)
            after(s, e) == IF s = "same" THEN e ELSE TransitionStage(e, s)
<1>1. PICK s \in Stages \cup {"same"} :
        /\ k \in Keys /\ l \in Keys /\ k[2] \in Actors /\ KeysOf(Job(w)) = {k, l}
        /\ Doing(w, {"stage"}) /\ row # <<>> /\ crowded[w] = None
        /\ hand[w][k] \in Edge /\ hand[w][k] # None
        /\ hand[w][l] \in Edge /\ hand[w][l] # None
        /\ after(s, hand[w][k]) \in Edge /\ after(s, hand[w][l]) \in Edge
        /\ edge' = [edge EXCEPT ![k] = Stored(after(s, hand[w][k]))]
        /\ jobs' = [jobs EXCEPT ![w] =
             <<[op |-> "put", keys |-> <<l>>, value |-> after(s, hand[w][l])]>> \o Tail(@)]
  BY JudgeFacts
<1>. DEFINE e == after(s, hand[w][k])
            f == after(s, hand[w][l])
            x == [op |-> "put", keys |-> <<l>>, value |-> f]
<1>2. /\ row \in Seq(Tasks) /\ row # <<>> /\ Job(w) = row[1] /\ At(row, {"stage"})
  BY <1>1, JobFacts, DoingAt
<1>3. Shape(row, hand[w], crowded[w], dormant)
  BY DEF ShapeInv
<1>4. Kept(hand[w][k]) /\ Kept(hand[w][l])
  BY <1>1, <1>3 DEF Shape, HandShape
<1>5. Kept(e) /\ Kept(f) /\ Stored(e) = e
  BY <1>4, AfterKept
<1>6. Rev(l) = k /\ l[2] \in Actors
  BY <1>1, KeyFacts DEF Rev
<1>7. x \in Tasks /\ x.op = "put" /\ x.keys[1] = l /\ x.value = f
  BY <1>1, TaskMakes
<1>8. jobs' = [jobs EXCEPT ![w] = <<x>> \o Tail(@)] /\ edge' = [edge EXCEPT ![k] = Stored(e)]
  BY <1>1
<1>. HIDE DEF e, f, x
<1>. DEFINE new == <<x>> \o Tail(row)
<1>9. HeadFirst(new) /\ At(new, {"put"}) /\ new[1] = x
  <2>1. HeadFirst(row)
    BY <1>3 DEF Shape
  <2>2. HeadFirst(new) /\ At(new, {x.op})
    BY <1>2, <1>7, <2>1, ShapeTail
  <2>3. Tail(row) \in Seq(Tasks)
    BY <1>2, RowRest
  <2>. QED  BY <1>7, <2>2, <2>3, RowFront
<1>10. jobs'[w] = new /\ \A v \in Workers \ {w} : jobs'[v] = jobs[v]
  BY <1>8 DEF TypeInv
<1>. HIDE DEF new
<1>11. \A m \in Keys : hand[w][m] # None => Kept(hand[w][m]) /\ m \in {k, l}
  BY <1>1, <1>2, <1>3 DEF Shape, HandShape, At
<1>12. Shape(new, hand[w], None, dormant)
  <2>. HIDE DEF k, l
  <2>1. HandShape(new, hand[w])
    BY <1>6, <1>7, <1>9, <1>11 DEF HandShape
  <2>2. PutShape(new, hand[w])
    BY <1>1, <1>5, <1>6, <1>7, <1>9 DEF PutShape
  <2>3. ForgetShape(new, dormant) /\ CrowdedShape(new, None)
    BY <1>9 DEF ForgetShape, CrowdedShape, At
  <2>. QED  BY <1>9, <2>1, <2>2, <2>3 DEF Shape
<1>13. UNCHANGED <<hand, crowded, dormant>>
  BY DEF Judge, history
<1>14. \A m \in Keys : edge'[m] # None => Kept(edge'[m])
  <2>. HIDE DEF k, l
  <2>. QED  BY <1>1, <1>5, <1>8 DEF ShapeInv, TypeInv, TypeOK
<1>15. Shape(jobs'[w], hand'[w], crowded'[w], dormant')
  BY <1>1, <1>10, <1>12, <1>13
<1>. QED  BY <1>10, <1>13, <1>14, <1>15, ShapeOthers DEF ShapeInv

\* A step away from edges.
LEMMA ShapeElse ==
  ASSUME TypeInv, ShapeInv, NEW w \in Workers,
         ListEdges(w) \/ Reflect(w) \/ State(w) \/ Note(w) \/ FinishTick(w)
  PROVE  ShapeInv'
<1>. DEFINE row == jobs[w]
            done == {"put", "forget", "note"}
<1>1. /\ At(row, {"decay", "reflect", "believe", "note", "end"}) /\ row # <<>>
      /\ row \in Seq(Tasks) /\ Job(w) = row[1] /\ HeadFirst(row) /\ Job(w) \in Tasks
  <2>1. Doing(w, {"decay", "reflect", "believe", "note", "end"}) /\ row # <<>>
    BY Zenon DEF ListEdges, Reflect, State, Note, FinishTick, Doing
  <2>. QED  BY <2>1, DoingAt, JobFacts DEF ShapeInv, Shape
<1>2. crowded[w] = None /\ \A k \in Keys : hand[w][k] = None
  <2>1. ~At(row, Reading \cup {"put", "forget"})
    BY <1>1 DEF At, Reading
  <2>. QED  BY <2>1, ShapeElsewhere DEF ShapeInv
<1>3. UNCHANGED <<edge, hand, crowded, dormant>>
  BY Zenon DEF ListEdges, Reflect, State, Note, FinishTick, redis, history
<1>4. /\ HeadFirst(Tail(row)) /\ ~At(Tail(row), {"put", "forget"})
      /\ \A x \in Tasks : HeadFirst(<<x>> \o Tail(row)) /\ At(<<x>> \o Tail(row), {x.op})
      /\ \A s \in Seq(Tasks) : (\A n \in 1..Len(s) : s[n].op \notin done)
           => HeadFirst(s \o Tail(row)) /\ ~At(s \o Tail(row), {"put", "forget"})
  BY <1>1, ShapeTail
<1>5. \E new : /\ jobs' = [jobs EXCEPT ![w] = new]
               /\ HeadFirst(new) /\ ~At(new, {"put", "forget"})
  <2>1. CASE ListEdges(w)
    <3>. DEFINE others == InOrder(index[Job(w).who])
                s == [n \in DOMAIN others |->
                        [op |-> "cool", keys |-> <<<<Job(w).who, others[n]>>>>,
                         ticks |-> Job(w).ticks]]
    <3>1. jobs' = [jobs EXCEPT ![w] = s \o Tail(row)]
      BY <2>1 DEF ListEdges
    <3>2. s \in Seq(Tasks)
      BY <2>1, CoolJobs
    <3>3. \A n \in 1..Len(s) : s[n].op \notin done
      <4>1. DOMAIN s = DOMAIN others /\ DOMAIN s = 1..Len(s)
        BY <3>2
      <4>. QED  BY <4>1
    <3>. HIDE DEF s
    <3>. QED  BY <1>4, <3>1, <3>2, <3>3
  <2>2. CASE Reflect(w)
    <3>1. PICK s \in Seq(Tasks) : /\ jobs' = [jobs EXCEPT ![w] = s \o Tail(jobs[w])]
                                  /\ \A n \in 1..Len(s) : s[n].op = "believe"
      BY <2>2, ReflectMakes
    <3>. QED  BY <1>4, <3>1
  <2>3. CASE State(w)
    <3>1. CASE jobs' = Finished(w)
      BY <1>4, <3>1 DEF Finished
    <3>2. CASE jobs' # Finished(w)
      <4>. DEFINE x == [Job(w) EXCEPT !.op = "note"]
      <4>1. jobs' = [jobs EXCEPT ![w] = <<x>> \o Tail(@)]
        BY <2>3, <3>2 DEF State
      <4>2. x \in Tasks /\ x.op = "note"
        BY <2>3, NoteTask
      <4>. HIDE DEF x
      <4>. QED  BY <1>4, <4>1, <4>2 DEF At
    <3>. QED  BY <3>1, <3>2
  <2>4. CASE Note(w)
    <3>. DEFINE b == Job(w).belief
                x == [op |-> "muse", keys |-> <<<<Job(w).who, b.about>>>>, sure |-> b.sure]
    <3>1. CASE b.kind = "person_insight"
      <4>1. jobs' = [jobs EXCEPT ![w] = <<x>> \o Tail(@)]
        BY <2>4, <3>1 DEF Note
      <4>2. x \in Tasks /\ x.op = "muse"
        BY <2>4, <3>1, MuseTask
      <4>. HIDE DEF x
      <4>. QED  BY <1>4, <4>1, <4>2 DEF At
    <3>2. CASE b.kind # "person_insight"
      <4>1. jobs' = [jobs EXCEPT ![w] = <<>> \o Tail(row)]
        BY <2>4, <3>2 DEF Note
      <4>2. <<>> \in Seq(Tasks) /\ \A n \in 1..Len(<<>>) : FALSE
        OBVIOUS
      <4>. QED  BY <1>4, <4>1, <4>2
    <3>. QED  BY <3>1, <3>2
  <2>5. CASE FinishTick(w)
    BY <1>4, <2>5 DEF FinishTick, Finished
  <2>. QED  BY <2>1, <2>2, <2>3, <2>4, <2>5
<1>6. \A l \in Keys : edge'[l] # None => Kept(edge'[l])
  BY <1>3 DEF ShapeInv
<1>. QED  BY Zenon, <1>2, <1>3, <1>5, <1>6, ShapeIdle

\* The leader, an append and a crash keep the shape.
LEMMA ShapeEnd ==
  ASSUME TypeInv, ShapeInv
  PROVE  /\ NextTick => ShapeInv'
         /\ \A w \in Workers : AppendNews(w) => ShapeInv'
         /\ \A w \in Workers : Crash(w) => ShapeInv'
<1>1. ASSUME NextTick PROVE ShapeInv'
  BY <1>1 DEF NextTick, ShapeInv, redis, mind, history
<1>2. ASSUME NEW w \in Workers, AppendNews(w) PROVE ShapeInv'
  BY <1>2 DEF AppendNews, ShapeInv, redis, history
<1>3. ASSUME NEW w \in Workers, Crash(w) PROVE ShapeInv'
  <2>1. /\ jobs' = [jobs EXCEPT ![w] = <<>>] /\ hand' = [hand EXCEPT ![w] = Empty]
        /\ crowded' = [crowded EXCEPT ![w] = None] /\ edge' = edge /\ dormant' = dormant
    BY <1>3 DEF Crash, Lost, redis, history
  <2>2. HeadFirst(<<>>) /\ ~At(<<>>, {"put", "forget"})
    BY DEF HeadFirst, At
  <2>3. /\ \A l \in Keys : hand'[w][l] = None
        /\ \A v \in Workers \ {w} : hand'[v] = hand[v] /\ crowded'[v] = crowded[v]
        /\ crowded'[w] = None
    BY <2>1, Nothing DEF TypeInv, TypeOK
  <2>4. \A l \in Keys : edge'[l] # None => Kept(edge'[l])
    BY <2>1 DEF ShapeInv
  <2>. QED  BY <2>1, <2>2, <2>3, <2>4, ShapeIdle
<1>. QED  BY <1>1, <1>2, <1>3

\* The shape is kept.
LEMMA ShapeNext ==
  ASSUME TypeInv, ShapeInv, [Next]_vars
  PROVE  ShapeInv'
<1>1. CASE UNCHANGED vars
  BY <1>1 DEF vars, redis, mind, history, ShapeInv
<1>2. CASE Next
  BY <1>2, ShapeStart, ShapeRead, ShapeRest, ShapeForget, ShapeGone, ShapeWrite, ShapeJudge,
     ShapeElse, ShapeEnd DEF Next, Keep
<1>. QED  BY <1>1, <1>2

-----------------------------------------------------------------------------
(* One at a time.                                                           *)

\* w has k in its hands or news of it to append.
Holds(w, k) == hand[w][k] # None \/ told[w][k] # <<>>

\* Nobody shares an edge until the history says so.
Excl ==
  ~clash => \A v, w \in Workers, k \in Keys : v # w => ~(Holds(v, k) /\ Holds(w, k))

\* Who takes nothing up shares nothing new.
LEMMA ExclLess ==
  ASSUME Excl, clash => clash',
         \A v \in Workers, k \in Keys : Holds(v, k)' => Holds(v, k)
  PROVE  Excl'
BY DEF Excl

\* A worker that takes an edge others hold is recorded as a clash.
LEMMA ExclTake ==
  ASSUME Excl, NEW w \in Workers, NEW k \in Keys, clash' = (clash \/ Busy(k, w)),
         \A v \in Workers, l \in Keys : Holds(v, l)' => Holds(v, l) \/ (v = w /\ l = k)
  PROVE  Excl'
<1>1. SUFFICES ASSUME ~clash', NEW u \in Workers, NEW v \in Workers, NEW l \in Keys, u # v,
                      Holds(u, l)', Holds(v, l)'
               PROVE  FALSE
  BY DEF Excl
<1>2. ~clash /\ \A x \in Workers \ {w} : ~Holds(x, k)
  BY <1>1 DEF Busy, Holds
<1>3. ~(Holds(u, l) /\ Holds(v, l))
  BY <1>1, <1>2 DEF Excl
<1>. QED  BY <1>1, <1>2, <1>3

\* Reading and meeting take an edge, and record the clash.
LEMMA ExclRead ==
  ASSUME TypeInv, Excl, NEW w \in Workers, Load(w) \/ Meet(w)
  PROVE  Excl'
<1>. DEFINE k == NextKey(w)
<1>1. k \in Keys
  BY NextKeyIs DEF Load, Meet
<1>2. clash' = (clash \/ Busy(k, w))
  BY DEF Load, Meet
<1>3. \E e : hand' = [hand EXCEPT ![w][k] = e]
  BY DEF Load, Meet, Take
<1>4. told' = told \/ \E x : told' = [told EXCEPT ![w][k] = Append(@, x)]
  BY DEF Load, Meet, Tell
<1>. HIDE DEF k
<1>5. \A v \in Workers, l \in Keys :
        (v # w \/ l # k) => hand'[v][l] = hand[v][l] /\ told'[v][l] = told[v][l]
  BY <1>1, <1>3, <1>4 DEF TypeInv, TypeOK
<1>6. \A v \in Workers, l \in Keys : Holds(v, l)' => Holds(v, l) \/ (v = w /\ l = k)
  BY <1>5 DEF Holds
<1>. QED  BY <1>1, <1>2, <1>6, ExclTake

\* Writing lets an edge go.
LEMMA ExclWrite ==
  ASSUME TypeInv, Excl, NEW w \in Workers, Save(w) \/ Judge(w) \/ Put(w)
  PROVE  Excl'
<1>. DEFINE k == Job(w).keys[1]
<1>1. k \in Keys /\ (told' # told => hand[w][k] # None)
  <2>1. CASE Save(w)
    BY <2>1, SaveFacts
  <2>2. CASE Judge(w)
    BY Zenon, <2>2, JudgeFacts
  <2>3. CASE Put(w)
    BY <2>3, DoingKeys DEF Put
  <2>. QED  BY <2>1, <2>2, <2>3
<1>2. clash' = clash
  BY Zenon DEF Save, Judge, Put, history
<1>3. hand' = hand \/ hand' = [hand EXCEPT ![w] = Empty]
  BY Zenon DEF Save, Judge, Put
<1>4. told' = told \/ \E x : told' = [told EXCEPT ![w][k] = Append(@, x)]
  BY Zenon DEF Save, Judge, Put, Tell
<1>. HIDE DEF k
<1>5. \A v \in Workers, l \in Keys : hand'[v][l] \in {hand[v][l], None}
  BY <1>3, Nothing DEF TypeInv, TypeOK
<1>6. \A v \in Workers, l \in Keys :
        told'[v][l] = told[v][l] \/ (v = w /\ l = k /\ hand[w][k] # None)
  BY <1>1, <1>4 DEF TypeInv, TypeOK
<1>7. \A v \in Workers, l \in Keys : Holds(v, l)' => Holds(v, l)
  BY <1>5, <1>6 DEF Holds
<1>. QED  BY <1>2, <1>7, ExclLess

\* What leaves hands and news alone leaves the exclusion alone.
LEMMA ExclElse ==
  ASSUME TypeInv, Excl, UNCHANGED hand, UNCHANGED told, clash => clash'
  PROVE  Excl'
BY ExclLess DEF Holds

\* Appending and crashing only let go.
LEMMA ExclLost ==
  ASSUME TypeInv, Excl, NEW w \in Workers, AppendNews(w) \/ Crash(w)
  PROVE  Excl'
<1>1. clash' = clash
  BY DEF AppendNews, Crash, Lost, history
<1>2. hand' = hand \/ hand' = [hand EXCEPT ![w] = Empty]
  BY DEF AppendNews, Crash, Lost
<1>3. \/ \E k \in Keys : told' = [told EXCEPT ![w][k] = <<>>]
      \/ told' = [told EXCEPT ![w] = Silence]
  BY DEF AppendNews, Crash, Lost
<1>4. \A v \in Workers, l \in Keys : /\ hand'[v][l] \in {hand[v][l], None}
                                     /\ told'[v][l] \in {told[v][l], <<>>}
  <2>1. \A v \in Workers, l \in Keys : hand'[v][l] \in {hand[v][l], None}
    BY <1>2, Nothing DEF TypeInv, TypeOK
  <2>2. \A v \in Workers, l \in Keys : told'[v][l] \in {told[v][l], <<>>}
    <3>1. CASE \E k \in Keys : told' = [told EXCEPT ![w][k] = <<>>]
      BY <3>1 DEF TypeInv, TypeOK
    <3>2. CASE told' = [told EXCEPT ![w] = Silence]
      BY <3>2, Nothing DEF TypeInv, TypeOK
    <3>. QED  BY <1>3, <3>1, <3>2
  <2>. QED  BY <2>1, <2>2
<1>5. \A v \in Workers, l \in Keys : Holds(v, l)' => Holds(v, l)
  BY <1>4 DEF Holds
<1>. QED  BY <1>1, <1>5, ExclLess

\* Every step keeps the exclusion.
LEMMA ExclNext ==
  ASSUME TypeInv, Excl, [Next]_vars
  PROVE  Excl'
<1>1. CASE UNCHANGED vars
  BY <1>1 DEF vars, mind, history, Excl, Holds
<1>2. CASE Next
  <2>1. ASSUME NEW w \in Workers, Load(w) \/ Meet(w) PROVE Excl'
    BY <2>1, ExclRead
  <2>2. ASSUME NEW w \in Workers, Save(w) \/ Judge(w) \/ Put(w) PROVE Excl'
    BY <2>2, ExclWrite
  <2>3. ASSUME NEW w \in Workers, AppendNews(w) \/ Crash(w) PROVE Excl'
    BY <2>3, ExclLost
  <2>4. ASSUME NEW w \in Workers,
               StartTick(w) \/ PutToRest(w) \/ Forget(w) \/ Gone(w) \/ ListEdges(w)
                 \/ Reflect(w) \/ State(w) \/ Note(w) \/ FinishTick(w)
        PROVE  Excl'
    <3>1. UNCHANGED hand /\ UNCHANGED told /\ (clash => clash')
      <4>1. CASE StartTick(w) \/ Gone(w) \/ ListEdges(w) \/ Reflect(w) \/ State(w)
                 \/ Note(w) \/ FinishTick(w)
        <5>1. hand' = hand /\ told' = told /\ clash' = clash
          BY Zenon, <4>1 DEF StartTick, Gone, ListEdges, Reflect, State, Note, FinishTick, history
        <5>. QED  BY <5>1
      <4>2. CASE Forget(w)
        <5>1. clash' = (clash \/ Busy(Job(w).keys[1], w)) /\ UNCHANGED hand /\ UNCHANGED told
          BY <4>2 DEF Forget
        <5>. QED  BY <5>1
      <4>3. CASE PutToRest(w)
        <5>1. /\ UNCHANGED hand /\ UNCHANGED told
              /\ \/ clash' = clash
                 \/ clash' = (clash \/ Busy(<<crowded[w][1], Weakest(crowded[w])>>, w))
          BY <4>3 DEF PutToRest
        <5>2. CASE clash' = clash
          BY <5>1, <5>2
        <5>3. CASE clash' = (clash \/ Busy(<<crowded[w][1], Weakest(crowded[w])>>, w))
          BY <5>1, <5>3
        <5>. QED  BY <5>1, <5>2, <5>3
      <4>. QED  BY <2>4, <4>1, <4>2, <4>3
    <3>. QED  BY <3>1, ExclElse
  <2>5. ASSUME NextTick PROVE Excl'
    BY <2>5, ExclElse DEF NextTick, mind, history
  <2>. QED  BY <1>2, <2>1, <2>2, <2>3, <2>4, <2>5 DEF Next, Keep
<1>. QED  BY <1>1, <1>2

-----------------------------------------------------------------------------
(* What was last said.                                                      *)

\* A set of positions that is not empty has a largest.
LEMMA LargestOf ==
  ASSUME NEW n \in Nat, NEW S \in SUBSET (1..n), S # {}
  PROVE  \E k \in S : \A m \in S : m <= k
<1>. DEFINE T == {m \in Nat : m <= n /\ n - m \in S}
<1>1. PICK x \in S : TRUE
  OBVIOUS
<1>2. n - x \in T /\ T \in SUBSET Nat
  <2>1. x \in 1..n
    OBVIOUS
  <2>2. n - x \in Nat /\ n - x <= n /\ n - (n - x) = x
    BY <2>1
  <2>. QED  BY <2>2
<1>3. PICK t \in T : \A m \in T : t <= m
  BY <1>2, SmallestOf
<1>4. n - t \in S /\ t \in Nat
  BY <1>3
<1>5. ASSUME NEW m \in S PROVE m <= n - t
  <2>1. m \in 1..n
    OBVIOUS
  <2>2. n - m \in Nat /\ n - m <= n /\ n - (n - m) = m
    BY <2>1
  <2>3. t <= n - m
    BY <1>3, <2>2
  <2>. QED  BY <1>4, <2>1, <2>3
<1>. QED  BY <1>4, <1>5

\* The last event that tells dimensions is the only one.
LEMMA LastIs ==
  ASSUME NEW seq \in Seq(Event), NEW n \in Telling(seq), \A m \in Telling(seq) : m <= n
  PROVE  LastOf(seq) = seq[n].dims
<1>. DEFINE P(x) == x \in Telling(seq) /\ \A m \in Telling(seq) : m <= x
            c == CHOOSE x \in Telling(seq) : \A m \in Telling(seq) : m <= x
<1>1. P(c)
  OBVIOUS
<1>2. Telling(seq) \subseteq Int
  BY DEF Telling
<1>3. c = n
  <2>. HIDE DEF c
  <2>. QED  BY <1>1, <1>2
<1>. QED  BY <1>3 DEF LastOf

\* LastOf is the last telling, when there is one.
LEMMA LastThere ==
  ASSUME NEW seq \in Seq(Event), Telling(seq) # {}
  PROVE  \E n \in Telling(seq) : (\A m \in Telling(seq) : m <= n) /\ LastOf(seq) = seq[n].dims
<1>1. Telling(seq) \in SUBSET (1..Len(seq)) /\ Len(seq) \in Nat
  BY DEF Telling
<1>. QED  BY <1>1, LargestOf, LastIs

\* The last of two rows of events that tells dimensions.
Latest(before, mine) ==
  IF Telling(mine) # {} THEN LastOf(mine)
  ELSE IF Telling(before) # {} THEN LastOf(before) ELSE Zero

\* What was told last is a relationship.
LEMMA LatestIs ==
  ASSUME NEW before \in Seq(Event), NEW mine \in Seq(Event)
  PROVE  Latest(before, mine) \in [Dimensions -> Int]
<1>1. \A seq \in Seq(Event) : Telling(seq) # {} => LastOf(seq) \in [Dimensions -> Int]
  <2>1. ASSUME NEW seq \in Seq(Event), Telling(seq) # {}
        PROVE  LastOf(seq) \in [Dimensions -> Int]
    <3>1. PICK n \in Telling(seq) : LastOf(seq) = seq[n].dims
      BY <2>1, LastThere
    <3>2. seq[n] \in Event
      BY DEF Telling
    <3>. QED  BY <3>1, <3>2 DEF Event
  <2>. QED  BY <2>1
<1>. QED  BY <1>1, NewsIs DEF Latest

\* Another event is the latest when it tells dimensions, and nothing new otherwise.
LEMMA LatestMore ==
  ASSUME NEW before \in Seq(Event), NEW mine \in Seq(Event), NEW x \in Event
  PROVE  /\ x.type \in {"met", "changed"} => Latest(before, Append(mine, x)) = x.dims
         /\ x.type \notin {"met", "changed"} =>
              Latest(before, Append(mine, x)) = Latest(before, mine)
<1>. DEFINE t == Append(mine, x)
            n == Len(mine) + 1
<1>1. /\ t \in Seq(Event) /\ Len(t) = n /\ n \in Nat /\ t[n] = x
      /\ \A m \in 1..Len(mine) : t[m] = mine[m]
  OBVIOUS
<1>. HIDE DEF t
<1>2. CASE x.type \in {"met", "changed"}
  <2>1. n \in Telling(t) /\ \A m \in Telling(t) : m <= n
    BY <1>1, <1>2 DEF Telling
  <2>. HIDE DEF n
  <2>2. LastOf(t) = x.dims
    BY <1>1, <2>1, LastIs
  <2>. QED  BY <1>2, <2>1, <2>2 DEF Latest, t
<1>3. CASE x.type \notin {"met", "changed"}
  <2>1. Telling(t) = Telling(mine)
    BY <1>1, <1>3 DEF Telling
  <2>2. Telling(mine) # {} => LastOf(t) = LastOf(mine)
    <3>1. ASSUME Telling(mine) # {} PROVE LastOf(t) = LastOf(mine)
      <4>1. PICK m \in Telling(mine) : /\ \A o \in Telling(mine) : o <= m
                                       /\ LastOf(mine) = mine[m].dims
        BY <3>1, LastThere
      <4>2. LastOf(t) = t[m].dims
        BY <1>1, <2>1, <4>1, LastIs
      <4>3. t[m] = mine[m]
        BY <1>1 DEF Telling
      <4>. QED  BY <4>1, <4>2, <4>3
    <3>. QED  BY <3>1
  <2>. QED  BY <1>3, <2>1, <2>2 DEF Latest, t
<1>. QED  BY <1>2, <1>3

\* What is appended was said before and is said still.
LEMMA LatestAppended ==
  ASSUME NEW before \in Seq(Event), NEW mine \in Seq(Event)
  PROVE  Latest(before \o mine, <<>>) = Latest(before, mine)
<1>. DEFINE t == before \o mine
            b == Len(before)
<1>1. /\ t \in Seq(Event) /\ Len(t) = b + Len(mine) /\ b \in Nat /\ Len(mine) \in Nat
      /\ \A n \in 1..b : t[n] = before[n]
      /\ \A n \in 1..Len(t) : n > b => n - b \in 1..Len(mine) /\ t[n] = mine[n - b]
      /\ \A n \in 1..Len(mine) : b + n \in 1..Len(t) /\ t[b + n] = mine[n]
  OBVIOUS
<1>2. Telling(<<>>) = {}
  BY DEF Telling
<1>. HIDE DEF t, b
<1>3. CASE Telling(mine) # {}
  <2>1. PICK m \in Telling(mine) : /\ \A o \in Telling(mine) : o <= m
                                   /\ LastOf(mine) = mine[m].dims
    BY <1>3, LastThere
  <2>2. m \in 1..Len(mine) /\ mine[m].type \in {"met", "changed"}
    BY DEF Telling
  <2>3. b + m \in Telling(t) /\ t[b + m] = mine[m]
    BY <1>1, <2>2 DEF Telling
  <2>4. ASSUME NEW o \in Telling(t) PROVE o <= b + m
    <3>1. o \in 1..Len(t) /\ t[o].type \in {"met", "changed"}
      BY DEF Telling
    <3>2. CASE o > b
      <4>1. o - b \in Telling(mine)
        BY <1>1, <3>1, <3>2 DEF Telling
      <4>2. o - b <= m
        BY <2>1, <4>1
      <4>. QED  BY <1>1, <2>2, <3>1, <4>2
    <3>. QED  BY <1>1, <2>2, <3>1, <3>2
  <2>5. LastOf(t) = mine[m].dims
    BY <1>1, <2>3, <2>4, LastIs
  <2>. QED  BY <1>2, <1>3, <2>1, <2>3, <2>5 DEF Latest, t
<1>4. CASE Telling(mine) = {}
  <2>1. Telling(t) = Telling(before)
    <3>1. ASSUME NEW n \in Telling(t) PROVE n \in Telling(before)
      <4>1. n \in 1..Len(t) /\ t[n].type \in {"met", "changed"}
        BY DEF Telling
      <4>2. ~(n > b)
        <5>1. ASSUME n > b PROVE FALSE
          <6>1. n - b \in Telling(mine)
            BY <1>1, <4>1, <5>1 DEF Telling
          <6>. QED  BY <1>4, <6>1
        <5>. QED  BY <5>1
      <4>3. n \in 1..b
        BY <1>1, <4>1, <4>2
      <4>. QED  BY <1>1, <4>1, <4>3 DEF Telling, b
    <3>2. ASSUME NEW n \in Telling(before) PROVE n \in Telling(t)
      <4>1. n \in 1..b /\ before[n].type \in {"met", "changed"}
        BY DEF Telling, b
      <4>. QED  BY <1>1, <4>1 DEF Telling
    <3>. QED  BY <3>1, <3>2
  <2>2. CASE Telling(before) = {}
    BY <1>2, <1>4, <2>1, <2>2 DEF Latest, t
  <2>3. CASE Telling(before) # {}
    <3>1. PICK m \in Telling(before) : /\ \A o \in Telling(before) : o <= m
                                       /\ LastOf(before) = before[m].dims
      BY <2>3, LastThere
    <3>2. LastOf(t) = t[m].dims
      BY <1>1, <2>1, <3>1, LastIs
    <3>3. t[m] = before[m]
      BY <1>1 DEF Telling, b
    <3>. QED  BY <1>2, <1>4, <2>1, <2>3, <3>1, <3>2, <3>3 DEF Latest, t
  <2>. QED  BY <2>2, <2>3
<1>. QED  BY <1>3, <1>4

\* Where only w has news, what it has counts.
LEMMA SaidOne ==
  ASSUME NEW before, NEW news, NEW w \in Workers, DOMAIN news = Workers,
         \A v \in Workers \ {w} : news[v] = <<>>
  PROVE  Said(before, news) = Latest(before, news[w])
<1>. DEFINE hot == {v \in Workers : Telling(news[v]) # {}}
<1>1. Telling(<<>>) = {}
  BY DEF Telling
<1>2. hot \subseteq {w}
  BY <1>1
<1>3. CASE Telling(news[w]) # {}
  <2>1. hot = {w}
    BY <1>2, <1>3
  <2>2. (CHOOSE v \in hot : TRUE) = w
    BY <2>1
  <2>. QED  BY <1>3, <2>1, <2>2 DEF Said, Latest
<1>4. CASE Telling(news[w]) = {}
  <2>1. hot = {}
    BY <1>2, <1>4
  <2>. QED  BY <1>4, <2>1 DEF Said, Latest
<1>. QED  BY <1>3, <1>4

-----------------------------------------------------------------------------
(* The gap is pending.                                                      *)

Newcomer == TransitionStage(Stranger, "acquaintance")

PutOn(row, k) == At(row, {"put"}) /\ row[1].keys[1] = k

\* What of k is in Redis, in a hand or about to be written differs from what was
\* last said by what is pending.
SaysOn(k) ==
  /\ edge[k] # None => Owes(edge[k], LastSaid(k)) /\ Small(edge[k])
  /\ \A w \in Workers : hand[w][k] # None =>
       /\ \/ At(jobs[w], {"put"}) \/ edge[k] = hand[w][k]
          \/ edge[k] = None /\ hand[w][k] = Newcomer
       /\ edge[k] = None => LastSaid(k) = Zero
  /\ \A w \in Workers : PutOn(jobs[w], k) =>
       Owes(jobs[w][1].value, LastSaid(k)) /\ Small(jobs[w][1].value)

SaysInv == Calm => \A k \in Keys : SaysOn(k)

\* What a worker read is what Redis has, or a new edge nothing was said of.
LEMMA HandSays ==
  ASSUME ShapeInv, NEW k \in Keys, SaysOn(k), NEW w \in Workers, hand[w][k] # None,
         ~At(jobs[w], {"put"})
  PROVE  /\ Kept(hand[w][k]) /\ Owes(hand[w][k], LastSaid(k)) /\ Small(hand[w][k])
         /\ edge[k] = hand[w][k] \/ (edge[k] = None /\ hand[w][k] = Newcomer)
<1>1. Kept(hand[w][k])
  BY DEF ShapeInv, Shape, HandShape
<1>2. CASE edge[k] = hand[w][k]
  BY <1>1, <1>2 DEF SaysOn
<1>3. CASE edge[k] = None /\ hand[w][k] = Newcomer
  BY <1>1, <1>3, NewcomerKept DEF SaysOn, Newcomer
<1>. QED  BY <1>2, <1>3 DEF SaysOn

\* What was said of an edge is as before when its events are.
LEMMA SaidSame ==
  ASSUME NEW k, story'[k] = story[k], \A v \in Workers : told'[v][k] = told[v][k]
  PROVE  LastSaid(k)' = LastSaid(k)
<1>1. [w \in Workers |-> told'[w][k]] = [w \in Workers |-> told[w][k]]
  OBVIOUS
<1>. QED  BY <1>1 DEF LastSaid

\* An edge that only left some hands.
LEMMA SaysFrame ==
  ASSUME NEW k \in Keys, SaysOn(k), edge'[k] = edge[k], LastSaid(k)' = LastSaid(k),
         \A v \in Workers :
           /\ hand'[v][k] \in {hand[v][k], None}
           /\ PutOn(jobs'[v], k) => PutOn(jobs[v], k) /\ jobs'[v][1] = jobs[v][1]
           /\ At(jobs[v], {"put"}) => At(jobs'[v], {"put"}) \/ hand'[v][k] = None
  PROVE  SaysOn(k)'
<1>. DEFINE said == LastSaid(k)
            saidNext == LastSaid(k)'
<1>1. saidNext = said
  OBVIOUS
<1>2. /\ edge[k] # None => Owes(edge[k], said) /\ Small(edge[k])
      /\ \A w \in Workers : hand[w][k] # None =>
           /\ \/ At(jobs[w], {"put"}) \/ edge[k] = hand[w][k]
              \/ edge[k] = None /\ hand[w][k] = Newcomer
           /\ edge[k] = None => said = Zero
      /\ \A w \in Workers : PutOn(jobs[w], k) =>
           Owes(jobs[w][1].value, said) /\ Small(jobs[w][1].value)
  BY DEF SaysOn
<1>. HIDE DEF said
<1>3. /\ edge'[k] # None => Owes(edge'[k], said) /\ Small(edge'[k])
      /\ \A w \in Workers : hand'[w][k] # None =>
           /\ \/ At(jobs'[w], {"put"}) \/ edge'[k] = hand'[w][k]
              \/ edge'[k] = None /\ hand'[w][k] = Newcomer
           /\ edge'[k] = None => said = Zero
      /\ \A w \in Workers : PutOn(jobs'[w], k) =>
           Owes(jobs'[w][1].value, said) /\ Small(jobs'[w][1].value)
  BY <1>2
<1>. QED  BY <1>1, <1>3 DEF SaysOn

\* A worker of which nothing is in the making.
LEMMA NoPut ==
  ASSUME NEW row \in Seq(Tasks), NEW held, NEW crowd, NEW asleep,
         Shape(row, held, crowd, asleep), \A k \in Keys : held[k] = None
  PROVE  ~At(row, {"put"})
<1>1. SUFFICES ASSUME At(row, {"put"}) PROVE FALSE
  OBVIOUS
<1>2. row[1] \in Tasks /\ row[1].op = "put"
  BY <1>1, RowRest DEF At
<1>3. row[1].keys[1] \in Keys
  BY <1>2, KeyTasks
<1>4. held[row[1].keys[1]] # None
  BY <1>1 DEF Shape, PutShape
<1>. QED  BY <1>3, <1>4

\* The steps of a worker that has nothing in hand and takes nothing up.
Aside(w) ==
  \/ StartTick(w) \/ Gone(w) \/ ListEdges(w) \/ Reflect(w) \/ State(w) \/ Note(w)
  \/ FinishTick(w)

\* An action aside of the edges touches neither them nor their events.
LEMMA AsideFacts ==
  ASSUME TypeInv, ShapeInv, NEW w \in Workers, Aside(w)
  PROVE  /\ \A k \in Keys : hand[w][k] = None
         /\ UNCHANGED <<edge, index, hand, told, story, crowded, faults, clash, dormant>>
         /\ \A v \in Workers \ {w} : jobs'[v] = jobs[v]
<1>1. UNCHANGED <<edge, index, hand, told, story, crowded, faults, clash, dormant>>
  BY Zenon DEF Aside, StartTick, Gone, ListEdges, Reflect, State, Note, FinishTick, redis, history
<1>2. \A v \in Workers \ {w} : jobs'[v] = jobs[v]
  <2>1. \E x : jobs' = [jobs EXCEPT ![w] = x]
    <3>1. CASE StartTick(w)
      BY <3>1, StartFacts
    <3>2. CASE Reflect(w)
      BY <3>2, ReflectMakes
    <3>3. CASE Gone(w) \/ FinishTick(w)
      BY <3>3 DEF Gone, FinishTick, Finished
    <3>4. CASE State(w)
      BY <3>4 DEF State, Finished
    <3>5. CASE Note(w)
      BY <3>5 DEF Note
    <3>6. CASE ListEdges(w)
      BY <3>6 DEF ListEdges
    <3>. QED  BY <3>1, <3>2, <3>3, <3>4, <3>5, <3>6 DEF Aside
  <2>. QED  BY <2>1 DEF TypeInv
<1>3. \A k \in Keys : hand[w][k] = None
  <2>1. CASE Gone(w)
    <3>1. Doing(w, {"cool", "muse"}) /\ Loading(w)
      BY <2>1 DEF Gone
    <3>2. /\ KeysOf(Job(w)) = {NextKey(w)} /\ hand[w][NextKey(w)] = None
          /\ Job(w).op \in {"cool", "muse"}
      BY <3>1, DoingKeys, NextKeyIs DEF Reading
    <3>3. \A k \in Keys : hand[w][k] # None => k \in KeysOf(Job(w))
      BY <3>1, <3>2, DoingAt, JobFacts DEF ShapeInv, Shape, HandShape, At, Doing
    <3>. QED  BY <3>2, <3>3
  <2>2. CASE ~Gone(w)
    <3>1. ~Doing(w, Reading \cup {"put", "forget"})
      BY Zenon, <2>2 DEF Aside, StartTick, Idle, ListEdges, Reflect, State, Note, FinishTick,
                  Doing, Reading
    <3>. QED  BY <3>1, DoingAt, ShapeElsewhere DEF ShapeInv
  <2>. QED  BY <2>1, <2>2
<1>. QED  BY <1>1, <1>2, <1>3

\* Such an action keeps what edge and events say of each other.
LEMMA SaysAside ==
  ASSUME TypeInv, ShapeInv, TypeInv', ShapeInv', NEW w \in Workers, Aside(w),
         \A k \in Keys : SaysOn(k)
  PROVE  \A k \in Keys : SaysOn(k)'
<1>1. /\ \A k \in Keys : hand[w][k] = None
      /\ UNCHANGED <<edge, hand, told, story>>
      /\ \A v \in Workers \ {w} : jobs'[v] = jobs[v]
  BY AsideFacts
<1>2. ~At(jobs[w], {"put"}) /\ ~At(jobs'[w], {"put"})
  <2>1. jobs[w] \in Seq(Tasks) /\ jobs'[w] \in Seq(Tasks)
    BY DEF TypeInv
  <2>2. /\ Shape(jobs[w], hand[w], crowded[w], dormant)
        /\ Shape(jobs'[w], hand'[w], crowded'[w], dormant')
    BY DEF ShapeInv
  <2>. QED  BY <1>1, <2>1, <2>2, NoPut
<1>3. ASSUME NEW k \in Keys PROVE SaysOn(k)'
  <2>1. LastSaid(k)' = LastSaid(k)
    BY <1>1, SaidSame
  <2>2. \A v \in Workers : PutOn(jobs'[v], k) => PutOn(jobs[v], k) /\ jobs'[v][1] = jobs[v][1]
    BY <1>1, <1>2 DEF PutOn
  <2>3. \A v \in Workers : At(jobs[v], {"put"}) => At(jobs'[v], {"put"})
    BY <1>1, <1>2
  <2>. QED  BY <1>1, <2>1, <2>2, <2>3, SaysFrame
<1>. QED  BY <1>3

\* Who is about to write a second edge has both in hand.
LEMMA PutHolds ==
  ASSUME ShapeInv, NEW v \in Workers, NEW k, PutOn(jobs[v], k)
  PROVE  hand[v][k] # None /\ hand[v][Rev(k)] # None /\ Kept(jobs[v][1].value) /\ k[2] \in Actors
BY DEF ShapeInv, Shape, PutShape, PutOn

\* What is said last where only w has news.
LEMMA SaidBy ==
  ASSUME NEW w \in Workers, NEW k, \A v \in Workers \ {w} : told[v][k] = <<>>
  PROVE  LastSaid(k) = Latest(story[k], told[w][k])
<1>. DEFINE news == [v \in Workers |-> told[v][k]]
<1>1. DOMAIN news = Workers /\ (\A v \in Workers \ {w} : news[v] = <<>>) /\ news[w] = told[w][k]
  OBVIOUS
<1>. HIDE DEF news
<1>2. Said(story[k], news) = Latest(story[k], news[w])
  BY <1>1, SaidOne
<1>. QED  BY <1>1, <1>2 DEF LastSaid, news

\* With nobody else at the edge, w alone says what is last.
LEMMA SaidByNext ==
  ASSUME NEW w \in Workers, NEW k, \A v \in Workers \ {w} : told'[v][k] = <<>>
  PROVE  LastSaid(k)' = Latest(story'[k], told'[w][k])
<1>. DEFINE news == [v \in Workers |-> told'[v][k]]
<1>1. DOMAIN news = Workers /\ (\A v \in Workers \ {w} : news[v] = <<>>) /\ news[w] = told'[w][k]
  OBVIOUS
<1>. HIDE DEF news
<1>2. Said(story'[k], news) = Latest(story'[k], news[w])
  BY <1>1, SaidOne
<1>. QED  BY <1>1, <1>2 DEF LastSaid, news

\* Reading an edge keeps what was said of it.
LEMMA SaysLoad ==
  ASSUME TypeInv, ShapeInv, NEW w \in Workers, Load(w), ~clash', \A k \in Keys : SaysOn(k)
  PROVE  \A k \in Keys : SaysOn(k)'
<1>1. PICK k \in Keys : k = NextKey(w) /\ ~At(jobs[w], {"put"}) /\ hand[w][k] = None
  BY NextKeyIs, DoingAt DEF Load, At, Reading
<1>2. /\ edge[k] # None /\ hand' = [hand EXCEPT ![w][k] = edge[k]]
      /\ UNCHANGED <<edge, story, told, jobs>>
  BY <1>1 DEF Load, Take, redis
<1>3. \A v \in Workers \ {w} : hand[v][k] = None /\ told[v][k] = <<>>
  <2>1. ~Busy(k, w)
    BY <1>1 DEF Load
  <2>. QED  BY <2>1 DEF Busy
<1>4. \A v \in Workers, l \in Keys :
        hand'[v][l] = IF v = w /\ l = k THEN edge[k] ELSE hand[v][l]
  BY <1>1, <1>2 DEF TypeInv, TypeOK
<1>5. \A l \in Keys : LastSaid(l)' = LastSaid(l)
  BY <1>2, SaidSame
<1>6. ASSUME NEW l \in Keys, l # k PROVE SaysOn(l)'
  BY <1>2, <1>4, <1>5, <1>6, SaysFrame
<1>7. SaysOn(k)'
  <2>1. edge'[k] # None /\ edge'[k] = edge[k] /\ LastSaid(k)' = LastSaid(k)
    BY <1>1, <1>2, <1>5
  <2>2. Owes(edge[k], LastSaid(k)) /\ Small(edge[k])
    BY <1>1, <1>2 DEF SaysOn
  <2>3. \A v \in Workers : hand'[v][k] # None => edge'[k] = hand'[v][k]
    BY <1>1, <1>3, <1>4, <2>1
  <2>4. \A v \in Workers : PutOn(jobs'[v], k) => PutOn(jobs[v], k) /\ jobs'[v][1] = jobs[v][1]
    BY <1>2
  <2>5. \A v \in Workers : ~PutOn(jobs[v], k)
    BY <1>1, <1>3, PutHolds DEF PutOn
  <2>. QED  BY <2>1, <2>2, <2>3, <2>4, <2>5 DEF SaysOn
<1>. QED  BY <1>6, <1>7

\* Meeting says the first relationship.
LEMMA SaysMeet ==
  ASSUME TypeInv, ShapeInv, NEW w \in Workers, Meet(w), ~clash', \A k \in Keys : SaysOn(k)
  PROVE  \A k \in Keys : SaysOn(k)'
<1>1. PICK k \in Keys : k = NextKey(w) /\ ~At(jobs[w], {"put"}) /\ hand[w][k] = None
  BY NextKeyIs, DoingAt DEF Meet, At, Reading
<1>. DEFINE x == News(k, "met", Zero)
<1>2. /\ edge[k] = None /\ hand' = [hand EXCEPT ![w][k] = Newcomer]
      /\ told' = [told EXCEPT ![w][k] = Append(@, x)]
      /\ UNCHANGED <<edge, story, jobs>>
  BY <1>1 DEF Meet, Take, Tell, Newcomer
<1>3. \A v \in Workers \ {w} : hand[v][k] = None /\ told[v][k] = <<>>
  <2>1. ~Busy(k, w)
    BY <1>1 DEF Meet
  <2>. QED  BY <2>1 DEF Busy
<1>4. x \in Event /\ x.type = "met" /\ x.dims = Zero
  BY <1>1, NewsIs
<1>. HIDE DEF x
<1>5. /\ \A v \in Workers, l \in Keys :
           hand'[v][l] = IF v = w /\ l = k THEN Newcomer ELSE hand[v][l]
      /\ \A v \in Workers, l \in Keys :
           told'[v][l] = IF v = w /\ l = k THEN Append(told[w][k], x) ELSE told[v][l]
  BY <1>1, <1>2 DEF TypeInv, TypeOK
<1>6. ASSUME NEW l \in Keys, l # k PROVE SaysOn(l)'
  <2>1. LastSaid(l)' = LastSaid(l)
    BY <1>2, <1>5, <1>6, SaidSame
  <2>. QED  BY <1>2, <1>5, <1>6, <2>1, SaysFrame
<1>7. SaysOn(k)'
  <2>1. LastSaid(k)' = Zero
    <3>1. story[k] \in Seq(Event) /\ told[w][k] \in Seq(Event)
      BY <1>1 DEF TypeInv, TypeOK
    <3>2. LastSaid(k)' = Latest(story'[k], told'[w][k])
      BY <1>1, <1>3, <1>5, SaidByNext
    <3>. QED  BY <1>1, <1>2, <1>4, <1>5, <3>1, <3>2, LatestMore
  <2>2. \A v \in Workers : hand'[v][k] # None => hand'[v][k] = Newcomer
    BY <1>1, <1>3, <1>5
  <2>3. edge'[k] = None
    BY <1>2
  <2>4. \A v \in Workers : ~PutOn(jobs[v], k)
    BY <1>1, <1>3, PutHolds DEF PutOn
  <2>5. \A v \in Workers : ~PutOn(jobs'[v], k)
    BY <1>2, <2>4
  <2>. QED  BY <2>1, <2>2, <2>3, <2>5 DEF SaysOn
<1>. QED  BY <1>6, <1>7

\* To put an edge to rest says nothing.
LEMMA SaysRest ==
  ASSUME TypeInv, ShapeInv, NEW w \in Workers, PutToRest(w), \A k \in Keys : SaysOn(k)
  PROVE  \A k \in Keys : SaysOn(k)'
<1>. DEFINE a == crowded[w][1]
            b == Weakest(crowded[w])
            x == [op |-> "forget", keys |-> <<<<a, b>>>>]
<1>1. UNCHANGED <<edge, hand, told, story>>
  BY DEF PutToRest
<1>2. /\ At(jobs[w], Making)
      /\ \/ jobs' = jobs
         \/ <<a, b>> \in Keys /\ jobs' = [jobs EXCEPT ![w] = <<x>> \o @]
  BY RestFacts
<1>3. ~At(jobs[w], {"put"})
  BY <1>2 DEF At, Making
<1>4. \A v \in Workers \ {w} : jobs'[v] = jobs[v]
  <2>. HIDE DEF x
  <2>. QED  BY <1>2 DEF TypeInv
<1>5. ~At(jobs'[w], {"put"})
  <2>1. CASE jobs' = jobs
    BY <1>3, <2>1
  <2>2. CASE <<a, b>> \in Keys /\ jobs' = [jobs EXCEPT ![w] = <<x>> \o @]
    <3>1. x \in Tasks /\ jobs[w] \in Seq(Tasks) /\ x.op = "forget"
      BY <2>2, TaskMakes DEF TypeInv
    <3>. HIDE DEF x
    <3>2. jobs'[w] = <<x>> \o jobs[w]
      BY <2>2 DEF TypeInv
    <3>3. jobs'[w][1] = x
      BY <3>1, <3>2, RowFront
    <3>. QED  BY <3>1, <3>3 DEF At
  <2>. QED  BY <1>2, <2>1, <2>2
<1>6. ASSUME NEW k \in Keys PROVE SaysOn(k)'
  <2>1. LastSaid(k)' = LastSaid(k)
    BY <1>1, SaidSame
  <2>2. \A v \in Workers : PutOn(jobs'[v], k) => PutOn(jobs[v], k) /\ jobs'[v][1] = jobs[v][1]
    BY <1>4, <1>5 DEF PutOn
  <2>3. \A v \in Workers : At(jobs[v], {"put"}) => At(jobs'[v], {"put"})
    BY <1>3, <1>4
  <2>. QED  BY <1>1, <2>1, <2>2, <2>3, SaysFrame
<1>. QED  BY <1>6

\* What is deleted is in nobody's hands.
LEMMA SaysForget ==
  ASSUME TypeInv, ShapeInv, NEW w \in Workers, Forget(w), ~clash', \A k \in Keys : SaysOn(k)
  PROVE  \A k \in Keys : SaysOn(k)'
<1>. DEFINE row == jobs[w]
<1>1. PICK k \in Keys : /\ k = Job(w).keys[1] /\ At(row, {"forget"}) /\ row # <<>>
                        /\ row \in Seq(Tasks) /\ Job(w) = row[1]
  BY DoingAt, DoingKeys, JobFacts DEF Forget
<1>2. /\ jobs' = [jobs EXCEPT ![w] = Tail(@)] /\ edge' = [edge EXCEPT ![k] = None]
      /\ UNCHANGED <<hand, told, story>>
  BY <1>1 DEF Forget, Finished
<1>3. \A v \in Workers \ {w} : hand[v][k] = None /\ told[v][k] = <<>>
  <2>1. ~Busy(k, w)
    BY <1>1 DEF Forget
  <2>. QED  BY <2>1 DEF Busy
<1>4. hand[w][k] = None
  BY <1>1 DEF ShapeInv, Shape, HandShape, ForgetShape, At, Reading
<1>5. ~At(Tail(row), {"put"}) /\ ~At(row, {"put"})
  BY <1>1, ShapeTail DEF ShapeInv, Shape, At
<1>6. /\ jobs'[w] = Tail(row) /\ \A v \in Workers \ {w} : jobs'[v] = jobs[v]
      /\ \A l \in Keys : edge'[l] = IF l = k THEN None ELSE edge[l]
  BY <1>1, <1>2 DEF TypeInv, TypeOK
<1>7. \A l \in Keys : /\ LastSaid(l)' = LastSaid(l)
                      /\ \A v \in Workers : PutOn(jobs'[v], l) =>
                           PutOn(jobs[v], l) /\ jobs'[v][1] = jobs[v][1]
                      /\ \A v \in Workers : At(jobs[v], {"put"}) => At(jobs'[v], {"put"})
  <2>1. \A l \in Keys : LastSaid(l)' = LastSaid(l)
    BY <1>2, SaidSame
  <2>. QED  BY <1>5, <1>6, <2>1 DEF PutOn
<1>8. ASSUME NEW l \in Keys, l # k PROVE SaysOn(l)'
  BY <1>2, <1>6, <1>7, <1>8, SaysFrame
<1>9. SaysOn(k)'
  <2>1. edge'[k] = None /\ \A v \in Workers : hand'[v][k] = None
    BY <1>1, <1>2, <1>3, <1>4, <1>6
  <2>2. \A v \in Workers : ~PutOn(jobs[v], k)
    BY <1>3, <1>4, PutHolds
  <2>. QED  BY <1>1, <1>7, <2>1, <2>2 DEF SaysOn
<1>. QED  BY <1>8, <1>9

\* Nobody else has what w has in hand.
LEMMA Alone ==
  ASSUME Excl, ~clash, NEW w \in Workers, NEW k \in Keys, Holds(w, k)
  PROVE  \A v \in Workers \ {w} : hand[v][k] = None /\ told[v][k] = <<>>
BY DEF Excl, Holds

\* A thought leaves the gap as it is.
LEMMA MusedSmall ==
  ASSUME NEW e, Kept(e), Small(e), NEW sure, ConsolidateInsight(e, sure) \in Edge
  PROVE  Small(Stored(ConsolidateInsight(e, sure)))
<1>. DEFINE c == ConsolidateInsight(e, sure)
<1>1. c.pending = e.pending
  BY DEF Kept, Edge, ConsolidateInsight
<1>2. Stored(c).pending = [d \in Dimensions |-> Rounded(c.pending[d])]
  BY DEF Stored, Edge
<1>3. e.pending = [d \in Dimensions |-> Rounded(e.pending[d])]
  <2>1. Stored(e).pending = [d \in Dimensions |-> Rounded(e.pending[d])]
    BY DEF Stored, Kept, Edge
  <2>. QED  BY <2>1 DEF Kept
<1>4. Stored(c).pending = e.pending
  BY <1>1, <1>2, <1>3
<1>. HIDE DEF c
<1>. QED  BY <1>4 DEF Small, PendingL1, c

\* What is written owes what is pending, to what was said before or is said with it.
LEMMA SaveSays ==
  ASSUME TypeInv, ShapeInv, Excl, ~clash, NEW w \in Workers, Save(w),
         NEW k \in Keys, k = Job(w).keys[1], SaysOn(k)
  PROVE  /\ Owes(edge'[k], LastSaid(k)') /\ Small(edge'[k]) /\ edge'[k] # None
         /\ \A l \in Keys : l # k => edge'[l] = edge[l] /\ LastSaid(l)' = LastSaid(l)
<1>. DEFINE h == hand[w][k]
            c == Changed(Job(w), h)
            x == News(k, "changed", Stored(c).dims)
<1>1. /\ Doing(w, Reading) /\ h \in Edge /\ h # None /\ Grown(h, c) /\ c \in Edge
      /\ edge' = [edge EXCEPT ![k] = Stored(IF Job(w).op = "muse" THEN c ELSE Settled(c))]
  BY SaveFacts
<1>2. \A v \in Workers \ {w} : hand[v][k] = None /\ told[v][k] = <<>>
  BY <1>1, Alone DEF Holds
<1>3. Kept(h) /\ Owes(h, LastSaid(k)) /\ Small(h)
  <2>1. ~At(jobs[w], {"put"})
    BY <1>1, DoingAt DEF At, Reading
  <2>. QED  BY <1>1, <2>1, HandSays
<1>4. /\ story[k] \in Seq(Event) /\ told[w][k] \in Seq(Event)
      /\ LastSaid(k) = Latest(story[k], told[w][k]) /\ LastSaid(k) \in [Dimensions -> Int]
  <2>1. story[k] \in Seq(Event) /\ told[w][k] \in Seq(Event)
    BY DEF TypeInv, TypeOK
  <2>2. LastSaid(k) = Latest(story[k], told[w][k])
    BY <1>2, SaidBy
  <2>. QED  BY <2>1, <2>2, LatestIs
<1>5. Stored(c) \in Edge /\ Stored(ConsumePending(c)) \in Edge
  BY <1>1, SavedTold, StoredEdge
<1>6. story' = story
  BY DEF Save
<1>7. CASE Job(w).op # "muse" /\ WorthTelling(c)
  <2>1. told' = [told EXCEPT ![w][k] = Append(@, x)] /\ Settled(c) = ConsumePending(c)
    BY <1>7 DEF Save, Tell, Settled
  <2>2. x \in Event /\ x.type = "changed" /\ x.dims = Stored(c).dims
    BY <1>5, NewsIs
  <2>. HIDE DEF h, c, x
  <2>3. \A v \in Workers, l \in Keys :
          told'[v][l] = IF v = w /\ l = k THEN Append(told[w][k], x) ELSE told[v][l]
    BY <2>1 DEF TypeInv, TypeOK
  <2>4. LastSaid(k)' = Stored(c).dims
    <3>1. LastSaid(k)' = Latest(story'[k], told'[w][k])
      BY <1>2, <2>3, SaidByNext
    <3>. QED  BY <1>4, <1>6, <2>2, <2>3, <3>1, LatestMore
  <2>5. \A l \in Keys : edge'[l] = IF l = k THEN Stored(ConsumePending(c)) ELSE edge[l]
    BY <1>1, <1>7, <2>1 DEF TypeInv, TypeOK
  <2>6. \A l \in Keys : l # k => LastSaid(l)' = LastSaid(l)
    BY <1>6, <2>3, SaidSame
  <2>. QED  BY <1>1, <1>5, <2>4, <2>5, <2>6, SavedTold, KeyFacts
<1>8. CASE Job(w).op = "muse" \/ ~WorthTelling(c)
  <2>1. told' = told
    BY <1>8 DEF Save
  <2>2. \A l \in Keys : LastSaid(l)' = LastSaid(l)
    BY <1>6, <2>1, SaidSame
  <2>3. (IF Job(w).op = "muse" THEN c ELSE Settled(c)) = c
    BY <1>8 DEF Settled
  <2>4. Owes(Stored(c), LastSaid(k))
    <3>. HIDE DEF h, c
    <3>. QED  BY <1>1, <1>3, <1>4, SavedOwes
  <2>5. Small(Stored(c))
    <3>1. CASE Job(w).op = "muse"
      <4>1. c = ConsolidateInsight(h, Job(w).sure)
        BY <3>1 DEF Changed
      <4>. HIDE DEF h, c
      <4>. QED  BY <1>1, <1>3, <4>1, MusedSmall
    <3>2. CASE Job(w).op # "muse"
      <4>. HIDE DEF h, c
      <4>. QED  BY <1>1, <1>8, <3>2, SavedSmall
    <3>. QED  BY <3>1, <3>2
  <2>. HIDE DEF h, c
  <2>6. \A l \in Keys : edge'[l] = IF l = k THEN Stored(c) ELSE edge[l]
    BY <1>1, <2>3 DEF TypeInv, TypeOK
  <2>. QED  BY <1>5, <2>2, <2>4, <2>5, <2>6, KeyFacts
<1>. QED  BY <1>7, <1>8

\* Saving a changed edge tells the change, or keeps it within the gap.
LEMMA SaysSave ==
  ASSUME TypeInv, ShapeInv, Excl, ~clash, NEW w \in Workers, Save(w),
         \A k \in Keys : SaysOn(k)
  PROVE  \A k \in Keys : SaysOn(k)'
<1>. DEFINE row == jobs[w]
<1>1. PICK k \in Keys : /\ k = Job(w).keys[1] /\ hand[w][k] # None /\ At(row, Reading)
                        /\ row # <<>> /\ row \in Seq(Tasks)
  BY SaveFacts, DoingAt, JobFacts
<1>2. /\ Owes(edge'[k], LastSaid(k)') /\ Small(edge'[k]) /\ edge'[k] # None
      /\ \A l \in Keys : l # k => edge'[l] = edge[l] /\ LastSaid(l)' = LastSaid(l)
  BY <1>1, SaveSays
<1>3. /\ ~At(row, {"put"}) /\ jobs'[w] = Tail(row) /\ ~At(Tail(row), {"put"})
      /\ \A v \in Workers \ {w} : jobs'[v] = jobs[v]
  <2>1. ~At(row, {"put"}) /\ HeadFirst(row)
    BY <1>1 DEF At, Reading, ShapeInv, Shape
  <2>2. ~At(Tail(row), {"put"})
    BY <1>1, <2>1, ShapeTail DEF At
  <2>3. jobs' = [jobs EXCEPT ![w] = Tail(row)]
    BY DEF Save, Finished
  <2>. QED  BY <2>1, <2>2, <2>3 DEF TypeInv
<1>4. \A v \in Workers, l \in Keys : /\ hand'[v][l] \in {hand[v][l], None}
                                     /\ v = w => hand'[v][l] = None
  <2>1. hand' = [hand EXCEPT ![w] = Empty]
    BY DEF Save
  <2>. QED  BY <2>1, Nothing DEF TypeInv, TypeOK
<1>5. \A v \in Workers \ {w} : hand[v][k] = None
  BY <1>1, Alone DEF Holds
<1>6. \A l \in Keys, v \in Workers :
        /\ PutOn(jobs'[v], l) => PutOn(jobs[v], l) /\ jobs'[v][1] = jobs[v][1]
        /\ At(jobs[v], {"put"}) => At(jobs'[v], {"put"})
  BY <1>3 DEF PutOn
<1>7. ASSUME NEW l \in Keys, l # k PROVE SaysOn(l)'
  BY <1>2, <1>4, <1>6, <1>7, SaysFrame
<1>8. SaysOn(k)'
  <2>1. \A v \in Workers : hand'[v][k] = None
    BY <1>4, <1>5
  <2>2. \A v \in Workers : ~PutOn(jobs'[v], k)
    BY <1>3, <1>5, <1>6, PutHolds DEF PutOn
  <2>. QED  BY <1>2, <2>1, <2>2 DEF SaysOn
<1>. QED  BY <1>7, <1>8

\* The second write.
LEMMA SaysPut ==
  ASSUME TypeInv, ShapeInv, Excl, ~clash, NEW w \in Workers, Put(w),
         \A k \in Keys : SaysOn(k)
  PROVE  \A k \in Keys : SaysOn(k)'
<1>. DEFINE row == jobs[w]
<1>1. PICK l \in Keys : /\ l = Job(w).keys[1] /\ PutOn(row, l) /\ row \in Seq(Tasks)
                        /\ Job(w) = row[1] /\ row # <<>>
  BY DoingKeys, DoingAt, JobFacts DEF Put, PutOn
<1>2. /\ hand[w][l] # None /\ Kept(row[1].value)
      /\ Owes(row[1].value, LastSaid(l)) /\ Small(row[1].value)
  BY <1>1, PutHolds DEF SaysOn
<1>3. /\ edge' = [edge EXCEPT ![l] = row[1].value] /\ hand' = [hand EXCEPT ![w] = Empty]
      /\ jobs' = [jobs EXCEPT ![w] = Tail(row)] /\ story' = story /\ told' = told
  BY <1>1, <1>2 DEF Put, Finished, Kept
<1>4. ~At(Tail(row), {"put"})
  BY <1>1, ShapeTail DEF At, ShapeInv, Shape
<1>5. \A v \in Workers \ {w} : hand[v][l] = None
  BY <1>2, Alone DEF Holds
<1>6. row[1].value # None
  BY <1>2, KeyFacts DEF Kept
<1>7. /\ \A k \in Keys : edge'[k] = IF k = l THEN row[1].value ELSE edge[k]
      /\ jobs'[w] = Tail(row) /\ \A v \in Workers \ {w} : jobs'[v] = jobs[v]
  BY <1>3 DEF TypeInv, TypeOK
<1>8. \A v \in Workers, k \in Keys : /\ hand'[v][k] \in {hand[v][k], None}
                                     /\ v = w => hand'[v][k] = None
  BY <1>3, Nothing DEF TypeInv, TypeOK
<1>9. \A k \in Keys, v \in Workers :
        /\ PutOn(jobs'[v], k) => PutOn(jobs[v], k) /\ jobs'[v][1] = jobs[v][1] /\ v # w
        /\ At(jobs[v], {"put"}) => At(jobs'[v], {"put"}) \/ hand'[v][k] = None
  BY <1>4, <1>7, <1>8 DEF PutOn
<1>10. \A k \in Keys : LastSaid(k)' = LastSaid(k)
  BY <1>3, SaidSame
<1>11. ASSUME NEW k \in Keys, k # l PROVE SaysOn(k)'
  BY <1>7, <1>8, <1>9, <1>10, <1>11, SaysFrame
<1>12. SaysOn(l)'
  <2>1. \A v \in Workers : hand'[v][l] = None
    BY <1>5, <1>8
  <2>2. \A v \in Workers : ~PutOn(jobs'[v], l)
    BY <1>5, <1>9, PutHolds
  <2>3. edge'[l] = row[1].value
    BY <1>7
  <2>. QED  BY <1>2, <1>6, <1>10, <2>1, <2>2, <2>3 DEF SaysOn
<1>. QED  BY <1>11, <1>12

\* An append says again what was about to be said.
LEMMA SaysAppend ==
  ASSUME TypeInv, Excl, ~clash, NEW w \in Workers, AppendNews(w), \A k \in Keys : SaysOn(k)
  PROVE  \A k \in Keys : SaysOn(k)'
<1>1. PICK k \in Keys : /\ told[w][k] # <<>>
                        /\ story' = [story EXCEPT ![k] = @ \o told[w][k]]
                        /\ told' = [told EXCEPT ![w][k] = <<>>]
  BY DEF AppendNews
<1>2. UNCHANGED <<edge, hand, jobs>>
  BY DEF AppendNews, redis
<1>3. \A v \in Workers \ {w} : told[v][k] = <<>>
  BY <1>1, Alone DEF Holds
<1>4. /\ \A v \in Workers, l \in Keys :
           told'[v][l] = IF v = w /\ l = k THEN <<>> ELSE told[v][l]
      /\ \A l \in Keys : story'[l] = IF l = k THEN story[k] \o told[w][k] ELSE story[l]
  BY <1>1 DEF TypeInv, TypeOK
<1>5. \A l \in Keys : l # k => LastSaid(l)' = LastSaid(l)
  BY <1>4, SaidSame
<1>6. LastSaid(k)' = LastSaid(k)
  <2>1. story[k] \in Seq(Event) /\ told[w][k] \in Seq(Event)
    BY DEF TypeInv, TypeOK
  <2>2. LastSaid(k) = Latest(story[k], told[w][k])
    BY <1>3, SaidBy
  <2>3. LastSaid(k)' = Latest(story'[k], told'[w][k])
    BY <1>3, <1>4, SaidByNext
  <2>. QED  BY <1>4, <2>1, <2>2, <2>3, LatestAppended
<1>7. ASSUME NEW l \in Keys PROVE SaysOn(l)'
  <2>1. LastSaid(l)' = LastSaid(l)
    BY <1>5, <1>6
  <2>. QED  BY <1>2, <2>1, SaysFrame
<1>. QED  BY <1>7

After(s, e) == IF s = "same" THEN e ELSE TransitionStage(e, s)

\* w judges the two edges of k: it writes the first, and row begins with the second.
Judges(w, k, s, row) ==
  LET l == Rev(k)
  IN /\ l \in Keys /\ k # l /\ k[2] \in Actors /\ Rev(l) = k
     /\ At(jobs[w], {"stage"})
     /\ hand[w][k] # None /\ hand[w][l] # None /\ Kept(hand[w][k]) /\ Kept(hand[w][l])
     /\ \A m \in Keys : hand[w][m] # None => m \in {k, l}
     /\ edge' = [edge EXCEPT ![k] = After(s, hand[w][k])]
     /\ jobs' = [jobs EXCEPT ![w] = row]
     /\ At(row, {"put"}) /\ row[1].keys[1] = l /\ row[1].value = After(s, hand[w][l])
     /\ \/ told' = told
        \/ \E m \in {"confession_accepted", "confession_declined", "severed"} :
             told' = [told EXCEPT ![w][k] = Append(@, News(k, m, hand[w][k].dims))]

\* Judging picks a stage for one edge and what is left to do about it.
LEMMA JudgeRow ==
  ASSUME TypeInv, ShapeInv, NEW w \in Workers, Judge(w)
  PROVE  \E k \in Keys, s \in Stages \cup {"same"}, row \in Seq(Tasks) : Judges(w, k, s, row)
<1>. DEFINE k == Job(w).keys[1]
            l == Rev(k)
<1>1. PICK s \in Stages \cup {"same"} :
        LET after(e) == IF s = "same" THEN e ELSE TransitionStage(e, s)
        IN /\ k \in Keys /\ l \in Keys /\ k[2] \in Actors /\ k # l /\ KeysOf(Job(w)) = {k, l}
           /\ Doing(w, {"stage"}) /\ jobs[w] # <<>> /\ crowded[w] = None
           /\ hand[w][k] \in Edge /\ hand[w][k] # None
           /\ hand[w][l] \in Edge /\ hand[w][l] # None
           /\ after(hand[w][k]) \in Edge /\ after(hand[w][l]) \in Edge
           /\ edge' = [edge EXCEPT ![k] = Stored(after(hand[w][k]))]
           /\ jobs' = [jobs EXCEPT ![w] =
                <<[op |-> "put", keys |-> <<l>>, value |-> after(hand[w][l])]>> \o Tail(@)]
           /\ \/ told' = told
              \/ \E m \in {"confession_accepted", "confession_declined", "severed"} :
                   told' = [told EXCEPT ![w][k] = Append(@, News(k, m, hand[w][k].dims))]
  BY JudgeFacts
<1>. DEFINE e == After(s, hand[w][k])
            f == After(s, hand[w][l])
            x == [op |-> "put", keys |-> <<l>>, value |-> f]
            row == <<x>> \o Tail(jobs[w])
<1>2. /\ k \in Keys /\ l \in Keys /\ k[2] \in Actors /\ k # l /\ KeysOf(Job(w)) = {k, l}
      /\ Doing(w, {"stage"}) /\ jobs[w] # <<>> /\ crowded[w] = None
      /\ hand[w][k] # None /\ hand[w][l] # None
      /\ e \in Edge /\ f \in Edge
      /\ edge' = [edge EXCEPT ![k] = Stored(e)]
      /\ jobs' = [jobs EXCEPT ![w] = <<x>> \o Tail(@)]
      /\ \/ told' = told
         \/ \E m \in {"confession_accepted", "confession_declined", "severed"} :
              told' = [told EXCEPT ![w][k] = Append(@, News(k, m, hand[w][k].dims))]
  BY Zenon, <1>1 DEF After
<1>3. At(jobs[w], {"stage"}) /\ Job(w) = jobs[w][1] /\ Tail(jobs[w]) \in Seq(Tasks)
  BY Zenon, <1>2, DoingAt, JobFacts
<1>4. \A m \in Keys : hand[w][m] # None => Kept(hand[w][m]) /\ m \in {k, l}
  BY Zenon, <1>2, <1>3 DEF ShapeInv, Shape, HandShape, At
<1>5. Stored(e) = e
  BY Zenon, <1>2, <1>4, AfterKept DEF After
<1>6. Rev(l) = k
  BY Zenon, <1>2, KeyFacts
<1>7. x \in Tasks /\ x.op = "put" /\ x.keys[1] = l /\ x.value = f
  BY Zenon, <1>2, TaskMakes
<1>. HIDE DEF x
<1>8. row \in Seq(Tasks) /\ row # <<>> /\ row[1] = x
  BY <1>3, <1>7, RowFront
<1>9. jobs' = [jobs EXCEPT ![w] = row]
  BY Zenon, <1>2 DEF TypeInv
<1>10. edge' = [edge EXCEPT ![k] = e]
  BY Zenon, <1>2, <1>5
<1>11. At(row, {"put"}) /\ row[1].keys[1] = l /\ row[1].value = f
  BY <1>7, <1>8 DEF At
<1>. HIDE DEF row, k
<1>12. PICK kk \in Keys : kk = k
  BY <1>2
<1>13. Judges(w, kk, s, row)
  BY <1>2, <1>3, <1>4, <1>6, <1>9, <1>10, <1>11, <1>12 DEF Judges
<1>. QED  BY <1>8, <1>13

\* Judging tells no dimensions and moves none.
LEMMA SaysJudge ==
  ASSUME TypeInv, ShapeInv, Excl, ~clash, NEW w \in Workers, Judge(w),
         \A k \in Keys : SaysOn(k)
  PROVE  \A k \in Keys : SaysOn(k)'
<1>1. PICK k \in Keys, s \in Stages \cup {"same"}, row \in Seq(Tasks) : Judges(w, k, s, row)
  BY JudgeRow
<1>. DEFINE l == Rev(k)
            e == After(s, hand[w][k])
            f == After(s, hand[w][l])
<1>2. /\ l \in Keys /\ k # l /\ At(jobs[w], {"stage"})
      /\ hand[w][k] # None /\ hand[w][l] # None /\ Kept(hand[w][k]) /\ Kept(hand[w][l])
      /\ \A m \in Keys : hand[w][m] # None => m \in {k, l}
      /\ edge' = [edge EXCEPT ![k] = e] /\ jobs' = [jobs EXCEPT ![w] = row]
      /\ At(row, {"put"}) /\ row[1].keys[1] = l /\ row[1].value = f
  BY <1>1 DEF Judges
<1>3. UNCHANGED <<hand, story>>
  BY DEF Judge
<1>4. ~At(jobs[w], {"put"})
  BY <1>2 DEF At
<1>5. /\ Owes(hand[w][k], LastSaid(k)) /\ Small(hand[w][k])
      /\ Owes(hand[w][l], LastSaid(l)) /\ Small(hand[w][l])
      /\ edge[l] = None => LastSaid(l) = Zero
  <2>1. Owes(hand[w][k], LastSaid(k)) /\ Small(hand[w][k])
    BY <1>2, <1>4, HandSays
  <2>2. Owes(hand[w][l], LastSaid(l)) /\ Small(hand[w][l])
    BY <1>2, <1>4, HandSays
  <2>. QED  BY <1>2, <2>1, <2>2 DEF SaysOn
<1>6. Owes(e, LastSaid(k)) /\ Small(e) /\ Owes(f, LastSaid(l)) /\ Small(f) /\ e # None
  <2>1. /\ Owes(e, LastSaid(k)) /\ Small(e) /\ Kept(e)
    BY <1>2, <1>5, AfterKept DEF After
  <2>2. Owes(f, LastSaid(l)) /\ Small(f)
    BY <1>2, <1>5, AfterKept DEF After
  <2>. QED  BY <2>1, <2>2, KeyFacts DEF Kept
<1>7. \A v \in Workers \ {w} : /\ hand[v][k] = None /\ told[v][k] = <<>>
                               /\ hand[v][l] = None /\ told[v][l] = <<>>
  BY <1>2, Alone DEF Holds
<1>8. LastSaid(k)' = LastSaid(k) /\ \A m \in Keys : m # k => LastSaid(m)' = LastSaid(m)
  <2>1. CASE told' = told
    BY <1>3, <2>1, SaidSame
  <2>2. CASE told' # told
    <3>1. PICK m \in {"confession_accepted", "confession_declined", "severed"} :
            told' = [told EXCEPT ![w][k] = Append(@, News(k, m, hand[w][k].dims))]
      BY <1>1, <2>2 DEF Judges
    <3>. DEFINE x == News(k, m, hand[w][k].dims)
    <3>2. x \in Event /\ x.type \notin {"met", "changed"}
      BY <1>2, NewsIs DEF Kept
    <3>. HIDE DEF x
    <3>3. \A v \in Workers, o \in Keys :
            told'[v][o] = IF v = w /\ o = k THEN Append(told[w][k], x) ELSE told[v][o]
      BY <3>1 DEF TypeInv, TypeOK, x
    <3>4. story[k] \in Seq(Event) /\ told[w][k] \in Seq(Event)
      BY DEF TypeInv, TypeOK
    <3>5. LastSaid(k)' = Latest(story'[k], told'[w][k])
      BY <1>7, <3>3, SaidByNext
    <3>6. LastSaid(k) = Latest(story[k], told[w][k])
      BY <1>7, SaidBy
    <3>7. LastSaid(k)' = LastSaid(k)
      BY <1>3, <3>2, <3>3, <3>4, <3>5, <3>6, LatestMore
    <3>8. \A o \in Keys : o # k => LastSaid(o)' = LastSaid(o)
      BY <1>3, <3>3, SaidSame
    <3>. QED  BY <3>7, <3>8
  <2>. QED  BY <2>1, <2>2
<1>. HIDE DEF e, f
<1>9. /\ \A m \in Keys : edge'[m] = IF m = k THEN e ELSE edge[m]
      /\ jobs'[w] = row /\ \A v \in Workers \ {w} : jobs'[v] = jobs[v]
  BY <1>2 DEF TypeInv, TypeOK
<1>10. \A v \in Workers, m \in Keys : m # l =>
         /\ PutOn(jobs'[v], m) => PutOn(jobs[v], m) /\ jobs'[v][1] = jobs[v][1]
         /\ At(jobs[v], {"put"}) => At(jobs'[v], {"put"})
  BY <1>2, <1>4, <1>9 DEF PutOn
<1>11. ASSUME NEW m \in Keys, m # k, m # l PROVE SaysOn(m)'
  BY <1>3, <1>8, <1>9, <1>10, <1>11, SaysFrame
<1>12. SaysOn(k)'
  <2>1. edge'[k] = e
    BY <1>9
  <2>2. \A v \in Workers : hand'[v][k] # None => At(jobs'[v], {"put"})
    BY <1>2, <1>3, <1>7, <1>9
  <2>3. \A v \in Workers : ~PutOn(jobs'[v], k)
    BY <1>2, <1>4, <1>7, <1>10, PutHolds DEF PutOn
  <2>. QED  BY <1>6, <1>8, <2>1, <2>2, <2>3 DEF SaysOn
<1>13. SaysOn(l)'
  <2>. DEFINE m == l
  <2>1. edge'[l] = edge[l] /\ LastSaid(l)' = LastSaid(l)
    BY <1>2, <1>8, <1>9
  <2>2. \A v \in Workers : hand'[v][l] # None => At(jobs'[v], {"put"})
    BY <1>2, <1>3, <1>7, <1>9
  <2>3. \A v \in Workers : PutOn(jobs'[v], l) => v = w
    <3>1. \A v \in Workers \ {w} : ~PutOn(jobs[v], l)
      BY <1>7, PutHolds
    <3>. QED  BY <1>9, <3>1
  <2>4. jobs'[w][1].value = f
    BY <1>2, <1>9
  <2>5. edge[l] # None => Owes(edge[l], LastSaid(l)) /\ Small(edge[l])
    BY <1>2 DEF SaysOn
  <2>. QED  BY <1>5, <1>6, <2>1, <2>2, <2>3, <2>4, <2>5 DEF SaysOn
<1>. QED  BY <1>11, <1>12, <1>13

\* The calm does not come back.
LEMMA CalmBefore ==
  ASSUME TypeInv, [Next]_vars, Calm'
  PROVE  Calm /\ ~clash' /\ faults' = faults /\ ~(\E w \in Workers : Crash(w))
<1>1. faults \in 0..MaxFaults /\ faults' = 0 /\ ~clash'
  BY DEF TypeInv, TypeOK, Calm
<1>2. CASE UNCHANGED vars
  <2>1. faults = 0 /\ faults' = faults
    BY <1>1, <1>2 DEF vars
  <2>2. clash' = clash
    BY <1>2 DEF vars, history
  <2>3. ~(\E w \in Workers : Crash(w))
    BY <1>1, <2>1 DEF Crash
  <2>. QED  BY <1>1, <2>1, <2>2, <2>3 DEF Calm
<1>3. CASE \E w \in Workers : Crash(w)
  BY <1>1, <1>3, EdgeAssumption DEF Crash
<1>4. CASE NextTick
  <2>1. faults' = faults /\ clash' = clash
    BY <1>4 DEF NextTick, history
  <2>2. ~(\E w \in Workers : Crash(w))
    BY <1>1, <2>1 DEF Crash
  <2>. QED  BY <1>1, <2>1, <2>2 DEF Calm
<1>5. ASSUME NEW w \in Workers, Keep(w)
      PROVE  Calm /\ ~clash' /\ faults' = faults /\ ~(\E v \in Workers : Crash(v))
  <2>1. CASE Aside(w)
    <3>1. faults' = faults /\ clash' = clash
      BY Zenon, <2>1 DEF Aside, StartTick, Gone, ListEdges, Reflect, State, Note, FinishTick, history
    <3>. QED  BY <1>1, <3>1 DEF Calm, Crash
  <2>2. CASE Save(w) \/ Judge(w) \/ Put(w) \/ AppendNews(w)
    <3>1. faults' = faults /\ clash' = clash
      BY Zenon, <2>2 DEF Save, Judge, Put, AppendNews, history
    <3>. QED  BY <1>1, <3>1 DEF Calm, Crash
  <2>3. CASE Load(w) \/ Meet(w) \/ Forget(w) \/ PutToRest(w)
    <3>1. faults' = faults
      BY <2>3 DEF Load, Meet, Forget, PutToRest
    <3>2. clash' = clash \/ \E k : clash' = (clash \/ Busy(k, w))
      BY <2>3 DEF Load, Meet, Forget, PutToRest
    <3>3. ~clash
      BY <1>1, <3>2
    <3>. QED  BY <1>1, <3>1, <3>3 DEF Calm, Crash
  <2>. QED  BY <1>5, <2>1, <2>2, <2>3 DEF Keep, Aside
<1>. QED  BY <1>2, <1>3, <1>4, <1>5 DEF Next

\* Every step keeps what was said within the gap of what is stored.
LEMMA SaysNext ==
  ASSUME TypeInv, ShapeInv, Excl, SaysInv, TypeInv', ShapeInv', [Next]_vars
  PROVE  SaysInv'
<1>1. SUFFICES ASSUME Calm' PROVE \A k \in Keys : SaysOn(k)'
  BY DEF SaysInv
<1>2. Calm /\ ~clash /\ ~clash' /\ ~(\E w \in Workers : Crash(w))
  BY <1>1, CalmBefore DEF Calm
<1>3. \A k \in Keys : SaysOn(k)
  BY <1>2 DEF SaysInv
<1>4. CASE UNCHANGED <<edge, hand, told, story, jobs>>
  <2>1. ASSUME NEW k \in Keys PROVE SaysOn(k)'
    <3>1. LastSaid(k)' = LastSaid(k)
      BY <1>4, SaidSame
    <3>. QED  BY <1>3, <1>4, <3>1, SaysFrame
  <2>. QED  BY <2>1
<1>5. ASSUME NEW w \in Workers, Keep(w) PROVE \A k \in Keys : SaysOn(k)'
  <2>1. CASE Aside(w)
    BY <1>3, <2>1, SaysAside
  <2>2. CASE Load(w)
    BY <1>2, <1>3, <2>2, SaysLoad
  <2>3. CASE Meet(w)
    BY <1>2, <1>3, <2>3, SaysMeet
  <2>4. CASE PutToRest(w)
    BY <1>3, <2>4, SaysRest
  <2>5. CASE Forget(w)
    BY <1>2, <1>3, <2>5, SaysForget
  <2>6. CASE Save(w)
    BY <1>2, <1>3, <2>6, SaysSave
  <2>7. CASE Judge(w)
    BY <1>2, <1>3, <2>7, SaysJudge
  <2>8. CASE Put(w)
    BY <1>2, <1>3, <2>8, SaysPut
  <2>9. CASE AppendNews(w)
    BY <1>2, <1>3, <2>9, SaysAppend
  <2>. QED  BY <1>5, <2>1, <2>2, <2>3, <2>4, <2>5, <2>6, <2>7, <2>8, <2>9 DEF Keep, Aside
<1>6. CASE UNCHANGED vars \/ NextTick
  BY <1>4, <1>6 DEF vars, redis, mind, NextTick
<1>. QED  BY <1>2, <1>5, <1>6 DEF Next

\* What separates an edge from what the world was told last is what is pending.
LEMMA SaysGap ==
  ASSUME SaysInv
  PROVE  GapIsPending
BY DEF SaysInv, SaysOn, GapIsPending, Owes, Small

-----------------------------------------------------------------------------
(* Romance is mutual.                                                       *)

Romantic(e) == e # None /\ e.stage = "romantic"

\* The edges of a pair, but for one that went dormant, and the second write to come.
MutualOn(k) ==
  LET l == Rev(k)
  IN /\ \/ k \in dormant \/ l \in dormant
        \/ \E w \in Workers : PutOn(jobs[w], k) \/ PutOn(jobs[w], l)
        \/ (Romantic(edge[k]) <=> Romantic(edge[l]))
     /\ \A w \in Workers : PutOn(jobs[w], l) =>
          \/ k \in dormant \/ l \in dormant
          \/ (Romantic(edge[k]) <=> jobs[w][1].value.stage = "romantic")

MutualInv == Calm => \A k \in Keys : k[2] \in Actors => MutualOn(k)

\* Pairs of which no write is judged, made or dropped.
LEMMA MutualFrame ==
  ASSUME NEW k \in Keys, k[2] \in Actors, MutualOn(k), dormant \subseteq dormant',
         NEW l, l = Rev(k),
         Romantic(edge'[k]) <=> Romantic(edge[k]),
         Romantic(edge'[l]) <=> Romantic(edge[l]),
         \A v \in Workers : /\ PutOn(jobs'[v], k) <=> PutOn(jobs[v], k)
                            /\ PutOn(jobs'[v], l) <=> PutOn(jobs[v], l)
                            /\ PutOn(jobs[v], l) => jobs'[v][1] = jobs[v][1]
  PROVE  MutualOn(k)'
<1>1. \/ k \in dormant' \/ l \in dormant'
      \/ \E w \in Workers : PutOn(jobs'[w], k) \/ PutOn(jobs'[w], l)
      \/ (Romantic(edge'[k]) <=> Romantic(edge'[l]))
  <2>1. \/ k \in dormant \/ l \in dormant
        \/ \E w \in Workers : PutOn(jobs[w], k) \/ PutOn(jobs[w], l)
        \/ (Romantic(edge[k]) <=> Romantic(edge[l]))
    BY DEF MutualOn
  <2>. QED  BY <2>1
<1>2. ASSUME NEW w \in Workers, PutOn(jobs'[w], l)
      PROVE  \/ k \in dormant' \/ l \in dormant'
             \/ (Romantic(edge'[k]) <=> jobs'[w][1].value.stage = "romantic")
  <2>1. PutOn(jobs[w], l) /\ jobs'[w][1] = jobs[w][1]
    BY <1>2
  <2>2. \/ k \in dormant \/ l \in dormant
        \/ (Romantic(edge[k]) <=> jobs[w][1].value.stage = "romantic")
    BY <2>1 DEF MutualOn
  <2>. QED  BY <2>1, <2>2
<1>. QED  BY <1>1, <1>2 DEF MutualOn

\* A step that leaves romances and the puts to come keeps them mutual.
LEMMA MutualQuiet ==
  ASSUME \A k \in Keys : k[2] \in Actors => MutualOn(k), dormant \subseteq dormant',
         \A k \in Keys : Romantic(edge'[k]) <=> Romantic(edge[k]),
         \A v \in Workers, k \in Keys : /\ PutOn(jobs'[v], k) <=> PutOn(jobs[v], k)
                                        /\ PutOn(jobs[v], k) => jobs'[v][1] = jobs[v][1]
  PROVE  \A k \in Keys : k[2] \in Actors => MutualOn(k)'
<1>1. ASSUME NEW k \in Keys, k[2] \in Actors PROVE MutualOn(k)'
  <2>1. PICK l \in Keys : l = Rev(k)
    BY <1>1, KeyFacts
  <2>. QED  BY <1>1, <2>1, MutualFrame
<1>. QED  BY <1>1

\* Actions aside, reading, meeting and appending are such steps.
LEMMA MutualAside ==
  ASSUME TypeInv, ShapeInv, TypeInv', ShapeInv', NEW w \in Workers,
         Aside(w) \/ Load(w) \/ Meet(w) \/ AppendNews(w),
         \A k \in Keys : k[2] \in Actors => MutualOn(k)
  PROVE  \A k \in Keys : k[2] \in Actors => MutualOn(k)'
<1>1. edge' = edge /\ dormant' = dormant
  BY AsideFacts DEF Load, Meet, AppendNews, redis, history
<1>2. \A v \in Workers, k \in Keys : /\ PutOn(jobs'[v], k) <=> PutOn(jobs[v], k)
                                     /\ PutOn(jobs[v], k) => jobs'[v][1] = jobs[v][1]
  <2>1. CASE Aside(w)
    <3>1. /\ \A k \in Keys : hand[w][k] = None
          /\ hand' = hand /\ \A v \in Workers \ {w} : jobs'[v] = jobs[v]
      BY <2>1, AsideFacts
    <3>2. ~At(jobs[w], {"put"}) /\ ~At(jobs'[w], {"put"})
      <4>1. jobs[w] \in Seq(Tasks) /\ jobs'[w] \in Seq(Tasks)
        BY DEF TypeInv
      <4>2. /\ Shape(jobs[w], hand[w], crowded[w], dormant)
            /\ Shape(jobs'[w], hand'[w], crowded'[w], dormant')
        BY DEF ShapeInv
      <4>. QED  BY <3>1, <4>1, <4>2, NoPut
    <3>. QED  BY <3>1, <3>2 DEF PutOn
  <2>2. CASE Load(w) \/ Meet(w) \/ AppendNews(w)
    <3>1. jobs' = jobs
      BY <2>2 DEF Load, Meet, AppendNews
    <3>. QED  BY <3>1
  <2>. QED  BY <2>1, <2>2
<1>. QED  BY <1>1, <1>2, MutualQuiet

\* An edge put to rest is romantic no more by that alone.
LEMMA MutualRest ==
  ASSUME TypeInv, ShapeInv, NEW w \in Workers, PutToRest(w),
         \A k \in Keys : k[2] \in Actors => MutualOn(k)
  PROVE  \A k \in Keys : k[2] \in Actors => MutualOn(k)'
<1>. DEFINE a == crowded[w][1]
            b == Weakest(crowded[w])
            x == [op |-> "forget", keys |-> <<<<a, b>>>>]
<1>1. /\ At(jobs[w], Making) /\ dormant \subseteq dormant'
      /\ \/ jobs' = jobs
         \/ <<a, b>> \in Keys /\ jobs' = [jobs EXCEPT ![w] = <<x>> \o @]
  <2>1. /\ At(jobs[w], Making)
        /\ \/ jobs' = jobs /\ dormant' = dormant
           \/ /\ <<a, b>> \in Keys /\ jobs' = [jobs EXCEPT ![w] = <<x>> \o @]
              /\ dormant' = dormant \cup {<<a, b>>}
    BY RestFacts
  <2>. QED  BY <2>1
<1>2. ~At(jobs[w], {"put"})
  BY <1>1 DEF At, Making
<1>3. \A v \in Workers \ {w} : jobs'[v] = jobs[v]
  <2>. HIDE DEF x
  <2>. QED  BY <1>1 DEF TypeInv
<1>4. ~At(jobs'[w], {"put"})
  <2>1. CASE jobs' = jobs
    BY <1>2, <2>1
  <2>2. CASE <<a, b>> \in Keys /\ jobs' = [jobs EXCEPT ![w] = <<x>> \o @]
    <3>1. x \in Tasks /\ jobs[w] \in Seq(Tasks) /\ x.op = "forget"
      BY <2>2, TaskMakes DEF TypeInv
    <3>. HIDE DEF x
    <3>2. jobs'[w] = <<x>> \o jobs[w]
      BY <2>2 DEF TypeInv
    <3>3. jobs'[w][1] = x
      BY <3>1, <3>2, RowFront
    <3>. QED  BY <3>1, <3>3 DEF At
  <2>. QED  BY <1>1, <2>1, <2>2
<1>5. edge' = edge
  BY DEF PutToRest
<1>6. \A v \in Workers, k \in Keys : /\ PutOn(jobs'[v], k) <=> PutOn(jobs[v], k)
                                     /\ PutOn(jobs[v], k) => jobs'[v][1] = jobs[v][1]
  BY <1>2, <1>3, <1>4 DEF PutOn
<1>. QED  BY <1>1, <1>5, <1>6, MutualQuiet

\* What is deleted is dormant.
LEMMA MutualForget ==
  ASSUME TypeInv, ShapeInv, NEW w \in Workers, Forget(w),
         \A k \in Keys : k[2] \in Actors => MutualOn(k)
  PROVE  \A k \in Keys : k[2] \in Actors => MutualOn(k)'
<1>. DEFINE row == jobs[w]
<1>1. PICK o \in Keys : /\ o = Job(w).keys[1] /\ At(row, {"forget"}) /\ row # <<>>
                        /\ row \in Seq(Tasks) /\ Job(w) = row[1]
  BY DoingAt, DoingKeys, JobFacts DEF Forget
<1>2. /\ jobs' = [jobs EXCEPT ![w] = Tail(@)] /\ edge' = [edge EXCEPT ![o] = None]
      /\ dormant' = dormant
  BY <1>1 DEF Forget, Finished
<1>3. o \in dormant
  BY <1>1 DEF ShapeInv, Shape, ForgetShape
<1>4. ~At(Tail(row), {"put"}) /\ ~At(row, {"put"})
  BY <1>1, ShapeTail DEF ShapeInv, Shape, At
<1>5. /\ jobs'[w] = Tail(row) /\ \A v \in Workers \ {w} : jobs'[v] = jobs[v]
      /\ \A k \in Keys : k # o => edge'[k] = edge[k]
  BY <1>1, <1>2 DEF TypeInv, TypeOK
<1>6. \A v \in Workers, k \in Keys : /\ PutOn(jobs'[v], k) <=> PutOn(jobs[v], k)
                                     /\ PutOn(jobs[v], k) => jobs'[v][1] = jobs[v][1]
  BY <1>4, <1>5 DEF PutOn
<1>7. ASSUME NEW k \in Keys, k[2] \in Actors PROVE MutualOn(k)'
  <2>1. PICK l \in Keys : l = Rev(k)
    BY <1>7, KeyFacts
  <2>2. CASE k = o \/ l = o
    BY <1>2, <1>3, <2>1, <2>2 DEF MutualOn
  <2>3. CASE k # o /\ l # o
    <3>1. edge'[k] = edge[k] /\ edge'[l] = edge[l]
      BY <1>5, <2>3
    <3>2. \A v \in Workers : /\ PutOn(jobs'[v], k) <=> PutOn(jobs[v], k)
                             /\ PutOn(jobs'[v], l) <=> PutOn(jobs[v], l)
                             /\ PutOn(jobs[v], l) => jobs'[v][1] = jobs[v][1]
      BY <1>6
    <3>. QED  BY <1>2, <1>7, <2>1, <3>1, <3>2, MutualFrame
  <2>. QED  BY <2>2, <2>3
<1>. QED  BY <1>7

\* The romance of what is in hand is that of what Redis has.
LEMMA HandRomantic ==
  ASSUME ShapeInv, NEW k \in Keys, SaysOn(k), NEW w \in Workers, hand[w][k] # None,
         ~At(jobs[w], {"put"})
  PROVE  hand[w][k].stage = "romantic" <=> Romantic(edge[k])
<1>1. edge[k] = hand[w][k] \/ (edge[k] = None /\ hand[w][k] = Newcomer)
  BY HandSays
<1>2. Newcomer.stage = "acquaintance"
  BY NewcomerKept DEF Newcomer
<1>. QED  BY <1>1, <1>2 DEF Romantic

\* Saving dimensions keeps the stage.
LEMMA MutualSave ==
  ASSUME TypeInv, ShapeInv, NEW w \in Workers, Save(w), \A k \in Keys : SaysOn(k),
         \A k \in Keys : k[2] \in Actors => MutualOn(k)
  PROVE  \A k \in Keys : k[2] \in Actors => MutualOn(k)'
<1>. DEFINE row == jobs[w]
<1>1. \E o \in Keys, e \in Edge :
        /\ At(row, Reading) /\ row # <<>> /\ row \in Seq(Tasks)
        /\ hand[w][o] # None /\ e.stage = hand[w][o].stage
        /\ edge' = [edge EXCEPT ![o] = e]
  <2>. DEFINE k == Job(w).keys[1]
              c == Changed(Job(w), hand[w][k])
              kept == Stored(IF Job(w).op = "muse" THEN c ELSE Settled(c))
  <2>1. /\ k \in Keys /\ Doing(w, Reading) /\ row # <<>>
        /\ hand[w][k] # None /\ kept \in Edge /\ kept.stage = hand[w][k].stage
        /\ edge' = [edge EXCEPT ![k] = kept]
    BY SaveFacts
  <2>. HIDE DEF kept, k
  <2>2. At(row, Reading) /\ row \in Seq(Tasks)
    BY <2>1, DoingAt, JobFacts
  <2>. QED  BY <2>1, <2>2
<1>2. PICK o \in Keys, e \in Edge :
        /\ At(row, Reading) /\ row # <<>> /\ row \in Seq(Tasks)
        /\ hand[w][o] # None /\ e.stage = hand[w][o].stage
        /\ edge' = [edge EXCEPT ![o] = e]
  BY <1>1
<1>3. /\ ~At(row, {"put"}) /\ jobs'[w] = Tail(row) /\ ~At(Tail(row), {"put"})
      /\ \A v \in Workers \ {w} : jobs'[v] = jobs[v]
  <2>1. ~At(row, {"put"}) /\ HeadFirst(row)
    BY <1>2 DEF At, Reading, ShapeInv, Shape
  <2>2. ~At(Tail(row), {"put"})
    BY <1>2, <2>1, ShapeTail DEF At
  <2>3. jobs' = [jobs EXCEPT ![w] = Tail(row)]
    BY DEF Save, Finished
  <2>. QED  BY <2>1, <2>2, <2>3 DEF TypeInv
<1>4. \A k \in Keys : Romantic(edge'[k]) <=> Romantic(edge[k])
  <2>1. hand[w][o].stage = "romantic" <=> Romantic(edge[o])
    BY <1>2, <1>3, HandRomantic
  <2>2. \A k \in Keys : edge'[k] = IF k = o THEN e ELSE edge[k]
    BY <1>2 DEF TypeInv, TypeOK
  <2>. QED  BY <1>2, <2>1, <2>2, KeyFacts DEF Romantic
<1>5. \A v \in Workers, k \in Keys : /\ PutOn(jobs'[v], k) <=> PutOn(jobs[v], k)
                                     /\ PutOn(jobs[v], k) => jobs'[v][1] = jobs[v][1]
  BY <1>3 DEF PutOn
<1>6. dormant' = dormant
  BY DEF Save, history
<1>. QED  BY <1>4, <1>5, <1>6, MutualQuiet

\* A verdict changes both edges to the same, or neither.
LEMMA MutualJudge ==
  ASSUME TypeInv, ShapeInv, Excl, ~clash, NEW w \in Workers, Judge(w),
         \A k \in Keys : SaysOn(k), \A k \in Keys : k[2] \in Actors => MutualOn(k)
  PROVE  \A k \in Keys : k[2] \in Actors => MutualOn(k)'
<1>1. PICK k \in Keys, s \in Stages \cup {"same"}, row \in Seq(Tasks) : Judges(w, k, s, row)
  BY JudgeRow
<1>. DEFINE l == Rev(k)
            e == After(s, hand[w][k])
            f == After(s, hand[w][l])
<1>2. /\ l \in Keys /\ k # l /\ Rev(l) = k /\ k[2] \in Actors /\ At(jobs[w], {"stage"})
      /\ hand[w][k] # None /\ hand[w][l] # None /\ Kept(hand[w][k]) /\ Kept(hand[w][l])
      /\ edge' = [edge EXCEPT ![k] = e] /\ jobs' = [jobs EXCEPT ![w] = row]
      /\ At(row, {"put"}) /\ row[1].keys[1] = l /\ row[1].value = f
  BY <1>1 DEF Judges
<1>3. dormant' = dormant
  BY DEF Judge, history
<1>4. ~At(jobs[w], {"put"})
  BY <1>2 DEF At
<1>5. /\ hand[w][k].stage = "romantic" <=> Romantic(edge[k])
      /\ hand[w][l].stage = "romantic" <=> Romantic(edge[l])
  <2>1. hand[w][k].stage = "romantic" <=> Romantic(edge[k])
    BY <1>2, <1>4, HandRomantic
  <2>2. hand[w][l].stage = "romantic" <=> Romantic(edge[l])
    BY <1>2, <1>4, HandRomantic
  <2>. QED  BY <2>1, <2>2
<1>6. /\ Kept(e) /\ e.stage = IF s = "same" THEN hand[w][k].stage ELSE s
      /\ f.stage = IF s = "same" THEN hand[w][l].stage ELSE s
  <2>1. Kept(e) /\ e.stage = IF s = "same" THEN hand[w][k].stage ELSE s
    BY <1>2, AfterKept DEF After
  <2>2. f.stage = IF s = "same" THEN hand[w][l].stage ELSE s
    BY <1>2, AfterKept DEF After
  <2>. QED  BY <2>1, <2>2
<1>7. \A v \in Workers \ {w} : hand[v][k] = None /\ hand[v][l] = None
  BY <1>2, Alone DEF Holds
<1>8. \A v \in Workers : ~PutOn(jobs[v], k) /\ ~PutOn(jobs[v], l)
  <2>1. \A v \in Workers \ {w} : ~PutOn(jobs[v], k) /\ ~PutOn(jobs[v], l)
    BY <1>7, PutHolds
  <2>. QED  BY <1>4, <2>1 DEF PutOn
<1>9. k \in dormant \/ l \in dormant \/ (e.stage = "romantic" <=> f.stage = "romantic")
  <2>1. \/ k \in dormant \/ l \in dormant
        \/ (Romantic(edge[k]) <=> Romantic(edge[l]))
    BY <1>2, <1>8 DEF MutualOn
  <2>. HIDE DEF e, f
  <2>. QED  BY <1>5, <1>6, <2>1
<1>. HIDE DEF e, f
<1>10. /\ \A m \in Keys : edge'[m] = IF m = k THEN e ELSE edge[m]
       /\ jobs'[w] = row /\ \A v \in Workers \ {w} : jobs'[v] = jobs[v]
  BY <1>2 DEF TypeInv, TypeOK
<1>11. Romantic(edge'[k]) <=> e.stage = "romantic"
  BY <1>6, <1>10, KeyFacts DEF Romantic, Kept
<1>12. PutOn(jobs'[w], l)
  BY <1>2, <1>10 DEF PutOn
<1>13. \A v \in Workers : ~PutOn(jobs'[v], k) /\ (PutOn(jobs'[v], l) => v = w)
  BY <1>2, <1>8, <1>10 DEF PutOn
<1>14. MutualOn(k)'
  <2>1. jobs'[w][1].value = f
    BY <1>2, <1>10
  <2>. QED  BY <1>3, <1>9, <1>11, <1>12, <1>13, <2>1 DEF MutualOn
<1>15. \A m \in Keys : m = l => MutualOn(m)'
  <2>1. ASSUME NEW m \in Keys, m = l PROVE MutualOn(m)'
    <3>1. Rev(m) = k
      BY <1>2, <2>1
    <3>. QED  BY <1>12, <1>13, <2>1, <3>1 DEF MutualOn
  <2>. QED  BY <2>1
<1>16. ASSUME NEW m \in Keys, m[2] \in Actors, m # k, m # l PROVE MutualOn(m)'
  <2>1. PICK o \in Keys : o = Rev(m) /\ Rev(o) = m
    BY <1>16, KeyFacts
  <2>2. o # k /\ o # l
    BY <1>2, <1>16, <2>1
  <2>3. edge'[m] = edge[m] /\ edge'[o] = edge[o]
    BY <1>10, <1>16, <2>2
  <2>4. \A v \in Workers : /\ PutOn(jobs'[v], m) <=> PutOn(jobs[v], m)
                           /\ PutOn(jobs'[v], o) <=> PutOn(jobs[v], o)
                           /\ PutOn(jobs[v], o) => jobs'[v][1] = jobs[v][1]
    BY <1>2, <1>4, <1>10, <1>16, <2>2 DEF PutOn
  <2>5. /\ dormant \subseteq dormant' /\ (Romantic(edge'[m]) <=> Romantic(edge[m]))
        /\ (Romantic(edge'[o]) <=> Romantic(edge[o])) /\ MutualOn(m)
    BY <1>3, <1>16, <2>3
  <2>. QED  BY <1>16, <2>1, <2>4, <2>5, MutualFrame
<1>. QED  BY <1>14, <1>15, <1>16

\* Without a clash, the second write completes the pair.
LEMMA MutualPut ==
  ASSUME TypeInv, ShapeInv, Excl, ~clash, NEW w \in Workers, Put(w),
         \A k \in Keys : k[2] \in Actors => MutualOn(k)
  PROVE  \A k \in Keys : k[2] \in Actors => MutualOn(k)'
<1>. DEFINE row == jobs[w]
<1>1. PICK l \in Keys : /\ l = Job(w).keys[1] /\ PutOn(row, l) /\ row \in Seq(Tasks)
                        /\ Job(w) = row[1] /\ row # <<>>
  BY DoingKeys, DoingAt, JobFacts DEF Put, PutOn
<1>2. /\ hand[w][l] # None /\ hand[w][Rev(l)] # None /\ Kept(row[1].value) /\ l[2] \in Actors
  BY <1>1, PutHolds
<1>3. PICK k \in Keys : k = Rev(l) /\ Rev(k) = l /\ k # l /\ k[2] \in Actors
  BY <1>2, KeyFacts DEF Rev
<1>4. /\ edge' = [edge EXCEPT ![l] = row[1].value] /\ dormant' = dormant
      /\ jobs' = [jobs EXCEPT ![w] = Tail(row)]
  BY <1>1, <1>2 DEF Put, Finished, Kept, history
<1>5. ~At(Tail(row), {"put"})
  BY <1>1, ShapeTail DEF At, ShapeInv, Shape, PutOn
<1>6. \A v \in Workers \ {w} : hand[v][l] = None /\ hand[v][k] = None
  BY <1>2, <1>3, Alone DEF Holds
<1>7. /\ \A m \in Keys : edge'[m] = IF m = l THEN row[1].value ELSE edge[m]
      /\ jobs'[w] = Tail(row) /\ \A v \in Workers \ {w} : jobs'[v] = jobs[v]
  BY <1>4 DEF TypeInv, TypeOK
<1>8. \A v \in Workers : ~PutOn(jobs'[v], l) /\ ~PutOn(jobs'[v], k)
  <2>1. \A v \in Workers \ {w} : ~PutOn(jobs[v], l) /\ ~PutOn(jobs[v], k)
    BY <1>6, PutHolds
  <2>. QED  BY <1>5, <1>7, <2>1 DEF PutOn
<1>9. \/ k \in dormant' \/ l \in dormant'
      \/ (Romantic(edge'[k]) <=> Romantic(edge'[l]))
  <2>1. \/ k \in dormant \/ l \in dormant
        \/ (Romantic(edge[k]) <=> row[1].value.stage = "romantic")
    BY <1>1, <1>3 DEF MutualOn
  <2>2. edge'[k] = edge[k] /\ edge'[l] = row[1].value /\ row[1].value # None
    BY <1>2, <1>3, <1>7, KeyFacts DEF Kept
  <2>. QED  BY <1>4, <2>1, <2>2 DEF Romantic
<1>10. MutualOn(k)' /\ MutualOn(l)'
  BY <1>3, <1>8, <1>9 DEF MutualOn
<1>11. ASSUME NEW m \in Keys, m[2] \in Actors, m # k, m # l PROVE MutualOn(m)'
  <2>1. PICK o \in Keys : o = Rev(m) /\ Rev(o) = m
    BY <1>11, KeyFacts
  <2>2. o # k /\ o # l
    BY <1>3, <1>11, <2>1
  <2>3. edge'[m] = edge[m] /\ edge'[o] = edge[o]
    BY <1>7, <1>11, <2>2
  <2>4. \A v \in Workers : /\ PutOn(jobs'[v], m) <=> PutOn(jobs[v], m)
                           /\ PutOn(jobs'[v], o) <=> PutOn(jobs[v], o)
                           /\ PutOn(jobs[v], o) => jobs'[v][1] = jobs[v][1]
    <3>1. row[1].keys[1] = l
      BY <1>1 DEF PutOn
    <3>2. ~PutOn(jobs[w], m) /\ ~PutOn(jobs[w], o)
      BY <3>1, <1>11, <2>2 DEF PutOn
    <3>3. ~PutOn(jobs'[w], m) /\ ~PutOn(jobs'[w], o)
      <4>1. jobs'[w] = Tail(row)
        BY <1>7
      <4>2. ~At(jobs'[w], {"put"})
        BY <1>5, <4>1
      <4>. QED  BY <4>2 DEF PutOn
    <3>4. \A v \in Workers \ {w} : jobs'[v] = jobs[v]
      BY <1>7
    <3>. QED  BY <3>2, <3>3, <3>4
  <2>5. /\ dormant \subseteq dormant' /\ (Romantic(edge'[m]) <=> Romantic(edge[m]))
        /\ (Romantic(edge'[o]) <=> Romantic(edge[o])) /\ MutualOn(m)
    BY <1>4, <1>11, <2>3
  <2>. QED  BY <1>11, <2>1, <2>4, <2>5, MutualFrame
<1>. QED  BY <1>10, <1>11

\* Every step keeps romances mutual, or the other side about to be written.
LEMMA MutualNext ==
  ASSUME TypeInv, ShapeInv, Excl, SaysInv, MutualInv, TypeInv', ShapeInv', [Next]_vars
  PROVE  MutualInv'
<1>1. SUFFICES ASSUME Calm' PROVE \A k \in Keys : k[2] \in Actors => MutualOn(k)'
  BY DEF MutualInv
<1>2. Calm /\ ~clash /\ ~(\E w \in Workers : Crash(w))
  BY <1>1, CalmBefore DEF Calm
<1>3. /\ \A k \in Keys : SaysOn(k)
      /\ \A k \in Keys : k[2] \in Actors => MutualOn(k)
  BY <1>2 DEF SaysInv, MutualInv
<1>4. CASE UNCHANGED <<edge, jobs, dormant>>
  BY <1>3, <1>4, MutualQuiet
<1>5. ASSUME NEW w \in Workers, Keep(w)
      PROVE  \A k \in Keys : k[2] \in Actors => MutualOn(k)'
  <2>1. CASE Aside(w) \/ Load(w) \/ Meet(w) \/ AppendNews(w)
    BY <1>3, <2>1, MutualAside
  <2>2. CASE PutToRest(w)
    BY <1>3, <2>2, MutualRest
  <2>3. CASE Forget(w)
    BY <1>3, <2>3, MutualForget
  <2>4. CASE Save(w)
    BY <1>3, <2>4, MutualSave
  <2>5. CASE Judge(w)
    BY <1>2, <1>3, <2>5, MutualJudge
  <2>6. CASE Put(w)
    BY <1>2, <1>3, <2>6, MutualPut
  <2>. QED  BY <1>5, <2>1, <2>2, <2>3, <2>4, <2>5, <2>6 DEF Keep, Aside
<1>6. CASE UNCHANGED vars \/ NextTick
  BY <1>4, <1>6 DEF vars, redis, mind, history, NextTick
<1>. QED  BY <1>2, <1>5, <1>6 DEF Next

\* That is the property the run checks.
LEMMA MutualRomance ==
  ASSUME ShapeInv, MutualInv
  PROVE  RomanceIsMutual
<1>1. SUFFICES ASSUME Calm, NEW k \in Keys, <<k[2], k[1]>> \in Keys,
                      k \notin dormant, <<k[2], k[1]>> \notin dormant,
                      ~\E w \in Workers : hand[w][k] # None /\ hand[w][<<k[2], k[1]>>] # None,
                      edge[k] # None, edge[k].stage = "romantic"
               PROVE  /\ edge[<<k[2], k[1]>>] # None
                      /\ edge[<<k[2], k[1]>>].stage = "romantic"
  BY DEF RomanceIsMutual
<1>2. PICK l \in Keys : l = Rev(k) /\ l = <<k[2], k[1]>>
  BY <1>1 DEF Rev
<1>3. k[2] \in Actors /\ Rev(l) = k
  <2>1. k[2] \in Actors
    BY <1>2, KeyFacts
  <2>. QED  BY <1>2, <2>1, KeyFacts
<1>4. \A w \in Workers : ~PutOn(jobs[w], k) /\ ~PutOn(jobs[w], l)
  BY <1>1, <1>2, <1>3, PutHolds
<1>5. Romantic(edge[k]) <=> Romantic(edge[l])
  BY <1>1, <1>2, <1>3, <1>4 DEF MutualInv, MutualOn
<1>. QED  BY <1>1, <1>2, <1>5 DEF Romantic

-----------------------------------------------------------------------------
(* The index.                                                               *)

\* Who is about to put an edge of a to rest.
CrowdedBy(crowd, a) == {w \in Workers : crowd[w] # None /\ crowd[w][1] = a}

\* What is in an index over its limit is being put to rest, or a worker failed.
SizeInv ==
  \A a \in Actors :
    Cardinality(index[a]) <= MaxEdges + faults + Cardinality(CrowdedBy(crowded, a))

\* The workers that crowd an index are finitely many.
LEMMA CrowdSize ==
  ASSUME NEW crowd, NEW a
  PROVE  /\ Cardinality(CrowdedBy(crowd, a)) \in Nat
         /\ IsFiniteSet(CrowdedBy(crowd, a))
<1>1. IsFiniteSet(CrowdedBy(crowd, a))
  BY EdgeAssumption, FS_Subset DEF CrowdedBy
<1>. QED  BY <1>1, FS_CardinalityType

\* An index is finite.
LEMMA IndexFinite ==
  ASSUME NEW S \in SUBSET Others
  PROVE  IsFiniteSet(S) /\ Cardinality(S) \in Nat
<1>1. IsFiniteSet(S)
  BY EdgeAssumption, FS_Subset
<1>. QED  BY <1>1, FS_CardinalityType

\* The limits are numbers, and one edge at least is kept.
LEMMA Limits == MaxEdges \in Nat /\ MaxEdges >= 1 /\ MaxFaults \in Nat
BY EdgeAssumption

\* A first meeting makes an index one longer, and says so when it is too long.
LEMMA SizeMeet ==
  ASSUME TypeInv, SizeInv, NEW w \in Workers, Meet(w)
  PROVE  SizeInv'
<1>1. PICK k \in Keys : k = NextKey(w) /\ crowded[w] = None /\ k[1] \in Actors /\ k[2] \in Others
  BY NextKeyIs, KeyFacts DEF Meet
<1>. DEFINE listed == index[k[1]] \cup {k[2]}
<1>2. /\ index' = [index EXCEPT ![k[1]] = listed] /\ faults' = faults
      /\ crowded' = [crowded EXCEPT ![w] = IF Cardinality(listed) > MaxEdges THEN k ELSE None]
  BY <1>1 DEF Meet
<1>3. /\ \A a \in Actors : index[a] \subseteq Others
      /\ faults \in Nat
      /\ \A a \in Actors : index'[a] = IF a = k[1] THEN listed ELSE index[a]
  <2>. HIDE DEF listed
  <2>. QED  BY <1>2, Limits DEF TypeInv, TypeOK
<1>4. /\ \A v \in Workers \ {w} : crowded'[v] = crowded[v]
      /\ crowded'[w] = IF Cardinality(listed) > MaxEdges THEN k ELSE None
  BY <1>2 DEF TypeInv, TypeOK
<1>5. /\ Cardinality(listed) \in Nat /\ Cardinality(index[k[1]]) \in Nat
      /\ Cardinality(listed) <= Cardinality(index[k[1]]) + 1
  <2>1. IsFiniteSet(index[k[1]]) /\ Cardinality(index[k[1]]) \in Nat
    BY <1>1, <1>3, IndexFinite
  <2>2. /\ Cardinality(listed) = IF k[2] \in index[k[1]] THEN Cardinality(index[k[1]])
                                 ELSE Cardinality(index[k[1]]) + 1
    BY <2>1, FS_AddElement
  <2>. QED  BY <2>1, <2>2
<1>. HIDE DEF listed
<1>6. ASSUME NEW a \in Actors, a # k[1]
      PROVE  Cardinality(index'[a]) <= MaxEdges + faults' + Cardinality(CrowdedBy(crowded', a))
  <2>1. CrowdedBy(crowded', a) = CrowdedBy(crowded, a)
    BY <1>1, <1>4, <1>6 DEF CrowdedBy
  <2>. QED  BY <1>2, <1>3, <1>6, <2>1 DEF SizeInv
<1>7. Cardinality(listed) <= MaxEdges + faults + Cardinality(CrowdedBy(crowded', k[1]))
  <2>1. CASE Cardinality(listed) > MaxEdges
    <3>1. w \notin CrowdedBy(crowded, k[1])
      BY <1>1 DEF CrowdedBy
    <3>2. CrowdedBy(crowded', k[1]) = CrowdedBy(crowded, k[1]) \cup {w}
      BY <1>4, <2>1, KeyFacts DEF CrowdedBy
    <3>3. Cardinality(CrowdedBy(crowded', k[1])) = Cardinality(CrowdedBy(crowded, k[1])) + 1
      BY <3>1, <3>2, CrowdSize, FS_AddElement
    <3>4. Cardinality(index[k[1]]) <= MaxEdges + faults + Cardinality(CrowdedBy(crowded, k[1]))
      BY <1>1 DEF SizeInv
    <3>5. Cardinality(CrowdedBy(crowded, k[1])) \in Nat
      BY CrowdSize
    <3>. QED  BY <1>3, <1>5, <3>3, <3>4, <3>5, Limits
  <2>2. CASE ~(Cardinality(listed) > MaxEdges)
    <3>1. Cardinality(CrowdedBy(crowded', k[1])) \in Nat
      BY CrowdSize
    <3>. QED  BY <1>3, <1>5, <2>2, <3>1, Limits
  <2>. QED  BY <2>1, <2>2
<1>8. ASSUME NEW a \in Actors, a = k[1]
      PROVE  Cardinality(index'[a]) <= MaxEdges + faults' + Cardinality(CrowdedBy(crowded', a))
  BY <1>2, <1>3, <1>7, <1>8
<1>. QED  BY <1>6, <1>8 DEF SizeInv

\* A worker that leaves the crowd makes it one smaller at most.
LEMMA CrowdLess ==
  ASSUME NEW crowd, NEW more, NEW w \in Workers, NEW a,
         \A v \in Workers \ {w} : more[v] = crowd[v]
  PROVE  /\ Cardinality(CrowdedBy(more, a)) >= Cardinality(CrowdedBy(crowd, a)) - 1
         /\ w \notin CrowdedBy(crowd, a) =>
              Cardinality(CrowdedBy(more, a)) >= Cardinality(CrowdedBy(crowd, a))
<1>. DEFINE C == CrowdedBy(crowd, a)
            D == CrowdedBy(more, a)
<1>1. IsFiniteSet(C) /\ Cardinality(C) \in Nat /\ IsFiniteSet(D) /\ Cardinality(D) \in Nat
  BY CrowdSize
<1>2. C \ {w} \subseteq D
  BY DEF CrowdedBy
<1>. HIDE DEF C, D
<1>3. /\ IsFiniteSet(C \ {w})
      /\ Cardinality(C \ {w}) = IF w \in C THEN Cardinality(C) - 1 ELSE Cardinality(C)
  BY <1>1, FS_RemoveElement
<1>4. Cardinality(C \ {w}) <= Cardinality(D)
  BY <1>1, <1>2, FS_Subset
<1>5. /\ Cardinality(D) >= Cardinality(C) - 1
      /\ w \notin C => Cardinality(D) >= Cardinality(C)
  BY <1>1, <1>3, <1>4
<1>. QED  BY <1>5 DEF C, D

\* Putting one edge to rest makes the index one shorter.
LEMMA SizeRest ==
  ASSUME TypeInv, ShapeInv, SizeInv, NEW w \in Workers, PutToRest(w)
  PROVE  SizeInv'
<1>1. PICK c \in Keys : c = crowded[w] /\ c[1] \in Actors
  BY RestFacts, KeyFacts
<1>2. /\ crowded' = [crowded EXCEPT ![w] = None] /\ faults' = faults
      /\ \/ index[c[1]] \ {c[2]} = {} /\ index' = index
         \/ \E b \in index[c[1]] : index' = [index EXCEPT ![c[1]] = @ \ {b}]
  <2>. DEFINE b == Weakest(crowded[w])
  <2>1. /\ crowded' = [crowded EXCEPT ![w] = None]
        /\ \/ index[c[1]] \ {c[2]} = {} /\ index' = index
           \/ b \in index[c[1]] /\ index' = [index EXCEPT ![c[1]] = @ \ {b}]
    BY <1>1, RestFacts
  <2>2. faults' = faults
    BY DEF PutToRest
  <2>. HIDE DEF b
  <2>. QED  BY <2>1, <2>2
<1>3. faults \in Nat /\ \A a \in Actors : index[a] \subseteq Others
  BY Limits DEF TypeInv, TypeOK
<1>4. \A v \in Workers \ {w} : crowded'[v] = crowded[v]
  BY <1>2 DEF TypeInv, TypeOK
<1>5. ASSUME NEW a \in Actors, a # c[1]
      PROVE  Cardinality(index'[a]) <= MaxEdges + faults' + Cardinality(CrowdedBy(crowded', a))
  <2>1. w \notin CrowdedBy(crowded, a)
    BY <1>1, <1>5 DEF CrowdedBy
  <2>2. Cardinality(CrowdedBy(crowded', a)) >= Cardinality(CrowdedBy(crowded, a))
    BY <1>4, <2>1, CrowdLess
  <2>3. index'[a] = index[a]
    BY <1>2, <1>5 DEF TypeInv, TypeOK
  <2>4. /\ Cardinality(index[a]) <= MaxEdges + faults + Cardinality(CrowdedBy(crowded, a))
        /\ Cardinality(index[a]) \in Nat
    BY <1>3, IndexFinite DEF SizeInv
  <2>5. /\ Cardinality(CrowdedBy(crowded, a)) \in Nat
        /\ Cardinality(CrowdedBy(crowded', a)) \in Nat
    BY CrowdSize
  <2>. QED  BY <1>2, <1>3, <2>2, <2>3, <2>4, <2>5, Limits
<1>6. Cardinality(index'[c[1]]) <= MaxEdges + faults' + Cardinality(CrowdedBy(crowded', c[1]))
  <2>1. /\ Cardinality(index[c[1]]) <= MaxEdges + faults + Cardinality(CrowdedBy(crowded, c[1]))
        /\ Cardinality(index[c[1]]) \in Nat /\ IsFiniteSet(index[c[1]])
    BY <1>1, <1>3, IndexFinite DEF SizeInv
  <2>2. /\ Cardinality(CrowdedBy(crowded, c[1])) \in Nat
        /\ Cardinality(CrowdedBy(crowded', c[1])) \in Nat
        /\ Cardinality(CrowdedBy(crowded', c[1])) >= Cardinality(CrowdedBy(crowded, c[1])) - 1
    BY <1>4, CrowdSize, CrowdLess
  <2>3. CASE index[c[1]] \ {c[2]} = {} /\ index' = index
    <3>1. index[c[1]] \subseteq {c[2]}
      BY <2>3
    <3>2. Cardinality(index[c[1]]) <= 1
      <4>1. IsFiniteSet({c[2]}) /\ Cardinality({c[2]}) = 1
        BY FS_Singleton
      <4>2. Cardinality(index[c[1]]) <= Cardinality({c[2]})
        BY <3>1, <4>1, FS_Subset
      <4>. QED  BY <4>1, <4>2
    <3>. QED  BY <1>2, <1>3, <2>1, <2>2, <2>3, <3>2, Limits
  <2>4. CASE \E b \in index[c[1]] : index' = [index EXCEPT ![c[1]] = @ \ {b}]
    <3>1. PICK b \in index[c[1]] : index' = [index EXCEPT ![c[1]] = @ \ {b}]
      BY <2>4
    <3>2. index'[c[1]] = index[c[1]] \ {b}
      BY <1>1, <3>1 DEF TypeInv, TypeOK
    <3>3. Cardinality(index[c[1]] \ {b}) = Cardinality(index[c[1]]) - 1
      BY <2>1, FS_RemoveElement
    <3>. QED  BY <1>2, <1>3, <2>1, <2>2, <3>2, <3>3, Limits
  <2>. QED  BY <1>2, <2>3, <2>4
<1>. QED  BY <1>5, <1>6 DEF SizeInv

\* A crashed worker leaves the crowd, and counts as a fault.
LEMMA SizeCrash ==
  ASSUME TypeInv, SizeInv, NEW w \in Workers, Crash(w)
  PROVE  SizeInv'
<1>1. index' = index /\ faults' = faults + 1 /\ crowded' = [crowded EXCEPT ![w] = None]
  BY DEF Crash, Lost, redis
<1>2. \A v \in Workers \ {w} : crowded'[v] = crowded[v]
  BY <1>1 DEF TypeInv, TypeOK
<1>3. faults \in Nat /\ \A a \in Actors : index[a] \subseteq Others
  BY Limits DEF TypeInv, TypeOK
<1>4. ASSUME NEW a \in Actors
      PROVE  Cardinality(index'[a]) <= MaxEdges + faults' + Cardinality(CrowdedBy(crowded', a))
  <2>1. Cardinality(CrowdedBy(crowded', a)) >= Cardinality(CrowdedBy(crowded, a)) - 1
    BY <1>2, CrowdLess
  <2>2. /\ Cardinality(index[a]) <= MaxEdges + faults + Cardinality(CrowdedBy(crowded, a))
        /\ Cardinality(index[a]) \in Nat
    BY <1>3, IndexFinite DEF SizeInv
  <2>3. /\ Cardinality(CrowdedBy(crowded, a)) \in Nat
        /\ Cardinality(CrowdedBy(crowded', a)) \in Nat
    BY CrowdSize
  <2>. QED  BY <1>1, <1>3, <2>1, <2>2, <2>3, Limits
<1>. QED  BY <1>4 DEF SizeInv

\* Every step keeps the index within its bound, its crowd and the faults.
LEMMA SizeNext ==
  ASSUME TypeInv, ShapeInv, SizeInv, [Next]_vars
  PROVE  SizeInv'
<1>1. CASE UNCHANGED <<index, crowded, faults>>
  BY <1>1 DEF SizeInv
<1>2. CASE UNCHANGED vars \/ NextTick
  BY <1>1, <1>2 DEF vars, redis, mind, NextTick
<1>3. ASSUME NEW w \in Workers, Keep(w) PROVE SizeInv'
  <2>1. CASE Meet(w)
    BY <2>1, SizeMeet
  <2>2. CASE PutToRest(w)
    BY <2>2, SizeRest
  <2>3. CASE Aside(w)
    BY <1>1, <2>3, AsideFacts
  <2>4. CASE Load(w) \/ Forget(w) \/ Save(w) \/ Judge(w) \/ Put(w) \/ AppendNews(w)
    BY Zenon, <1>1, <2>4 DEF Load, Forget, Save, Judge, Put, AppendNews, redis
  <2>. QED  BY <1>3, <2>1, <2>2, <2>3, <2>4 DEF Keep, Aside
<1>. QED  BY <1>2, <1>3, SizeCrash DEF Next

RestOn(row, k) == At(row, {"forget"}) /\ row[1].keys = <<k>>

Listed(k) ==
  \/ k[2] \in index[k[1]]
  \/ k \in dormant /\ (faults > 0 \/ \E w \in Workers : RestOn(jobs[w], k))

\* What Redis or a hand holds is listed.
ListsOn(k) == edge[k] # None \/ (\E w \in Workers : hand[w][k] # None) => Listed(k)

ListsInv == ~clash => \A k \in Keys : ListsOn(k)

\* A list grows, and only the one at rest is taken off.
LEMMA ListedFrame ==
  ASSUME NEW k \in Keys, Listed(k), dormant \subseteq dormant',
         k[2] \in index[k[1]] => k[2] \in index'[k[1]],
         faults > 0 => faults' > 0,
         \A v \in Workers : RestOn(jobs[v], k) => RestOn(jobs'[v], k)
  PROVE  Listed(k)'
BY DEF Listed

\* A step that takes no edge out of the index, and makes none, keeps it.
LEMMA ListsAll ==
  ASSUME \A k \in Keys : ListsOn(k), UNCHANGED <<index, faults>>, dormant \subseteq dormant',
         \A v \in Workers, k \in Keys : RestOn(jobs[v], k) => RestOn(jobs'[v], k),
         \A k \in Keys : edge'[k] # None => edge[k] # None \/ \E v \in Workers : hand[v][k] # None,
         \A v \in Workers, k \in Keys : hand'[v][k] # None => hand[v][k] # None \/ edge[k] # None
  PROVE  \A k \in Keys : ListsOn(k)'
<1>1. ASSUME NEW k \in Keys, edge'[k] # None \/ \E w \in Workers : hand'[w][k] # None
      PROVE  Listed(k)'
  <2>1. Listed(k)
    BY <1>1 DEF ListsOn
  <2>. QED  BY <2>1, ListedFrame
<1>. QED  BY <1>1 DEF ListsOn

\* Actions aside are such steps.
LEMMA ListsAside ==
  ASSUME TypeInv, ShapeInv, NEW w \in Workers, Aside(w), \A k \in Keys : ListsOn(k)
  PROVE  \A k \in Keys : ListsOn(k)'
<1>1. /\ UNCHANGED <<edge, index, hand, faults, dormant>>
      /\ \A v \in Workers \ {w} : jobs'[v] = jobs[v]
  BY AsideFacts
<1>2. ~At(jobs[w], {"forget"})
  <2>1. ~Doing(w, {"forget"})
    BY Zenon DEF Aside, StartTick, Idle, Gone, ListEdges, Reflect, State, Note, FinishTick, Doing
  <2>. QED  BY <2>1, DoingAt
<1>3. \A v \in Workers, k \in Keys : RestOn(jobs[v], k) => RestOn(jobs'[v], k)
  BY <1>1, <1>2 DEF RestOn
<1>. QED  BY <1>1, <1>3, ListsAll

\* Reading an edge keeps it where the index can find it.
LEMMA ListsLoad ==
  ASSUME TypeInv, NEW w \in Workers, Load(w), \A k \in Keys : ListsOn(k)
  PROVE  \A k \in Keys : ListsOn(k)'
<1>1. PICK k \in Keys : k = NextKey(w)
  BY NextKeyIs DEF Load
<1>2. /\ edge[k] # None /\ hand' = [hand EXCEPT ![w][k] = edge[k]]
      /\ UNCHANGED <<edge, index, jobs, faults, dormant>>
  BY <1>1 DEF Load, Take, redis
<1>3. \A v \in Workers, l \in Keys :
        hand'[v][l] = IF v = w /\ l = k THEN edge[k] ELSE hand[v][l]
  BY <1>1, <1>2 DEF TypeInv, TypeOK
<1>. QED  BY <1>2, <1>3, ListsAll

\* A new edge is listed before it is written.
LEMMA ListsMeet ==
  ASSUME TypeInv, NEW w \in Workers, Meet(w), \A k \in Keys : ListsOn(k)
  PROVE  \A k \in Keys : ListsOn(k)'
<1>1. PICK k \in Keys : k = NextKey(w) /\ k[1] \in Actors
  BY NextKeyIs, KeyFacts DEF Meet
<1>2. /\ hand' = [hand EXCEPT ![w][k] = Newcomer]
      /\ index' = [index EXCEPT ![k[1]] = index[k[1]] \cup {k[2]}]
      /\ UNCHANGED <<edge, jobs, faults, dormant>>
  BY <1>1 DEF Meet, Take, Newcomer
<1>3. /\ \A v \in Workers, l \in Keys :
           hand'[v][l] = IF v = w /\ l = k THEN Newcomer ELSE hand[v][l]
      /\ \A a \in Actors : index'[a] = IF a = k[1] THEN index[a] \cup {k[2]} ELSE index[a]
  BY <1>1, <1>2 DEF TypeInv, TypeOK
<1>4. ASSUME NEW l \in Keys, edge'[l] # None \/ \E v \in Workers : hand'[v][l] # None
      PROVE  Listed(l)'
  <2>1. CASE l = k
    <3>1. k[2] \in index'[k[1]]
      BY <1>1, <1>3
    <3>. QED  BY <2>1, <3>1 DEF Listed
  <2>2. CASE l # k
    <3>1. Listed(l)
      BY <1>2, <1>3, <1>4, <2>2 DEF ListsOn
    <3>2. l[1] \in Actors
      BY KeyFacts
    <3>3. l[2] \in index[l[1]] => l[2] \in index'[l[1]]
      BY <1>3, <3>2
    <3>. QED  BY <1>2, <3>1, <3>3, ListedFrame
  <2>. QED  BY <2>1, <2>2
<1>. QED  BY <1>4 DEF ListsOn

\* Who is taken off the list is about to be deleted.
LEMMA ListsRest ==
  ASSUME TypeInv, ShapeInv, NEW w \in Workers, PutToRest(w), \A k \in Keys : ListsOn(k)
  PROVE  \A k \in Keys : ListsOn(k)'
<1>. DEFINE a == crowded[w][1]
            b == Weakest(crowded[w])
            x == [op |-> "forget", keys |-> <<<<a, b>>>>]
<1>1. UNCHANGED <<edge, hand, faults>>
  BY DEF PutToRest
<1>2. /\ At(jobs[w], Making) /\ a \in Actors
      /\ \/ UNCHANGED <<index, jobs, dormant, clash>>
         \/ /\ <<a, b>> \in Keys
            /\ index' = [index EXCEPT ![a] = @ \ {b}]
            /\ jobs' = [jobs EXCEPT ![w] = <<x>> \o @]
            /\ dormant' = dormant \cup {<<a, b>>}
  BY RestFacts
<1>3. CASE UNCHANGED <<index, jobs, dormant, clash>>
  BY <1>1, <1>3, ListsAll
<1>4. CASE /\ <<a, b>> \in Keys
           /\ index' = [index EXCEPT ![a] = @ \ {b}]
           /\ jobs' = [jobs EXCEPT ![w] = <<x>> \o @]
           /\ dormant' = dormant \cup {<<a, b>>}
  <2>1. PICK o \in Keys : o = <<a, b>>
    BY <1>4
  <2>2. x \in Tasks /\ x.op = "forget" /\ x.keys = <<o>> /\ jobs[w] \in Seq(Tasks)
    BY <1>4, <2>1, TaskMakes DEF TypeInv
  <2>3. /\ index' = [index EXCEPT ![o[1]] = @ \ {o[2]}] /\ dormant' = dormant \cup {o}
        /\ o[1] \in Actors
    BY <1>2, <1>4, <2>1
  <2>. HIDE DEF x, a, b
  <2>4. /\ jobs'[w] = <<x>> \o jobs[w] /\ \A v \in Workers \ {w} : jobs'[v] = jobs[v]
        /\ \A c \in Actors : index'[c] = IF c = o[1] THEN index[c] \ {o[2]} ELSE index[c]
    BY <1>4, <2>3 DEF TypeInv, TypeOK
  <2>5. <<x>> \o jobs[w] # <<>> /\ (<<x>> \o jobs[w])[1] = x
    BY <2>2, RowFront
  <2>6. RestOn(jobs'[w], o)
    BY <2>2, <2>4, <2>5 DEF RestOn, At
  <2>7. \A v \in Workers, k \in Keys : RestOn(jobs[v], k) => RestOn(jobs'[v], k)
    BY <1>2, <2>4 DEF RestOn, At, Making
  <2>8. ASSUME NEW k \in Keys, edge'[k] # None \/ \E v \in Workers : hand'[v][k] # None
        PROVE  Listed(k)'
    <3>1. CASE k = o
      BY <2>3, <2>6, <3>1 DEF Listed
    <3>2. CASE k # o
      <4>1. Listed(k)
        BY <1>1, <2>8 DEF ListsOn
      <4>2. k = <<k[1], k[2]>> /\ o = <<o[1], o[2]>> /\ k[1] \in Actors
        BY KeyFacts
      <4>3. k[2] \in index[k[1]] => k[2] \in index'[k[1]]
        BY <2>4, <3>2, <4>2
      <4>. QED  BY <1>1, <2>3, <2>7, <4>1, <4>3, ListedFrame
    <3>. QED  BY <3>1, <3>2
  <2>. QED  BY <2>8 DEF ListsOn
<1>. QED  BY <1>2, <1>3, <1>4

\* Without a clash, only what was put to rest is forgotten.
LEMMA ListsForget ==
  ASSUME TypeInv, ShapeInv, NEW w \in Workers, Forget(w), ~clash', \A k \in Keys : ListsOn(k)
  PROVE  \A k \in Keys : ListsOn(k)'
<1>. DEFINE row == jobs[w]
<1>1. PICK o \in Keys : /\ o = Job(w).keys[1] /\ At(row, {"forget"}) /\ row # <<>>
                        /\ row \in Seq(Tasks) /\ Job(w) = row[1] /\ row[1] \in Tasks
  BY DoingAt, DoingKeys, JobFacts DEF Forget
<1>2. /\ jobs' = [jobs EXCEPT ![w] = Tail(@)] /\ edge' = [edge EXCEPT ![o] = None]
      /\ UNCHANGED <<hand, index, faults, dormant>>
  BY <1>1 DEF Forget, Finished
<1>3. \A v \in Workers \ {w} : hand[v][o] = None
  <2>1. ~Busy(o, w)
    BY <1>1 DEF Forget
  <2>. QED  BY <2>1 DEF Busy
<1>4. hand[w][o] = None
  BY <1>1 DEF ShapeInv, Shape, HandShape, ForgetShape, At, Reading
<1>5. \A k \in Keys : RestOn(row, k) => k = o
  <2>1. row[1].keys = <<o>>
    BY <1>1, KeyTasks DEF At
  <2>. QED  BY <2>1 DEF RestOn
<1>6. /\ \A v \in Workers \ {w} : jobs'[v] = jobs[v]
      /\ \A l \in Keys : edge'[l] = IF l = o THEN None ELSE edge[l]
  BY <1>1, <1>2 DEF TypeInv, TypeOK
<1>7. ASSUME NEW k \in Keys, edge'[k] # None \/ \E v \in Workers : hand'[v][k] # None
      PROVE  Listed(k)'
  <2>1. k # o
    BY <1>2, <1>3, <1>4, <1>6, <1>7
  <2>2. Listed(k)
    BY <1>2, <1>6, <1>7, <2>1 DEF ListsOn
  <2>3. \A v \in Workers : RestOn(jobs[v], k) => RestOn(jobs'[v], k)
    BY <1>5, <1>6, <2>1
  <2>. QED  BY <1>2, <2>2, <2>3, ListedFrame
<1>. QED  BY <1>7 DEF ListsOn

\* What is written was in hand.
LEMMA ListsWrite ==
  ASSUME TypeInv, ShapeInv, NEW w \in Workers, Save(w) \/ Judge(w) \/ Put(w),
         \A k \in Keys : ListsOn(k)
  PROVE  \A k \in Keys : ListsOn(k)'
<1>1. PICK k \in Keys : /\ hand[w][k] # None /\ ~At(jobs[w], {"forget"})
                        /\ \E e : edge' = [edge EXCEPT ![k] = e]
  <2>1. CASE Save(w)
    BY <2>1, SaveFacts, DoingAt DEF At, Reading
  <2>2. CASE Judge(w)
    <3>1. PICK k \in Keys, s \in Stages \cup {"same"}, row \in Seq(Tasks) : Judges(w, k, s, row)
      BY <2>2, JudgeRow
    <3>. QED  BY <3>1 DEF Judges, At
  <2>3. CASE Put(w)
    <3>1. Job(w).keys[1] \in Keys /\ At(jobs[w], {"put"}) /\ Job(w) = jobs[w][1]
      BY <2>3, DoingKeys, DoingAt, JobFacts DEF Put
    <3>2. hand[w][Job(w).keys[1]] # None
      BY <3>1 DEF ShapeInv, Shape, PutShape
    <3>3. \E e : edge' = [edge EXCEPT ![Job(w).keys[1]] = e]
      BY Zenon, <2>3 DEF Put
    <3>. QED  BY <3>1, <3>2, <3>3 DEF At
  <2>. QED  BY <2>1, <2>2, <2>3
<1>2. UNCHANGED <<index, faults, dormant>>
  BY Zenon DEF Save, Judge, Put, history
<1>3. hand' = hand \/ hand' = [hand EXCEPT ![w] = Empty]
  BY Zenon DEF Save, Judge, Put
<1>4. \E row : jobs' = [jobs EXCEPT ![w] = row]
  BY Zenon DEF Save, Judge, Put, Finished
<1>5. /\ \A v \in Workers \ {w} : jobs'[v] = jobs[v]
      /\ \A v \in Workers, l \in Keys : hand'[v][l] \in {hand[v][l], None}
      /\ \A l \in Keys : l # k => edge'[l] = edge[l]
  <2>1. \A v \in Workers \ {w} : jobs'[v] = jobs[v]
    BY <1>4 DEF TypeInv
  <2>2. \A v \in Workers, l \in Keys : hand'[v][l] \in {hand[v][l], None}
    BY <1>3, Nothing DEF TypeInv, TypeOK
  <2>3. \A l \in Keys : l # k => edge'[l] = edge[l]
    BY <1>1 DEF TypeInv, TypeOK
  <2>. QED  BY <2>1, <2>2, <2>3
<1>6. \A v \in Workers, l \in Keys : RestOn(jobs[v], l) => RestOn(jobs'[v], l)
  BY <1>1, <1>5 DEF RestOn
<1>7. \A l \in Keys : edge'[l] # None => edge[l] # None \/ \E v \in Workers : hand[v][l] # None
  BY <1>1, <1>5
<1>. QED  BY <1>2, <1>5, <1>6, <1>7, ListsAll

\* A worker that ends before it forgets counts as a fault.
LEMMA ListsCrash ==
  ASSUME TypeInv, NEW w \in Workers, Crash(w), \A k \in Keys : ListsOn(k)
  PROVE  \A k \in Keys : ListsOn(k)'
<1>1. /\ UNCHANGED <<edge, index, dormant>> /\ faults' = faults + 1 /\ faults \in Nat
      /\ hand' = [hand EXCEPT ![w] = Empty]
  BY Limits DEF Crash, Lost, redis, history, TypeInv, TypeOK
<1>2. \A v \in Workers, l \in Keys : hand'[v][l] \in {hand[v][l], None}
  BY <1>1, Nothing DEF TypeInv, TypeOK
<1>3. faults' > 0
  BY <1>1
<1>4. \A k \in Keys : Listed(k) => Listed(k)'
  BY <1>1, <1>3 DEF Listed
<1>. QED  BY <1>1, <1>2, <1>4 DEF ListsOn

\* Every step keeps the index.
LEMMA ListsNext ==
  ASSUME TypeInv, ShapeInv, ListsInv, [Next]_vars
  PROVE  ListsInv'
<1>1. SUFFICES ASSUME ~clash' PROVE \A k \in Keys : ListsOn(k)'
  BY DEF ListsInv
<1>2. CASE UNCHANGED vars \/ NextTick
  <2>1. UNCHANGED <<edge, index, hand, jobs, faults, dormant>> /\ clash' = clash
    BY <1>2 DEF vars, redis, mind, history, NextTick
  <2>2. \A k \in Keys : ListsOn(k)
    BY <1>1, <2>1 DEF ListsInv
  <2>. QED  BY <2>1, <2>2, ListsAll
<1>3. ASSUME NEW w \in Workers, Keep(w) \/ Crash(w) PROVE \A k \in Keys : ListsOn(k)'
  <2>1. ~clash
    <3>1. CASE Aside(w)
      BY <1>1, <3>1, AsideFacts
    <3>2. CASE Save(w) \/ Judge(w) \/ Put(w) \/ AppendNews(w) \/ Crash(w)
      <4>1. clash' = clash
        BY Zenon, <3>2 DEF Save, Judge, Put, AppendNews, Crash, Lost, history
      <4>. QED  BY <1>1, <4>1
    <3>3. CASE Load(w) \/ Meet(w) \/ Forget(w) \/ PutToRest(w)
      <4>1. clash' = clash \/ \E k : clash' = (clash \/ Busy(k, w))
        BY <3>3 DEF Load, Meet, Forget, PutToRest
      <4>. QED  BY <1>1, <4>1
    <3>. QED  BY <1>3, <3>1, <3>2, <3>3 DEF Keep, Aside
  <2>2. \A k \in Keys : ListsOn(k)
    BY <2>1 DEF ListsInv
  <2>3. CASE Aside(w)
    BY <2>2, <2>3, ListsAside
  <2>4. CASE Load(w)
    BY <2>2, <2>4, ListsLoad
  <2>5. CASE Meet(w)
    BY <2>2, <2>5, ListsMeet
  <2>6. CASE PutToRest(w)
    BY <2>2, <2>6, ListsRest
  <2>7. CASE Forget(w)
    BY <1>1, <2>2, <2>7, ListsForget
  <2>8. CASE Save(w) \/ Judge(w) \/ Put(w)
    BY <2>2, <2>8, ListsWrite
  <2>9. CASE AppendNews(w)
    <3>1. UNCHANGED <<edge, index, hand, jobs, faults, dormant>>
      BY <2>9 DEF AppendNews, redis, history
    <3>. QED  BY <2>2, <3>1, ListsAll
  <2>10. CASE Crash(w)
    BY <2>2, <2>10, ListsCrash
  <2>. QED  BY <1>3, <2>3, <2>4, <2>5, <2>6, <2>7, <2>8, <2>9, <2>10 DEF Keep, Aside
<1>. QED  BY <1>2, <1>3 DEF Next

\* The index lists the edges, within its bound: the property the run checks.
LEMMA ListsKept ==
  ASSUME TypeInv, SizeInv, ListsInv
  PROVE  IndexKept
<1>1. ASSUME NEW a \in Actors
      PROVE  \/ Cardinality(index[a]) <= MaxEdges + faults
             \/ \E w \in Workers : crowded[w] # None /\ crowded[w][1] = a
  <2>1. CASE CrowdedBy(crowded, a) = {}
    <3>1. Cardinality(CrowdedBy(crowded, a)) = 0
      BY <2>1, FS_EmptySet
    <3>2. Cardinality(index[a]) <= MaxEdges + faults + Cardinality(CrowdedBy(crowded, a))
      BY DEF SizeInv
    <3>3. faults \in Nat
      BY Limits DEF TypeInv, TypeOK
    <3>. QED  BY <3>1, <3>2, <3>3, Limits
  <2>2. CASE CrowdedBy(crowded, a) # {}
    BY <2>2 DEF CrowdedBy
  <2>. QED  BY <2>1, <2>2
<1>2. ASSUME ~clash, NEW k \in Keys, edge[k] # None
      PROVE  \/ k[2] \in index[k[1]]
             \/ k \in dormant /\ (faults > 0 \/ Resting(k))
  <2>1. Listed(k)
    BY <1>2 DEF ListsInv, ListsOn
  <2>2. ASSUME NEW w \in Workers, RestOn(jobs[w], k) PROVE Resting(k)
    <3>1. jobs[w] # <<>> /\ Job(w) = jobs[w][1] /\ Doing(w, {"forget"})
      BY <2>2, DoingAt, JobFacts DEF RestOn, At
    <3>. QED  BY <2>2, <3>1 DEF RestOn, Resting
  <2>. QED  BY <2>1, <2>2 DEF Listed
<1>. QED  BY <1>1, <1>2 DEF IndexKept

-----------------------------------------------------------------------------
(* What an actor holds follows from what it has grounds for.                *)

Stating == {"believe", "note"}

\* What a's worker is still to state or to note of what a believes.
ThoughtsOf(row, a) ==
  {row[n] : n \in {m \in 1..Len(row) : row[m].op \in Stating /\ row[m].who = a}}

\* A worker thinks for its own actors, and beliefs come before anything else.
ThoughtRow(row, w) ==
  \A n \in 1..Len(row) :
    /\ row[n].op \in Stating \cup {"reflect"} => Home[row[n].who] = w
    /\ row[n].op \in Stating =>
         \A m \in 1..Len(row) : m < n => row[m].op \in Stating \cup {"muse"}

\* Rows of tasks side by side.
LEMMA ThoughtsJoin ==
  ASSUME NEW s \in Seq(Tasks), NEW t \in Seq(Tasks), NEW a
  PROVE  ThoughtsOf(s \o t, a) = ThoughtsOf(s, a) \cup ThoughtsOf(t, a)
<1>. DEFINE r == s \o t
<1>1. /\ Len(s) \in Nat /\ Len(t) \in Nat /\ Len(r) = Len(s) + Len(t)
      /\ \A n \in 1..Len(s) : r[n] = s[n]
      /\ \A n \in 1..Len(r) :
           \/ n \in 1..Len(s) /\ r[n] = s[n]
           \/ n - Len(s) \in 1..Len(t) /\ r[n] = t[n - Len(s)]
  BY RowConcat, LenProperties
<1>. HIDE DEF r
<1>2. \A n \in 1..Len(s) : n \in 1..Len(r)
  BY <1>1
<1>3. \A m \in 1..Len(t) : \E n \in 1..Len(r) : r[n] = t[m]
  <2>1. ASSUME NEW m \in 1..Len(t) PROVE \E n \in 1..Len(r) : r[n] = t[m]
    <3>. DEFINE n == m + Len(s)
    <3>1. n \in 1..Len(r) /\ n - Len(s) = m /\ n \notin 1..Len(s)
      BY <1>1
    <3>. HIDE DEF n
    <3>. QED  BY <1>1, <3>1
  <2>. QED  BY <2>1
<1>4. ThoughtsOf(r, a) \subseteq ThoughtsOf(s, a) \cup ThoughtsOf(t, a)
  BY <1>1 DEF ThoughtsOf
<1>5. ThoughtsOf(s, a) \subseteq ThoughtsOf(r, a)
  BY <1>1, <1>2 DEF ThoughtsOf
<1>6. ThoughtsOf(t, a) \subseteq ThoughtsOf(r, a)
  BY <1>3 DEF ThoughtsOf
<1>. QED  BY <1>4, <1>5, <1>6 DEF r

\* One more task in front.
LEMMA ThoughtsFront ==
  ASSUME NEW x \in Tasks, NEW t \in Seq(Tasks), NEW a
  PROVE  ThoughtsOf(<<x>> \o t, a) =
           ThoughtsOf(t, a) \cup (IF x.op \in Stating /\ x.who = a THEN {x} ELSE {})
<1>1. <<x>> \in Seq(Tasks) /\ Len(<<x>>) = 1 /\ <<x>>[1] = x
  OBVIOUS
<1>2. ThoughtsOf(<<x>>, a) = IF x.op \in Stating /\ x.who = a THEN {x} ELSE {}
  BY <1>1 DEF ThoughtsOf
<1>3. ThoughtsOf(<<x>> \o t, a) = ThoughtsOf(<<x>>, a) \cup ThoughtsOf(t, a)
  BY <1>1, ThoughtsJoin
<1>. QED  BY <1>2, <1>3

\* One task done.
LEMMA ThoughtsRest ==
  ASSUME NEW row \in Seq(Tasks), row # <<>>, NEW a
  PROVE  ThoughtsOf(row, a) =
           ThoughtsOf(Tail(row), a)
             \cup (IF row[1].op \in Stating /\ row[1].who = a THEN {row[1]} ELSE {})
<1>. DEFINE r == Tail(row)
            first == IF row[1].op \in Stating /\ row[1].who = a THEN {row[1]} ELSE {}
<1>1. /\ Len(r) = Len(row) - 1 /\ Len(row) \in Nat /\ 1 \in 1..Len(row)
      /\ \A n \in 1..Len(r) : n + 1 \in 1..Len(row) /\ r[n] = row[n + 1]
  BY RowRest, LenProperties
<1>. HIDE DEF r
<1>2. ThoughtsOf(r, a) \subseteq ThoughtsOf(row, a)
  BY <1>1 DEF ThoughtsOf
<1>3. first \subseteq ThoughtsOf(row, a)
  BY <1>1 DEF ThoughtsOf
<1>4. ASSUME NEW j \in ThoughtsOf(row, a)
      PROVE  j \in ThoughtsOf(r, a) \cup first
  <2>1. PICK n \in 1..Len(row) : j = row[n] /\ j.op \in Stating /\ j.who = a
    BY <1>4 DEF ThoughtsOf
  <2>2. CASE n = 1
    BY <2>1, <2>2
  <2>3. CASE n # 1
    <3>. DEFINE m == n - 1
    <3>1. m \in 1..Len(r) /\ m + 1 = n
      BY <1>1, <2>3
    <3>. HIDE DEF m
    <3>2. r[m] = j
      BY <1>1, <2>1, <3>1
    <3>. QED  BY <2>1, <3>1, <3>2 DEF ThoughtsOf
  <2>. QED  BY <2>2, <2>3
<1>. HIDE DEF first
<1>5. ThoughtsOf(row, a) = ThoughtsOf(r, a) \cup first
  BY <1>2, <1>3, <1>4
<1>. QED  BY <1>5 DEF r, first

\* Only what is done next is being noted.
LEMMA NotesAhead ==
  ASSUME NEW row \in Seq(Tasks), HeadFirst(row), row # <<>>, NEW a
  PROVE  /\ \A j \in ThoughtsOf(row, a) : j.op = "note" => j = row[1]
         /\ \A j \in ThoughtsOf(Tail(row), a) : j.op # "note"
<1>1. /\ Len(Tail(row)) = Len(row) - 1 /\ Len(row) \in Nat
      /\ \A n \in 1..Len(Tail(row)) : n + 1 \in 1..Len(row) /\ Tail(row)[n] = row[n + 1]
  BY RowRest, LenProperties
<1>2. \A n \in 1..Len(row) : n > 1 => row[n].op # "note"
  BY DEF HeadFirst
<1>3. ASSUME NEW n \in 1..Len(Tail(row)) PROVE Tail(row)[n].op # "note"
  BY <1>1, <1>2
<1>4. \A n \in 1..Len(row) : n = 1 \/ n > 1
  OBVIOUS
<1>5. \A j \in ThoughtsOf(row, a) : j.op = "note" => j = row[1]
  BY <1>2, <1>4 DEF ThoughtsOf
<1>6. \A j \in ThoughtsOf(Tail(row), a) : j.op # "note"
  BY <1>3 DEF ThoughtsOf
<1>. QED  BY <1>5, <1>6

\* Tasks of one kind in front of a row of thoughts.
LEMMA ThoughtRowJoin ==
  ASSUME NEW s \in Seq(Tasks), NEW t \in Seq(Tasks), NEW w, ThoughtRow(t, w),
         \A n \in 1..Len(s) :
           s[n].op \in Stating \cup {"reflect"} => Home[s[n].who] = w,
         \/ \A n \in 1..Len(s) : s[n].op \in Stating \cup {"muse"}
         \/ /\ \A n \in 1..Len(s) : s[n].op \notin Stating
            /\ \A n \in 1..Len(t) : t[n].op \notin Stating
  PROVE  ThoughtRow(s \o t, w)
<1>. DEFINE r == s \o t
<1>1. /\ Len(s) \in Nat /\ Len(t) \in Nat /\ Len(r) = Len(s) + Len(t)
      /\ \A n \in 1..Len(r) :
           \/ n \in 1..Len(s) /\ r[n] = s[n]
           \/ n - Len(s) \in 1..Len(t) /\ r[n] = t[n - Len(s)]
  BY RowConcat, LenProperties
<1>. HIDE DEF r
<1>2. ASSUME NEW n \in 1..Len(r), r[n].op \in Stating \cup {"reflect"}
      PROVE  Home[r[n].who] = w
  <2>1. CASE n \in 1..Len(s) /\ r[n] = s[n]
    BY <1>2, <2>1
  <2>2. CASE n - Len(s) \in 1..Len(t) /\ r[n] = t[n - Len(s)]
    BY <1>2, <2>2 DEF ThoughtRow
  <2>. QED  BY <1>1, <2>1, <2>2
<1>3. ASSUME NEW n \in 1..Len(r), r[n].op \in Stating,
             NEW m \in 1..Len(r), m < n
      PROVE  r[m].op \in Stating \cup {"muse"}
  <2>1. CASE \A i \in 1..Len(s) : s[i].op \in Stating \cup {"muse"}
    <3>1. CASE m \in 1..Len(s) /\ r[m] = s[m]
      BY <2>1, <3>1
    <3>2. CASE m - Len(s) \in 1..Len(t) /\ r[m] = t[m - Len(s)]
      <4>1. n \notin 1..Len(s) /\ m - Len(s) < n - Len(s)
        BY <1>1, <1>3, <3>2
      <4>2. n - Len(s) \in 1..Len(t) /\ r[n] = t[n - Len(s)]
        BY <1>1, <4>1
      <4>. QED  BY <1>3, <3>2, <4>1, <4>2 DEF ThoughtRow
    <3>. QED  BY <1>1, <3>1, <3>2
  <2>2. CASE /\ \A i \in 1..Len(s) : s[i].op \notin Stating
             /\ \A i \in 1..Len(t) : t[i].op \notin Stating
    BY <1>1, <1>3, <2>2
  <2>. QED  BY <2>1, <2>2
<1>4. ThoughtRow(r, w)
  BY <1>2, <1>3 DEF ThoughtRow
<1>. QED  BY <1>4 DEF r

\* The rest of a row.
LEMMA ThoughtRowRest ==
  ASSUME NEW row \in Seq(Tasks), row # <<>>, NEW w, ThoughtRow(row, w)
  PROVE  ThoughtRow(Tail(row), w)
<1>. DEFINE r == Tail(row)
<1>1. /\ Len(r) = Len(row) - 1 /\ Len(row) \in Nat
      /\ \A n \in 1..Len(r) : n + 1 \in 1..Len(row) /\ r[n] = row[n + 1]
  BY RowRest, LenProperties
<1>. HIDE DEF r
<1>2. ASSUME NEW n \in 1..Len(r), NEW m \in 1..Len(r), m < n, r[n].op \in Stating
      PROVE  r[m].op \in Stating \cup {"muse"}
  <2>1. m + 1 < n + 1
    BY <1>2
  <2>. QED  BY <1>1, <1>2, <2>1 DEF ThoughtRow
<1>3. ASSUME NEW n \in 1..Len(r), r[n].op \in Stating \cup {"reflect"}
      PROVE  Home[r[n].who] = w
  BY <1>1, <1>3 DEF ThoughtRow
<1>4. ThoughtRow(r, w)
  BY <1>2, <1>3 DEF ThoughtRow
<1>. QED  BY <1>4 DEF r

\* Behind anything but a belief there is none.
LEMMA NoThoughts ==
  ASSUME NEW row \in Seq(Tasks), row # <<>>, NEW w, ThoughtRow(row, w),
         row[1].op \notin Stating \cup {"muse"}
  PROVE  /\ \A n \in 1..Len(row) : row[n].op \notin Stating
         /\ \A n \in 1..Len(Tail(row)) : Tail(row)[n].op \notin Stating
         /\ \A a : ThoughtsOf(row, a) = {} /\ ThoughtsOf(Tail(row), a) = {}
<1>1. /\ Len(Tail(row)) = Len(row) - 1 /\ Len(row) \in Nat /\ 1 \in 1..Len(row)
      /\ \A n \in 1..Len(Tail(row)) : n + 1 \in 1..Len(row) /\ Tail(row)[n] = row[n + 1]
  BY RowRest, LenProperties
<1>2. ASSUME NEW n \in 1..Len(row) PROVE row[n].op \notin Stating
  <2>1. n = 1 \/ 1 < n
    OBVIOUS
  <2>. QED  BY <1>1, <2>1 DEF ThoughtRow
<1>3. ASSUME NEW n \in 1..Len(Tail(row)) PROVE Tail(row)[n].op \notin Stating
  BY <1>1, <1>2
<1>. QED  BY <1>2, <1>3 DEF ThoughtsOf

\* More tasks of another kind in front.
LEMMA ThoughtsElse ==
  ASSUME NEW row \in Seq(Tasks), row # <<>>, NEW w, ThoughtRow(row, w),
         row[1].op \notin Stating \cup {"muse"},
         NEW s \in Seq(Tasks),
         \A n \in 1..Len(s) : s[n].op \notin Stating \cup {"reflect"}
  PROVE  /\ ThoughtRow(s \o row, w) /\ ThoughtRow(s \o Tail(row), w)
         /\ \A a : ThoughtsOf(s \o row, a) = {} /\ ThoughtsOf(s \o Tail(row), a) = {}
<1>1. Tail(row) \in Seq(Tasks) /\ ThoughtRow(Tail(row), w)
  BY RowRest, ThoughtRowRest
<1>2. \A a : ThoughtsOf(s, a) = {}
  BY DEF ThoughtsOf
<1>3. \A a : ThoughtsOf(s \o row, a) = {} /\ ThoughtsOf(s \o Tail(row), a) = {}
  <2>1. ASSUME NEW a
        PROVE  ThoughtsOf(s \o row, a) = {} /\ ThoughtsOf(s \o Tail(row), a) = {}
    <3>1. ThoughtsOf(s \o row, a) = ThoughtsOf(s, a) \cup ThoughtsOf(row, a)
      BY ThoughtsJoin
    <3>2. ThoughtsOf(s \o Tail(row), a) = ThoughtsOf(s, a) \cup ThoughtsOf(Tail(row), a)
      <4>. DEFINE r == Tail(row)
      <4>1. r \in Seq(Tasks)
        BY <1>1
      <4>. HIDE DEF r
      <4>2. ThoughtsOf(s \o r, a) = ThoughtsOf(s, a) \cup ThoughtsOf(r, a)
        BY <4>1, ThoughtsJoin
      <4>. QED  BY <4>2 DEF r
    <3>3. ThoughtsOf(row, a) = {} /\ ThoughtsOf(Tail(row), a) = {}
      BY NoThoughts
    <3>. QED  BY <1>2, <3>1, <3>2, <3>3
  <2>. QED  BY <2>1
<1>4. ThoughtRow(s \o row, w)
  BY NoThoughts, ThoughtRowJoin
<1>5. ThoughtRow(s \o Tail(row), w)
  BY <1>1, NoThoughts, ThoughtRowJoin
<1>. QED  BY <1>3, <1>4, <1>5

\* Grounded in a conclusion, or taken back.
Firm(sure) == sure = Faded \/ sure >= Faded + Restate

\* noted: the ledger of an actor; concluded: what it had grounds for.  What is not
\* about to be stated stands in the ledger as it was concluded.
GroundsOf(thoughts, noted, concluded) ==
  /\ \A s \in DOMAIN noted : s[1] \in RuleKinds => Firm(noted[s])
  /\ \A j \in thoughts : j.belief.kind \in RuleKinds => Firm(j.belief.sure)
  /\ concluded # None =>
       /\ \A j \in thoughts : j.belief.kind \in RuleKinds =>
            (j.belief.sure > Faded <=> Slot(j.belief) \in concluded)
       /\ \A s \in concluded : s[1] \in RuleKinds
       /\ \A s \in Slots :
            s[1] \in RuleKinds /\ (\A j \in thoughts : Slot(j.belief) # s) =>
              (s \in DOMAIN noted /\ noted[s] > Faded <=> s \in concluded)

StatedIn(seq, s) == {n \in 1..Len(seq) : Slot(seq[n]) = s}

LastStated(seq, s) ==
  seq[CHOOSE n \in StatedIn(seq, s) : \A m \in StatedIn(seq, s) : m <= n].sure

\* What was stated and is neither noted nor about to be.
Unnoted(thoughts, noted, seq) ==
  {s \in Slots : /\ StatedIn(seq, s) # {}
                 /\ ~(s \in DOMAIN noted /\ noted[s] = LastStated(seq, s))
                 /\ \A j \in thoughts : j.op = "note" => Slot(j.belief) # s}

RepeatAt(seq, n) ==
  LET said == {m \in 1..(n - 1) : Slot(seq[m]) = Slot(seq[n])}
  IN  said # {} /\ LET m == CHOOSE x \in said : \A y \in said : y <= x
                   IN  Abs(seq[n].sure - seq[m].sure) < Restate

RepeatsIn(seq) == {n \in 1..Len(seq) : RepeatAt(seq, n)}

\* A crash may leave one event that is not noted: somebody will repeat it.
RepeatsOf(thoughts, noted, seq, crashes) ==
  /\ \A j \in thoughts : j.op = "note" =>
       /\ StatedIn(seq, Slot(j.belief)) # {}
       /\ LastStated(seq, Slot(j.belief)) = j.belief.sure
  /\ Cardinality(RepeatsIn(seq)) + Cardinality(Unnoted(thoughts, noted, seq)) <= crashes

\* The slot of a belief, and how sure it is.
LEMMA SlotIs ==
  ASSUME NEW b \in Beliefs
  PROVE  Slot(b) \in Slots /\ Slot(b)[1] = b.kind /\ b.sure \in 0..One
BY DEF Beliefs, Slots, Slot

\* A belief not worth stating says what the ledger has.
LEMMA GroundsSkip ==
  ASSUME NEW x, x.belief \in Beliefs, NEW rest, NEW noted, NEW concluded,
         GroundsOf({x} \cup rest, noted, concluded),
         DOMAIN noted \subseteq Slots, noted \in [DOMAIN noted -> 0..One],
         ~WorthStating(x.belief, noted)
  PROVE  GroundsOf(rest, noted, concluded)
<1>. DEFINE b == x.belief
            o == Slot(b)
<1>1. o \in DOMAIN noted /\ o[1] = b.kind /\ b.sure \in Int /\ noted[o] \in Int
  BY SlotIs, Certainties DEF WorthStating
<1>2. Abs(b.sure - noted[o]) < Restate
  BY <1>1, Certainties DEF WorthStating, Abs
<1>3. ASSUME concluded # None, b.kind \in RuleKinds
      PROVE  noted[o] > Faded <=> o \in concluded
  <2>1. Firm(noted[o]) /\ Firm(b.sure) /\ (b.sure > Faded <=> o \in concluded)
    BY <1>1, <1>3 DEF GroundsOf
  <2>. HIDE DEF b, o
  <2>2. b.sure > Faded <=> noted[o] > Faded
    BY <1>1, <1>2, <2>1, Certainties DEF Firm, Abs
  <2>. QED  BY <2>1, <2>2
<1>4. ASSUME concluded # None, NEW s \in Slots, s[1] \in RuleKinds,
             \A j \in rest : Slot(j.belief) # s
      PROVE  s \in DOMAIN noted /\ noted[s] > Faded <=> s \in concluded
  <2>1. CASE s = o
    BY <1>1, <1>3, <1>4, <2>1
  <2>2. CASE s # o
    <3>1. \A j \in {x} \cup rest : Slot(j.belief) # s
      BY <1>4, <2>2
    <3>. QED  BY <1>4, <3>1 DEF GroundsOf
  <2>. QED  BY <2>1, <2>2
<1>. QED  BY <1>4 DEF GroundsOf

\* Stating a belief leaves it to be noted.
LEMMA GroundsState ==
  ASSUME NEW x, NEW y, y.belief = x.belief, NEW rest, NEW noted, NEW concluded,
         GroundsOf({x} \cup rest, noted, concluded)
  PROVE  GroundsOf({y} \cup rest, noted, concluded)
BY DEF GroundsOf

\* What is noted stands in the ledger.
LEMMA GroundsNote ==
  ASSUME NEW x, x.belief \in Beliefs, NEW rest, NEW noted, NEW concluded,
         GroundsOf({x} \cup rest, noted, concluded)
  PROVE  GroundsOf(rest, Noted(noted, x.belief), concluded)
<1>. DEFINE b == x.belief
            o == Slot(b)
            new == Noted(noted, b)
<1>1. o \in Slots /\ o[1] = b.kind
  BY SlotIs
<1>2. /\ DOMAIN new = DOMAIN noted \cup {o} /\ new[o] = b.sure
      /\ \A s \in DOMAIN noted : s # o => new[s] = noted[s]
  BY DEF Noted
<1>. HIDE DEF new
<1>3. \A s \in DOMAIN new : s[1] \in RuleKinds => Firm(new[s])
  BY <1>1, <1>2 DEF GroundsOf
<1>4. ASSUME concluded # None, NEW s \in Slots, s[1] \in RuleKinds,
             \A j \in rest : Slot(j.belief) # s
      PROVE  s \in DOMAIN new /\ new[s] > Faded <=> s \in concluded
  <2>1. CASE s = o
    BY <1>1, <1>2, <1>4, <2>1 DEF GroundsOf
  <2>2. CASE s # o
    <3>1. \A j \in {x} \cup rest : Slot(j.belief) # s
      BY <1>4, <2>2
    <3>2. s \in DOMAIN noted /\ noted[s] > Faded <=> s \in concluded
      BY <1>4, <3>1 DEF GroundsOf
    <3>. QED  BY <1>2, <2>2, <3>2
  <2>. QED  BY <2>1, <2>2
<1>5. GroundsOf(rest, new, concluded)
  BY <1>3, <1>4 DEF GroundsOf
<1>. QED  BY <1>5 DEF new

\* What is derived will be stated, and so will be that something else is gone.
LEMMA GroundsConclude ==
  ASSUME NEW thoughts, NEW noted, DOMAIN noted \subseteq Slots,
         \A s \in DOMAIN noted : s[1] \in RuleKinds => Firm(noted[s]),
         NEW derived \in SUBSET Beliefs,
         \A b \in derived : b.kind \in RuleKinds /\ b.sure >= Faded + Restate,
         \A j \in thoughts :
           j.belief.kind \in RuleKinds => j.belief \in derived \cup Retracted(noted, derived),
         \A b \in derived \cup Retracted(noted, derived) : \E j \in thoughts : j.belief = b
  PROVE  GroundsOf(thoughts, noted, {Slot(b) : b \in derived})
<1>. DEFINE gone == Retracted(noted, derived)
            concluded == {Slot(b) : b \in derived}
<1>1. /\ \A x \in gone : x.sure = Faded /\ Slot(x) \notin concluded
      /\ \A s \in DOMAIN noted : s[1] \in RuleKinds /\ s \notin concluded =>
           \E x \in gone : Slot(x) = s
  BY RetractedIs
<1>. HIDE DEF gone
<1>2. \A b \in derived : /\ b.sure \in Int /\ b.sure > Faded /\ b.sure >= Faded + Restate
                         /\ Slot(b) \in concluded /\ Slot(b)[1] \in RuleKinds
  BY SlotIs, Certainties
<1>3. \A s \in concluded : \E b \in derived : Slot(b) = s
  OBVIOUS
<1>. HIDE DEF concluded
<1>4. ASSUME NEW j \in thoughts, j.belief.kind \in RuleKinds
      PROVE  Firm(j.belief.sure) /\ (j.belief.sure > Faded <=> Slot(j.belief) \in concluded)
  <2>1. CASE j.belief \in derived
    BY <1>2, <2>1 DEF Firm
  <2>2. CASE j.belief \in gone
    BY <1>1, <2>2, Certainties DEF Firm
  <2>. QED  BY <1>4, <2>1, <2>2 DEF gone
<1>5. \A s \in concluded : s[1] \in RuleKinds
  BY <1>2, <1>3
<1>6. ASSUME NEW s \in Slots, s[1] \in RuleKinds, \A j \in thoughts : Slot(j.belief) # s
      PROVE  s \in DOMAIN noted /\ noted[s] > Faded <=> s \in concluded
  <2>1. s \notin concluded
    BY <1>3, <1>6
  <2>2. \A x \in gone : Slot(x) # s
    BY <1>6 DEF gone
  <2>. QED  BY <1>1, <1>6, <2>1, <2>2
<1>7. GroundsOf(thoughts, noted, concluded)
  BY <1>4, <1>5, <1>6 DEF GroundsOf
<1>. QED  BY <1>7 DEF concluded

\* Beliefs that are noted stay grounded without the thoughts.
LEMMA GroundsLost ==
  ASSUME NEW thoughts, NEW noted, NEW concluded, GroundsOf(thoughts, noted, concluded)
  PROVE  GroundsOf({}, noted, None)
BY DEF GroundsOf

\* An actor that has nothing left to state holds what it had grounds for.
LEMMA GroundsSettled ==
  ASSUME NEW noted, DOMAIN noted \subseteq Slots, NEW concluded \in SUBSET Slots,
         concluded # None, GroundsOf({}, noted, concluded)
  PROVE  {s \in DOMAIN noted : s[1] \in RuleKinds /\ noted[s] > Faded} = concluded
BY DEF GroundsOf

-----------------------------------------------------------------------------
(* Repetitions.                                                             *)

\* One more event.
LEMMA StatedMore ==
  ASSUME NEW seq \in Seq(Beliefs), NEW b \in Beliefs, NEW s
  PROVE  LET new == Append(seq, b)
         IN /\ s # Slot(b) =>
                 /\ StatedIn(new, s) = StatedIn(seq, s)
                 /\ StatedIn(seq, s) # {} => LastStated(new, s) = LastStated(seq, s)
            /\ s = Slot(b) => StatedIn(new, s) # {} /\ LastStated(new, s) = b.sure
<1>. DEFINE new == Append(seq, b)
            top == Len(seq) + 1
<1>1. /\ Len(seq) \in Nat /\ Len(new) = top /\ new[top] = b /\ top \in 1..Len(new)
      /\ \A n \in 1..Len(seq) : new[n] = seq[n]
      /\ \A n \in 1..Len(new) : n = top \/ n \in 1..Len(seq)
      /\ \A n \in 1..Len(seq) : n \in 1..Len(new) /\ n # top
  BY AppendProperties, LenProperties
<1>. HIDE DEF new
<1>2. ASSUME s # Slot(b)
      PROVE  /\ StatedIn(new, s) = StatedIn(seq, s)
             /\ StatedIn(seq, s) # {} => LastStated(new, s) = LastStated(seq, s)
  <2>1. StatedIn(new, s) = StatedIn(seq, s)
    BY <1>1, <1>2 DEF StatedIn
  <2>2. CASE StatedIn(seq, s) # {}
    <3>1. StatedIn(seq, s) \in SUBSET (1..Len(seq)) /\ Len(seq) \in Nat
      BY <1>1 DEF StatedIn
    <3>2. \E n \in StatedIn(seq, s) : \A m \in StatedIn(seq, s) : m <= n
      BY <2>2, <3>1, LargestOf
    <3>3. (CHOOSE n \in StatedIn(seq, s) : \A m \in StatedIn(seq, s) : m <= n)
            \in 1..Len(seq)
      BY <3>1, <3>2
    <3>. QED  BY <1>1, <2>1, <3>3 DEF LastStated
  <2>. QED  BY <2>1, <2>2
<1>3. ASSUME s = Slot(b)
      PROVE  StatedIn(new, s) # {} /\ LastStated(new, s) = b.sure
  <2>1. top \in StatedIn(new, s) /\ \A m \in StatedIn(new, s) : m <= top /\ m \in Int
    BY <1>1, <1>3 DEF StatedIn
  <2>2. \A n \in StatedIn(new, s) : (\A m \in StatedIn(new, s) : m <= n) => n = top
    BY <1>1, <2>1
  <2>3. (CHOOSE n \in StatedIn(new, s) : \A m \in StatedIn(new, s) : m <= n) = top
    BY <2>1, <2>2
  <2>. QED  BY <1>1, <2>1, <2>3 DEF LastStated
<1>. QED  BY <1>2, <1>3 DEF new

\* An event repeats what it follows, whatever comes after.
LEMMA RepeatMore ==
  ASSUME NEW seq \in Seq(Beliefs), NEW b \in Beliefs, NEW n \in 1..Len(seq)
  PROVE  RepeatAt(Append(seq, b), n) <=> RepeatAt(seq, n)
<1>. DEFINE new == Append(seq, b)
            said == {m \in 1..(n - 1) : Slot(seq[m]) = Slot(seq[n])}
            last == CHOOSE x \in said : \A y \in said : y <= x
<1>1. Len(seq) \in Nat /\ \A m \in 1..Len(seq) : new[m] = seq[m]
  BY AppendProperties, LenProperties
<1>. HIDE DEF new
<1>2. \A m \in 1..(n - 1) : m \in 1..Len(seq)
  BY <1>1
<1>3. said = {m \in 1..(n - 1) : Slot(new[m]) = Slot(new[n])}
  BY <1>1, <1>2
<1>4. ASSUME said # {} PROVE last \in said
  <2>1. n - 1 \in Nat /\ said \in SUBSET (1..(n - 1))
    BY <1>1
  <2>. HIDE DEF said
  <2>. QED  BY <1>4, <2>1, LargestOf
<1>5. said # {} => new[last] = seq[last] /\ new[n] = seq[n]
  <2>1. said # {} => last \in 1..Len(seq)
    BY <1>2, <1>4
  <2>. HIDE DEF last, said
  <2>. QED  BY <1>1, <2>1
<1>6. RepeatAt(seq, n) <=> said # {} /\ Abs(seq[n].sure - seq[last].sure) < Restate
  BY DEF RepeatAt
<1>7. RepeatAt(new, n) <=> said # {} /\ Abs(new[n].sure - new[last].sure) < Restate
  BY <1>3 DEF RepeatAt
<1>. HIDE DEF last, said
<1>8. RepeatAt(new, n) <=> RepeatAt(seq, n)
  BY <1>5, <1>6, <1>7
<1>. QED  BY <1>8 DEF new

\* The event just appended repeats what was stated last.
LEMMA RepeatLast ==
  ASSUME NEW seq \in Seq(Beliefs), NEW b \in Beliefs,
         RepeatAt(Append(seq, b), Len(seq) + 1)
  PROVE  /\ StatedIn(seq, Slot(b)) # {}
         /\ Abs(b.sure - LastStated(seq, Slot(b))) < Restate
<1>. DEFINE new == Append(seq, b)
            top == Len(seq) + 1
            said == {m \in 1..(top - 1) : Slot(new[m]) = Slot(new[top])}
            last == CHOOSE x \in said : \A y \in said : y <= x
<1>1. /\ Len(seq) \in Nat /\ new[top] = b /\ top - 1 = Len(seq)
      /\ \A m \in 1..Len(seq) : new[m] = seq[m]
  BY AppendProperties, LenProperties
<1>2. said # {} /\ Abs(new[top].sure - new[last].sure) < Restate
  BY DEF RepeatAt
<1>. HIDE DEF new, top
<1>3. said = StatedIn(seq, Slot(b))
  BY <1>1 DEF StatedIn
<1>4. last \in said
  <2>1. said \in SUBSET (1..Len(seq))
    BY <1>1
  <2>. HIDE DEF said
  <2>. QED  BY <1>1, <1>2, <2>1, LargestOf
<1>5. new[last] = seq[last]
  BY <1>1, <1>4
<1>6. seq[last].sure = LastStated(seq, Slot(b))
  BY <1>3 DEF LastStated
<1>. HIDE DEF last, said
<1>. QED  BY <1>1, <1>2, <1>3, <1>5, <1>6

\* What is counted of a ledger is finite.
LEMMA RepeatsFinite ==
  ASSUME NEW seq \in Seq(Beliefs), NEW thoughts, NEW noted
  PROVE  /\ IsFiniteSet(RepeatsIn(seq)) /\ Cardinality(RepeatsIn(seq)) \in Nat
         /\ IsFiniteSet(Unnoted(thoughts, noted, seq))
         /\ Cardinality(Unnoted(thoughts, noted, seq)) \in Nat
<1>1. IsFiniteSet(1..Len(seq))
  BY LenProperties, FS_Interval
<1>2. RepeatsIn(seq) \subseteq 1..Len(seq) /\ Unnoted(thoughts, noted, seq) \subseteq Slots
  BY DEF RepeatsIn, Unnoted
<1>. QED  BY <1>1, <1>2, SlotsFinite, FS_Subset, FS_CardinalityType

\* Fewer unnoted, no more repetitions.
LEMMA RepeatsKept ==
  ASSUME NEW seq \in Seq(Beliefs), NEW thoughts, NEW noted, NEW crashes \in Nat,
         RepeatsOf(thoughts, noted, seq, crashes),
         NEW after, NEW known,
         \A j \in after : j.op = "note" => j \in thoughts,
         Unnoted(after, known, seq) \subseteq Unnoted(thoughts, noted, seq)
  PROVE  RepeatsOf(after, known, seq, crashes)
<1>. DEFINE u == Unnoted(thoughts, noted, seq)
            v == Unnoted(after, known, seq)
            r == Cardinality(RepeatsIn(seq))
<1>1. /\ IsFiniteSet(u) /\ Cardinality(u) \in Nat /\ r \in Nat
      /\ Cardinality(v) \in Nat /\ v \subseteq u
  BY RepeatsFinite
<1>2. r + Cardinality(u) <= crashes
  BY DEF RepeatsOf
<1>. HIDE DEF u, v, r
<1>3. Cardinality(v) <= Cardinality(u)
  BY <1>1, FS_Subset
<1>4. r + Cardinality(v) <= crashes
  BY <1>1, <1>2, <1>3
<1>5. \A j \in after : j.op = "note" =>
        /\ StatedIn(seq, Slot(j.belief)) # {}
        /\ LastStated(seq, Slot(j.belief)) = j.belief.sure
  BY DEF RepeatsOf
<1>. QED  BY <1>4, <1>5 DEF RepeatsOf, v, r

\* The ledger has caught up.
LEMMA RepeatsNote ==
  ASSUME NEW seq \in Seq(Beliefs), NEW x, x.op = "note", x.belief \in Beliefs,
         NEW rest, \A j \in rest : j.op # "note",
         NEW noted, NEW crashes \in Nat, RepeatsOf({x} \cup rest, noted, seq, crashes)
  PROVE  RepeatsOf(rest, Noted(noted, x.belief), seq, crashes)
<1>. DEFINE o == Slot(x.belief)
            new == Noted(noted, x.belief)
<1>1. LastStated(seq, o) = x.belief.sure
  BY DEF RepeatsOf
<1>2. /\ DOMAIN new = DOMAIN noted \cup {o} /\ new[o] = x.belief.sure
      /\ \A s \in DOMAIN noted : s # o => new[s] = noted[s]
  BY DEF Noted
<1>. HIDE DEF o, new
<1>3. \A j \in {x} \cup rest : j.op = "note" => Slot(j.belief) = o
  BY DEF o
<1>4. Unnoted(rest, new, seq) \subseteq Unnoted({x} \cup rest, noted, seq)
  BY <1>1, <1>2, <1>3 DEF Unnoted
<1>5. RepeatsOf(rest, new, seq, crashes)
  BY <1>4, RepeatsKept
<1>. QED  BY <1>5 DEF new

\* Whoever repeats makes up for a note that was lost.
LEMMA RepeatsState ==
  ASSUME NEW seq \in Seq(Beliefs), NEW x, x.op # "note", x.belief \in Beliefs,
         NEW y, y.op = "note", y.belief = x.belief,
         NEW rest, \A j \in rest : j.op # "note",
         NEW noted, noted \in [DOMAIN noted -> 0..One],
         NEW crashes \in Nat, RepeatsOf({x} \cup rest, noted, seq, crashes),
         WorthStating(x.belief, noted)
  PROVE  RepeatsOf({y} \cup rest, noted, Append(seq, x.belief), crashes)
<1>. DEFINE b == x.belief
            o == Slot(b)
            new == Append(seq, b)
            top == Len(seq) + 1
            u == Unnoted({x} \cup rest, noted, seq)
            v == Unnoted({y} \cup rest, noted, new)
            r == RepeatsIn(seq)
            q == RepeatsIn(new)
<1>1. /\ new \in Seq(Beliefs) /\ Len(new) = top /\ Len(seq) \in Nat
      /\ \A n \in 1..top : n = top \/ n \in 1..Len(seq)
  BY AppendProperties, LenProperties
<1>2. /\ IsFiniteSet(u) /\ IsFiniteSet(r) /\ Cardinality(u) \in Nat /\ Cardinality(r) \in Nat
      /\ Cardinality(v) \in Nat /\ Cardinality(q) \in Nat /\ IsFiniteSet(v) /\ IsFiniteSet(q)
  BY <1>1, RepeatsFinite
<1>3. Cardinality(r) + Cardinality(u) <= crashes
  BY DEF RepeatsOf
<1>4. \A n \in 1..Len(seq) : RepeatAt(new, n) <=> RepeatAt(seq, n)
  BY RepeatMore
<1>5. v \subseteq u \ {o}
  <2>1. ASSUME NEW s \in v PROVE s \in u /\ s # o
    <3>1. /\ s \in Slots /\ StatedIn(new, s) # {}
          /\ ~(s \in DOMAIN noted /\ noted[s] = LastStated(new, s))
          /\ s # o
      BY <2>1 DEF Unnoted
    <3>2. StatedIn(new, s) = StatedIn(seq, s) /\ LastStated(new, s) = LastStated(seq, s)
      BY <3>1, StatedMore
    <3>. HIDE DEF new
    <3>. QED  BY <3>1, <3>2 DEF Unnoted
  <2>. HIDE DEF u, v
  <2>. QED  BY <2>1
<1>6. Cardinality(q) + Cardinality(v) <= crashes
  <2>1. CASE RepeatAt(new, top)
    <3>1. StatedIn(seq, o) # {} /\ Abs(b.sure - LastStated(seq, o)) < Restate
      BY <2>1, RepeatLast
    <3>2. ~(o \in DOMAIN noted /\ noted[o] = LastStated(seq, o))
      <4>1. SUFFICES ASSUME o \in DOMAIN noted, noted[o] = LastStated(seq, o) PROVE FALSE
        OBVIOUS
      <4>2. Abs(b.sure - noted[o]) >= Restate
        BY <4>1 DEF WorthStating
      <4>3. b.sure \in Int /\ noted[o] \in Int /\ Restate \in Int
        BY <4>1, SlotIs, Certainties
      <4>. HIDE DEF o, b
      <4>4. Abs(b.sure - noted[o]) < Restate
        BY <3>1, <4>1
      <4>. QED  BY <4>2, <4>3, <4>4 DEF Abs
    <3>3. o \in u
      BY <3>1, <3>2, SlotIs DEF Unnoted
    <3>4. q \subseteq r \cup {top}
      BY <1>1, <1>4 DEF RepeatsIn
    <3>. HIDE DEF u, v, r, q, o, top
    <3>5. Cardinality(v) <= Cardinality(u) - 1
      BY <1>2, <1>5, <3>3, FS_RemoveElement, FS_Subset
    <3>6. /\ IsFiniteSet(r \cup {top}) /\ Cardinality(r \cup {top}) <= Cardinality(r) + 1
          /\ Cardinality(r \cup {top}) \in Nat
      <4>1. /\ IsFiniteSet(r \cup {top})
            /\ Cardinality(r \cup {top}) =
                 IF top \in r THEN Cardinality(r) ELSE Cardinality(r) + 1
        BY <1>2, FS_AddElement
      <4>. QED  BY <1>2, <4>1
    <3>7. Cardinality(q) <= Cardinality(r) + 1
      <4>1. Cardinality(q) <= Cardinality(r \cup {top})
        BY <3>4, <3>6, FS_Subset
      <4>. QED  BY <1>2, <3>6, <4>1
    <3>. QED  BY <1>2, <1>3, <3>5, <3>7
  <2>2. CASE ~RepeatAt(new, top)
    <3>1. q \subseteq r
      BY <1>1, <1>4, <2>2 DEF RepeatsIn
    <3>2. v \subseteq u
      BY <1>5
    <3>. HIDE DEF u, v, r, q
    <3>3. Cardinality(q) <= Cardinality(r) /\ Cardinality(v) <= Cardinality(u)
      BY <1>2, <3>1, <3>2, FS_Subset
    <3>. QED  BY <1>2, <1>3, <3>3
  <2>. QED  BY <2>1, <2>2
<1>7. \A j \in {y} \cup rest : j.op = "note" => j = y
  OBVIOUS
<1>8. StatedIn(new, o) # {} /\ LastStated(new, o) = y.belief.sure
  BY StatedMore
<1>. HIDE DEF new, o, v, q
<1>9. \A j \in {y} \cup rest : j.op = "note" =>
        /\ StatedIn(new, Slot(j.belief)) # {}
        /\ LastStated(new, Slot(j.belief)) = j.belief.sure
  BY <1>7, <1>8 DEF o
<1>10. RepeatsOf({y} \cup rest, noted, new, crashes)
  BY <1>6, <1>9 DEF RepeatsOf, v, q
<1>. QED  BY <1>10 DEF new

\* A worker that ends between the event and the ledger.
LEMMA RepeatsLost ==
  ASSUME NEW seq \in Seq(Beliefs), NEW thoughts, NEW x,
         \A j \in thoughts : j.op = "note" => j = x,
         NEW noted, NEW crashes \in Nat, RepeatsOf(thoughts, noted, seq, crashes)
  PROVE  RepeatsOf({}, noted, seq, crashes + 1)
<1>. DEFINE u == Unnoted(thoughts, noted, seq)
            v == Unnoted({}, noted, seq)
            r == Cardinality(RepeatsIn(seq))
            o == Slot(x.belief)
<1>1. /\ IsFiniteSet(u) /\ Cardinality(u) \in Nat /\ r \in Nat
      /\ Cardinality(v) \in Nat
  BY RepeatsFinite
<1>2. r + Cardinality(u) <= crashes
  BY DEF RepeatsOf
<1>3. v \subseteq u \cup {o}
  BY DEF Unnoted
<1>. HIDE DEF u, v, r, o
<1>4. /\ IsFiniteSet(u \cup {o}) /\ Cardinality(u \cup {o}) <= Cardinality(u) + 1
      /\ Cardinality(u \cup {o}) \in Nat
  <2>1. /\ IsFiniteSet(u \cup {o})
        /\ Cardinality(u \cup {o}) = IF o \in u THEN Cardinality(u) ELSE Cardinality(u) + 1
    BY <1>1, FS_AddElement
  <2>. QED  BY <1>1, <2>1
<1>5. Cardinality(v) <= Cardinality(u \cup {o})
  BY <1>3, <1>4, FS_Subset
<1>6. r + Cardinality(v) <= crashes + 1
  BY <1>1, <1>2, <1>4, <1>5
<1>. QED  BY <1>6 DEF RepeatsOf, v, r

-----------------------------------------------------------------------------
(* Every step keeps what an actor holds grounded.                           *)

ThoughtsOn(a) ==
  /\ GroundsOf(ThoughtsOf(jobs[Home[a]], a), ledger[a], grounds[a])
  /\ RepeatsOf(ThoughtsOf(jobs[Home[a]], a), ledger[a], formed[a], faults)

ThoughtsInv ==
  /\ \A w \in Workers : ThoughtRow(jobs[w], w)
  /\ \A a \in Actors : ThoughtsOn(a)

\* A step that leaves an actor's mind alone leaves its thoughts grounded.
LEMMA ThoughtsFrame ==
  ASSUME NEW a, ThoughtsOn(a),
         ThoughtsOf(jobs'[Home[a]], a) = ThoughtsOf(jobs[Home[a]], a),
         ledger'[a] = ledger[a], formed'[a] = formed[a], grounds'[a] = grounds[a],
         faults' = faults
  PROVE  ThoughtsOn(a)'
BY DEF ThoughtsOn

\* A step that adds no thought and takes none away.
LEMMA ThoughtsAway ==
  ASSUME ThoughtsInv, NEW w \in Workers, \A v \in Workers \ {w} : jobs'[v] = jobs[v],
         ThoughtRow(jobs'[w], w),
         \A a : ThoughtsOf(jobs'[w], a) = ThoughtsOf(jobs[w], a),
         UNCHANGED <<ledger, formed, grounds, faults>>
  PROVE  ThoughtsInv'
<1>1. \A v \in Workers : ThoughtRow(jobs'[v], v)
  BY DEF ThoughtsInv
<1>2. ASSUME NEW a \in Actors PROVE ThoughtsOn(a)'
  <2>1. Home[a] \in Workers
    BY KeyFacts
  <2>2. ThoughtsOf(jobs'[Home[a]], a) = ThoughtsOf(jobs[Home[a]], a)
    BY <2>1
  <2>. QED  BY <2>2, ThoughtsFrame DEF ThoughtsInv
<1>. QED  BY <1>1, <1>2 DEF ThoughtsInv

\* A step of one actor's mind.
LEMMA ThoughtsOne ==
  ASSUME ThoughtsInv, NEW w \in Workers, \A v \in Workers \ {w} : jobs'[v] = jobs[v],
         ThoughtRow(jobs'[w], w), NEW a \in Actors,
         \A b \in Actors \ {a} :
           /\ ThoughtsOf(jobs'[w], b) = ThoughtsOf(jobs[w], b)
           /\ ledger'[b] = ledger[b] /\ formed'[b] = formed[b] /\ grounds'[b] = grounds[b],
         faults' = faults, ThoughtsOn(a)'
  PROVE  ThoughtsInv'
<1>1. \A v \in Workers : ThoughtRow(jobs'[v], v)
  BY DEF ThoughtsInv
<1>2. ASSUME NEW b \in Actors \ {a} PROVE ThoughtsOn(b)'
  <2>1. Home[b] \in Workers
    BY KeyFacts
  <2>2. ThoughtsOf(jobs'[Home[b]], b) = ThoughtsOf(jobs[Home[b]], b)
    BY <2>1
  <2>. QED  BY <2>2, ThoughtsFrame DEF ThoughtsInv
<1>. QED  BY <1>1, <1>2 DEF ThoughtsInv

\* A task that is no thought is done.
LEMMA ThoughtsDone ==
  ASSUME TypeInv, ThoughtsInv, NEW w \in Workers, jobs[w] # <<>>,
         jobs[w][1].op \notin Stating, jobs' = Finished(w),
         UNCHANGED <<ledger, formed, grounds, faults>>
  PROVE  ThoughtsInv'
<1>1. jobs[w] \in Seq(Tasks) /\ ThoughtRow(jobs[w], w)
  BY DEF TypeInv, ThoughtsInv
<1>2. jobs'[w] = Tail(jobs[w]) /\ \A v \in Workers \ {w} : jobs'[v] = jobs[v]
  BY DEF TypeInv, Finished
<1>3. ThoughtRow(Tail(jobs[w]), w)
  BY <1>1, ThoughtRowRest
<1>4. ASSUME NEW a PROVE ThoughtsOf(Tail(jobs[w]), a) = ThoughtsOf(jobs[w], a)
  <2>. DEFINE row == jobs[w]
  <2>1. row \in Seq(Tasks) /\ row # <<>> /\ row[1].op \notin Stating
    BY <1>1
  <2>. HIDE DEF row
  <2>2. ThoughtsOf(row, a) =
          ThoughtsOf(Tail(row), a)
            \cup (IF row[1].op \in Stating /\ row[1].who = a THEN {row[1]} ELSE {})
    BY <2>1, ThoughtsRest
  <2>3. ThoughtsOf(row, a) = ThoughtsOf(Tail(row), a)
    BY <2>1, <2>2
  <2>. QED  BY <2>3 DEF row
<1>. QED  BY <1>2, <1>3, <1>4, ThoughtsAway

\* Other tasks in front of a row without thoughts.
LEMMA ThoughtsMore ==
  ASSUME TypeInv, ThoughtsInv, NEW w \in Workers, jobs[w] # <<>>,
         jobs[w][1].op \notin Stating \cup {"muse"},
         NEW s \in Seq(Tasks),
         \A n \in 1..Len(s) : s[n].op \notin Stating \cup {"reflect"},
         \/ jobs' = [jobs EXCEPT ![w] = s \o @]
         \/ jobs' = [jobs EXCEPT ![w] = s \o Tail(@)],
         UNCHANGED <<ledger, formed, grounds, faults>>
  PROVE  ThoughtsInv'
<1>1. jobs[w] \in Seq(Tasks) /\ ThoughtRow(jobs[w], w)
  BY DEF TypeInv, ThoughtsInv
<1>2. /\ jobs'[w] \in {s \o jobs[w], s \o Tail(jobs[w])}
      /\ \A v \in Workers \ {w} : jobs'[v] = jobs[v]
  BY DEF TypeInv
<1>3. /\ ThoughtRow(s \o jobs[w], w) /\ ThoughtRow(s \o Tail(jobs[w]), w)
      /\ \A a : ThoughtsOf(s \o jobs[w], a) = {} /\ ThoughtsOf(s \o Tail(jobs[w]), a) = {}
      /\ \A a : ThoughtsOf(jobs[w], a) = {}
  BY <1>1, ThoughtsElse, NoThoughts
<1>. QED  BY <1>2, <1>3, ThoughtsAway

\* Taking a tick's events adds no thought.
LEMMA ThoughtsStart ==
  ASSUME TypeInv, ThoughtsInv, NEW w \in Workers, StartTick(w)
  PROVE  ThoughtsInv'
<1>1. /\ jobs[w] = <<>> /\ jobs' = [jobs EXCEPT ![w] = jobs'[w]]
      /\ \A n \in 1..Len(jobs'[w]) : /\ jobs'[w][n].op \in Making \cup {"decay", "reflect", "end"}
                                     /\ jobs'[w][n].op \in {"reflect", "decay"}
                                          => Home[jobs'[w][n].who] = w
  BY StartFacts
<1>2. \A v \in Workers \ {w} : jobs'[v] = jobs[v]
  BY <1>1 DEF TypeInv
<1>3. ThoughtRow(jobs'[w], w)
  BY <1>1 DEF ThoughtRow, Stating, Making
<1>4. \A a : ThoughtsOf(jobs'[w], a) = {}
  BY <1>1 DEF ThoughtsOf, Stating, Making
<1>5. \A a : ThoughtsOf(jobs[w], a) = {}
  BY <1>1 DEF ThoughtsOf
<1>6. UNCHANGED <<ledger, formed, grounds, faults>>
  BY DEF StartTick, beliefs
<1>. QED  BY <1>2, <1>3, <1>4, <1>5, <1>6, ThoughtsAway

\* The work on edges touches no thought.
LEMMA ThoughtsEdges ==
  ASSUME TypeInv, ShapeInv, ThoughtsInv, NEW w \in Workers,
         \/ PutToRest(w) \/ Forget(w) \/ Gone(w) \/ Save(w) \/ Judge(w) \/ Put(w)
         \/ ListEdges(w) \/ FinishTick(w)
  PROVE  ThoughtsInv'
<1>1. UNCHANGED <<ledger, formed, grounds, faults>>
  BY Zenon DEF PutToRest, Forget, Gone, Save, Judge, Put, ListEdges, FinishTick, beliefs
<1>2. CASE Forget(w) \/ Gone(w) \/ Save(w) \/ Put(w) \/ FinishTick(w)
  <2>1. Doing(w, Reading \cup {"forget", "put", "end"}) /\ jobs' = Finished(w)
    BY <1>2 DEF Forget, Gone, Save, InHand, Put, FinishTick, Doing, Reading
  <2>2. jobs[w] # <<>> /\ jobs[w][1].op \notin Stating
    BY <2>1, DoingAt DEF At, Reading, Stating
  <2>. QED  BY <1>1, <2>1, <2>2, ThoughtsDone
<1>3. CASE PutToRest(w)
  <2>. DEFINE x == [op |-> "forget", keys |-> <<<<crowded[w][1], Weakest(crowded[w])>>>>]
  <2>1. /\ At(jobs[w], Making)
        /\ \/ jobs' = jobs
           \/ /\ <<crowded[w][1], Weakest(crowded[w])>> \in Keys
              /\ jobs' = [jobs EXCEPT ![w] = <<x>> \o @]
    BY <1>3, RestFacts
  <2>2. jobs[w] # <<>> /\ jobs[w][1].op \notin Stating \cup {"muse"}
    BY <2>1 DEF At, Making, Stating
  <2>3. CASE jobs' = jobs
    BY <1>1, <2>3, ThoughtsAway DEF ThoughtsInv
  <2>4. CASE jobs' # jobs
    <3>1. x \in Tasks /\ x.op = "forget" /\ jobs' = [jobs EXCEPT ![w] = <<x>> \o @]
      BY <2>1, <2>4, TaskMakes
    <3>. HIDE DEF x
    <3>2. <<x>> \in Seq(Tasks) /\ \A n \in 1..Len(<<x>>) : <<x>>[n].op = "forget"
      BY <3>1
    <3>. QED  BY <1>1, <2>2, <3>1, <3>2, ThoughtsMore DEF Stating
  <2>. QED  BY <2>3, <2>4
<1>4. CASE Judge(w)
  <2>1. \E x \in Tasks : x.op = "put" /\ jobs' = [jobs EXCEPT ![w] = <<x>> \o Tail(@)]
    BY <1>4, JudgeFacts, TaskMakes
  <2>2. PICK x \in Tasks : x.op = "put" /\ jobs' = [jobs EXCEPT ![w] = <<x>> \o Tail(@)]
    BY <2>1
  <2>3. <<x>> \in Seq(Tasks) /\ \A n \in 1..Len(<<x>>) : <<x>>[n].op = "put"
    BY <2>2
  <2>4. Doing(w, {"stage"})
    BY Zenon, <1>4 DEF Judge, InHand, Doing
  <2>5. jobs[w] # <<>> /\ jobs[w][1].op \notin Stating \cup {"muse"}
    BY <2>4, DoingAt DEF At, Stating
  <2>. QED  BY <1>1, <2>2, <2>3, <2>5, ThoughtsMore DEF Stating
<1>5. CASE ListEdges(w)
  <2>. DEFINE others == InOrder(index[Job(w).who])
              s == [n \in DOMAIN others |->
                      [op |-> "cool", keys |-> <<<<Job(w).who, others[n]>>>>,
                       ticks |-> Job(w).ticks]]
  <2>1. jobs' = [jobs EXCEPT ![w] = s \o Tail(@)]
    BY <1>5 DEF ListEdges
  <2>2. s \in Seq(Tasks)
    BY <1>5, CoolJobs
  <2>3. \A n \in 1..Len(s) : s[n].op \notin Stating \cup {"reflect"}
    <3>1. DOMAIN s = DOMAIN others /\ DOMAIN s = 1..Len(s)
      BY <2>2
    <3>. QED  BY <3>1 DEF Stating
  <2>4. jobs[w] # <<>> /\ jobs[w][1].op \notin Stating \cup {"muse"}
    BY <1>5, DoingAt DEF ListEdges, At, Stating
  <2>. HIDE DEF s
  <2>. QED  BY <1>1, <2>1, <2>2, <2>3, <2>4, ThoughtsMore
<1>. QED  BY <1>2, <1>3, <1>4, <1>5

\* The task in front is a thought of one of the worker's own actors.
LEMMA OwnThought ==
  ASSUME TypeInv, ShapeInv, ThoughtsInv, NEW w \in Workers, Doing(w, Stating)
  PROVE  LET x == jobs[w][1]
             a == x.who
         IN /\ jobs[w] \in Seq(Tasks) /\ jobs[w] # <<>> /\ Job(w) = x /\ x \in Tasks
            /\ x.op \in Stating /\ a \in Actors /\ Home[a] = w /\ x.belief \in Beliefs
            /\ ThoughtsOf(jobs[w], a) = {x} \cup ThoughtsOf(Tail(jobs[w]), a)
            /\ \A b : b # a => ThoughtsOf(jobs[w], b) = ThoughtsOf(Tail(jobs[w]), b)
            /\ \A b : \A j \in ThoughtsOf(Tail(jobs[w]), b) : j.op # "note"
            /\ Tail(jobs[w]) \in Seq(Tasks) /\ ThoughtRow(Tail(jobs[w]), w)
            /\ DOMAIN ledger[a] \subseteq Slots /\ ledger[a] \in [DOMAIN ledger[a] -> 0..One]
            /\ formed[a] \in Seq(Beliefs) /\ faults \in Nat
<1>. DEFINE x == jobs[w][1]
            a == x.who
<1>1. /\ jobs[w] \in Seq(Tasks) /\ jobs[w] # <<>> /\ Job(w) = x /\ x \in Tasks
      /\ x.op \in Stating /\ Tail(jobs[w]) \in Seq(Tasks) /\ 1 \in 1..Len(jobs[w])
  BY JobFacts DEF Doing
<1>2. a \in Actors /\ x.belief \in Beliefs
  BY <1>1, ActorTasks DEF Stating
<1>3. ThoughtRow(jobs[w], w) /\ HeadFirst(jobs[w])
  BY DEF ThoughtsInv, ShapeInv, Shape
<1>4. Home[a] = w
  BY <1>1, <1>3 DEF ThoughtRow
<1>5. ThoughtRow(Tail(jobs[w]), w)
  BY <1>1, <1>3, ThoughtRowRest
<1>6. \A b : \A j \in ThoughtsOf(Tail(jobs[w]), b) : j.op # "note"
  BY <1>1, <1>3, NotesAhead
<1>7. ThoughtsOf(jobs[w], a) = {x} \cup ThoughtsOf(Tail(jobs[w]), a)
  BY <1>1, ThoughtsRest
<1>8. ASSUME NEW b, b # a
      PROVE  ThoughtsOf(jobs[w], b) = ThoughtsOf(Tail(jobs[w]), b)
  <2>1. ThoughtsOf(jobs[w], b) =
          ThoughtsOf(Tail(jobs[w]), b) \cup (IF x.op \in Stating /\ x.who = b THEN {x} ELSE {})
    BY <1>1, ThoughtsRest
  <2>. QED  BY <1>8, <2>1
<1>9. /\ DOMAIN ledger[a] \subseteq Slots /\ ledger[a] \in [DOMAIN ledger[a] -> 0..One]
      /\ formed[a] \in Seq(Beliefs) /\ faults \in Nat
  BY <1>2, EdgeAssumption DEF TypeInv, TypeOK
<1>. QED  BY <1>1, <1>2, <1>4, <1>5, <1>6, <1>7, <1>8, <1>9

\* A belief is stated and will be noted, or is not worth it.
LEMMA ThoughtsState ==
  ASSUME TypeInv, ShapeInv, ThoughtsInv, NEW w \in Workers, State(w)
  PROVE  ThoughtsInv'
<1>. DEFINE x == jobs[w][1]
            rest == Tail(jobs[w])
<1>1. Doing(w, Stating) /\ Doing(w, {"believe"})
  BY DEF State, Doing, Stating
<1>2. PICK a \in Actors : a = x.who
  BY <1>1, OwnThought
<1>3. /\ jobs[w] \in Seq(Tasks) /\ jobs[w] # <<>> /\ Job(w) = x /\ x \in Tasks
      /\ x.op = "believe" /\ Home[a] = w /\ x.belief \in Beliefs
      /\ ThoughtsOf(jobs[w], a) = {x} \cup ThoughtsOf(rest, a)
      /\ \A b : b # a => ThoughtsOf(jobs[w], b) = ThoughtsOf(rest, b)
      /\ \A j \in ThoughtsOf(rest, a) : j.op # "note"
      /\ rest \in Seq(Tasks) /\ ThoughtRow(rest, w)
      /\ DOMAIN ledger[a] \subseteq Slots /\ ledger[a] \in [DOMAIN ledger[a] -> 0..One]
      /\ formed[a] \in Seq(Beliefs) /\ faults \in Nat
  BY <1>1, <1>2, OwnThought DEF Doing
<1>4. /\ GroundsOf({x} \cup ThoughtsOf(rest, a), ledger[a], grounds[a])
      /\ RepeatsOf({x} \cup ThoughtsOf(rest, a), ledger[a], formed[a], faults)
  BY <1>3 DEF ThoughtsInv, ThoughtsOn
<1>5. UNCHANGED <<ledger, grounds, faults>>
  BY DEF State
<1>. DEFINE t == ThoughtsOf(rest, a)
<1>6. CASE WorthStating(x.belief, ledger[a])
  <2>. DEFINE y == [Job(w) EXCEPT !.op = "note"]
  <2>1. /\ formed' = [formed EXCEPT ![a] = Append(@, x.belief)]
        /\ jobs' = [jobs EXCEPT ![w] = <<y>> \o Tail(@)]
    BY <1>2, <1>3, <1>6 DEF State
  <2>2. y \in Tasks /\ y.op = "note" /\ y.who = a /\ y.belief = x.belief
    BY <1>2, <1>3, NoteTask
  <2>. HIDE DEF y, x
  <2>3. /\ jobs'[w] = <<y>> \o rest /\ \A v \in Workers \ {w} : jobs'[v] = jobs[v]
        /\ formed'[a] = Append(formed[a], x.belief)
        /\ \A b \in Actors \ {a} : formed'[b] = formed[b]
    BY <2>1 DEF TypeInv, TypeOK
  <2>. HIDE DEF rest
  <2>4. ThoughtsOf(<<y>> \o rest, a) = {y} \cup t
    <3>1. ThoughtsOf(<<y>> \o rest, a) =
            t \cup (IF y.op \in Stating /\ y.who = a THEN {y} ELSE {})
      BY <1>3, <2>2, ThoughtsFront
    <3>. QED  BY <2>2, <3>1 DEF Stating
  <2>5. ASSUME NEW b, b # a PROVE ThoughtsOf(<<y>> \o rest, b) = ThoughtsOf(rest, b)
    <3>1. ThoughtsOf(<<y>> \o rest, b) =
            ThoughtsOf(rest, b) \cup (IF y.op \in Stating /\ y.who = b THEN {y} ELSE {})
      BY <1>3, <2>2, ThoughtsFront
    <3>. QED  BY <2>2, <2>5, <3>1
  <2>6. ThoughtRow(<<y>> \o rest, w)
    <3>1. <<y>> \in Seq(Tasks) /\ Len(<<y>>) = 1 /\ <<y>>[1] = y
      BY <2>2
    <3>2. \A n \in 1..Len(<<y>>) : <<y>>[n].op \in Stating /\ Home[<<y>>[n].who] = w
      BY <1>3, <2>2, <3>1 DEF Stating
    <3>. QED  BY <1>3, <3>1, <3>2, ThoughtRowJoin
  <2>. HIDE DEF t
  <2>7. GroundsOf({y} \cup t, ledger[a], grounds[a])
    BY <1>4, <2>2, GroundsState DEF t
  <2>8. RepeatsOf({y} \cup t, ledger[a], Append(formed[a], x.belief), faults)
    <3>1. \A j \in t : j.op # "note"
      BY <1>3 DEF t
    <3>2. RepeatsOf({x} \cup t, ledger[a], formed[a], faults)
      BY <1>4 DEF t
    <3>. QED  BY <1>3, <1>6, <2>2, <3>1, <3>2, RepeatsState
  <2>9. ThoughtsOn(a)'
    BY <1>3, <1>5, <2>3, <2>4, <2>7, <2>8 DEF ThoughtsOn
  <2>10. \A b \in Actors \ {a} :
           /\ ThoughtsOf(jobs'[w], b) = ThoughtsOf(jobs[w], b)
           /\ ledger'[b] = ledger[b] /\ formed'[b] = formed[b] /\ grounds'[b] = grounds[b]
    BY <1>3, <1>5, <2>3, <2>5
  <2>11. ThoughtRow(jobs'[w], w)
    BY <2>3, <2>6
  <2>. QED  BY <1>5, <2>3, <2>9, <2>10, <2>11, ThoughtsOne
<1>7. CASE ~WorthStating(x.belief, ledger[a])
  <2>1. formed' = formed /\ jobs' = [jobs EXCEPT ![w] = rest]
    BY <1>2, <1>3, <1>7 DEF State, Finished
  <2>2. jobs'[w] = rest /\ \A v \in Workers \ {w} : jobs'[v] = jobs[v]
    BY <2>1 DEF TypeInv
  <2>. HIDE DEF x, rest, t
  <2>3. GroundsOf(t, ledger[a], grounds[a])
    BY <1>3, <1>4, <1>7, GroundsSkip DEF t
  <2>4. RepeatsOf(t, ledger[a], formed[a], faults)
    <3>1. RepeatsOf({x} \cup t, ledger[a], formed[a], faults)
      BY <1>4 DEF t
    <3>2. Unnoted(t, ledger[a], formed[a]) \subseteq Unnoted({x} \cup t, ledger[a], formed[a])
      BY <1>3 DEF Unnoted
    <3>. QED  BY <1>3, <3>1, <3>2, RepeatsKept
  <2>5. ThoughtsOn(a)'
    BY <1>3, <1>5, <2>1, <2>2, <2>3, <2>4 DEF ThoughtsOn, t
  <2>6. \A b \in Actors \ {a} :
          /\ ThoughtsOf(jobs'[w], b) = ThoughtsOf(jobs[w], b)
          /\ ledger'[b] = ledger[b] /\ formed'[b] = formed[b] /\ grounds'[b] = grounds[b]
    BY <1>3, <1>5, <2>1, <2>2
  <2>7. ThoughtRow(jobs'[w], w)
    BY <1>3, <2>2
  <2>. QED  BY <1>5, <2>2, <2>5, <2>6, <2>7, ThoughtsOne
<1>. QED  BY <1>6, <1>7

\* The ledger has what was stated.
LEMMA ThoughtsNote ==
  ASSUME TypeInv, ShapeInv, ThoughtsInv, NEW w \in Workers, Note(w)
  PROVE  ThoughtsInv'
<1>. DEFINE x == jobs[w][1]
            rest == Tail(jobs[w])
<1>1. Doing(w, Stating) /\ Doing(w, {"note"})
  BY DEF Note, Doing, Stating
<1>2. PICK a \in Actors : a = x.who
  BY <1>1, OwnThought
<1>3. /\ jobs[w] \in Seq(Tasks) /\ jobs[w] # <<>> /\ Job(w) = x /\ x \in Tasks
      /\ x.op = "note" /\ Home[a] = w /\ x.belief \in Beliefs
      /\ ThoughtsOf(jobs[w], a) = {x} \cup ThoughtsOf(rest, a)
      /\ \A b : b # a => ThoughtsOf(jobs[w], b) = ThoughtsOf(rest, b)
      /\ \A j \in ThoughtsOf(rest, a) : j.op # "note"
      /\ rest \in Seq(Tasks) /\ ThoughtRow(rest, w)
      /\ formed[a] \in Seq(Beliefs) /\ faults \in Nat
  BY <1>1, <1>2, OwnThought DEF Doing
<1>. DEFINE t == ThoughtsOf(rest, a)
<1>4. /\ GroundsOf({x} \cup t, ledger[a], grounds[a])
      /\ RepeatsOf({x} \cup t, ledger[a], formed[a], faults)
  BY <1>3 DEF ThoughtsInv, ThoughtsOn
<1>5. /\ UNCHANGED <<formed, grounds, faults>>
      /\ ledger' = [ledger EXCEPT ![a] = Noted(ledger[a], x.belief)]
  BY <1>2, <1>3 DEF Note
<1>6. PICK s \in Seq(Tasks) :
        /\ jobs' = [jobs EXCEPT ![w] = s \o Tail(@)]
        /\ \A n \in 1..Len(s) : s[n].op = "muse"
  <2>. DEFINE m == [op |-> "muse", keys |-> <<<<Job(w).who, Job(w).belief.about>>>>,
                    sure |-> Job(w).belief.sure]
  <2>1. CASE x.belief.kind = "person_insight"
    <3>1. m \in Tasks /\ m.op = "muse" /\ jobs' = [jobs EXCEPT ![w] = <<m>> \o Tail(@)]
      BY <1>3, <2>1, MuseTask DEF Note
    <3>. HIDE DEF m
    <3>2. <<m>> \in Seq(Tasks) /\ \A n \in 1..Len(<<m>>) : <<m>>[n].op = "muse"
      BY <3>1
    <3>. QED  BY <3>1, <3>2
  <2>2. CASE x.belief.kind # "person_insight"
    <3>1. jobs' = [jobs EXCEPT ![w] = <<>> \o Tail(@)]
      BY <1>3, <2>2 DEF Note
    <3>2. <<>> \in Seq(Tasks) /\ \A n \in 1..Len(<<>>) : <<>>[n].op = "muse"
      OBVIOUS
    <3>. QED  BY <3>1, <3>2
  <2>. QED  BY <2>1, <2>2
<1>7. /\ jobs'[w] = s \o rest /\ \A v \in Workers \ {w} : jobs'[v] = jobs[v]
      /\ ledger'[a] = Noted(ledger[a], x.belief)
      /\ \A b \in Actors \ {a} : ledger'[b] = ledger[b]
  BY <1>5, <1>6 DEF TypeInv, TypeOK
<1>. HIDE DEF x, rest
<1>8. ThoughtRow(s \o rest, w)
  BY <1>3, <1>6, ThoughtRowJoin DEF Stating
<1>9. \A b : ThoughtsOf(s \o rest, b) = ThoughtsOf(rest, b)
  <2>1. ASSUME NEW b PROVE ThoughtsOf(s \o rest, b) = ThoughtsOf(rest, b)
    <3>1. ThoughtsOf(s, b) = {}
      BY <1>6 DEF ThoughtsOf, Stating
    <3>2. ThoughtsOf(s \o rest, b) = ThoughtsOf(s, b) \cup ThoughtsOf(rest, b)
      BY <1>3, <1>6, ThoughtsJoin
    <3>. QED  BY <3>1, <3>2
  <2>. QED  BY <2>1
<1>10. \A j \in t : j.op # "note"
  BY <1>3
<1>. HIDE DEF t
<1>11. GroundsOf(t, Noted(ledger[a], x.belief), grounds[a])
  BY <1>3, <1>4, GroundsNote
<1>12. RepeatsOf(t, Noted(ledger[a], x.belief), formed[a], faults)
  BY <1>3, <1>4, <1>10, RepeatsNote
<1>13. ThoughtsOn(a)'
  BY <1>3, <1>5, <1>7, <1>9, <1>11, <1>12 DEF ThoughtsOn, t
<1>14. \A b \in Actors \ {a} :
         /\ ThoughtsOf(jobs'[w], b) = ThoughtsOf(jobs[w], b)
         /\ ledger'[b] = ledger[b] /\ formed'[b] = formed[b] /\ grounds'[b] = grounds[b]
  BY <1>3, <1>5, <1>7, <1>9
<1>15. ThoughtRow(jobs'[w], w)
  BY <1>7, <1>8
<1>. QED  BY <1>5, <1>7, <1>13, <1>14, <1>15, ThoughtsOne

\* A reflection concludes anew.
LEMMA ThoughtsReflect ==
  ASSUME TypeInv, ShapeInv, ThoughtsInv, NEW w \in Workers, Reflect(w)
  PROVE  ThoughtsInv'
<1>. DEFINE rest == Tail(jobs[w])
<1>1. PICK derived \in SUBSET Beliefs, s \in Seq(Tasks) : Concludes(w, derived, s)
  BY ReflectRow
<1>2. jobs[w] # <<>> /\ Job(w).op = "reflect" /\ Job(w).who \in Actors
  BY <1>1 DEF Concludes
<1>3. PICK a \in Actors : a = Job(w).who
  BY <1>2
<1>4. /\ \A b \in derived : b.kind \in RuleKinds /\ b.sure >= Faded + Restate
      /\ jobs' = [jobs EXCEPT ![w] = s \o rest]
      /\ grounds' = [grounds EXCEPT ![a] = {Slot(b) : b \in derived}]
      /\ \A n \in 1..Len(s) :
           /\ s[n].op = "believe" /\ s[n].who = a
           /\ s[n].belief.kind \in RuleKinds =>
                s[n].belief \in derived \cup Retracted(ledger[a], derived)
      /\ \A b \in derived \cup Retracted(ledger[a], derived) :
           \E n \in 1..Len(s) : s[n].belief = b
  BY <1>1, <1>3 DEF Concludes
<1>5. /\ jobs[w] \in Seq(Tasks) /\ Job(w) = jobs[w][1] /\ rest \in Seq(Tasks)
      /\ 1 \in 1..Len(jobs[w]) /\ ThoughtRow(jobs[w], w)
  BY <1>2, JobFacts DEF ThoughtsInv
<1>6. Home[a] = w
  BY <1>2, <1>3, <1>5 DEF ThoughtRow
<1>7. /\ \A b : ThoughtsOf(jobs[w], b) = {} /\ ThoughtsOf(rest, b) = {}
      /\ ThoughtRow(rest, w)
  BY <1>2, <1>5, NoThoughts, ThoughtRowRest DEF Stating
<1>8. /\ UNCHANGED <<ledger, formed, faults>>
      /\ jobs'[w] = s \o rest /\ \A v \in Workers \ {w} : jobs'[v] = jobs[v]
      /\ grounds'[a] = {Slot(b) : b \in derived}
      /\ \A b \in Actors \ {a} : grounds'[b] = grounds[b]
  <2>1. UNCHANGED <<ledger, formed, faults>>
    BY DEF Reflect
  <2>2. jobs \in [Workers -> Seq(Tasks)] /\ DOMAIN grounds = Actors
    BY DEF TypeInv, TypeOK
  <2>. QED  BY <1>4, <2>1, <2>2
<1>. HIDE DEF rest
<1>9. \A b : ThoughtsOf(s \o rest, b) = ThoughtsOf(s, b)
  <2>1. ASSUME NEW b PROVE ThoughtsOf(s \o rest, b) = ThoughtsOf(s, b)
    <3>1. ThoughtsOf(s \o rest, b) = ThoughtsOf(s, b) \cup ThoughtsOf(rest, b)
      BY <1>5, ThoughtsJoin
    <3>. QED  BY <1>7, <3>1
  <2>. QED  BY <2>1
<1>10. \A b \in Actors \ {a} : ThoughtsOf(s, b) = {}
  BY <1>4 DEF ThoughtsOf
<1>11. ThoughtRow(s \o rest, w)
  BY <1>4, <1>5, <1>6, <1>7, ThoughtRowJoin DEF Stating
<1>. DEFINE t == ThoughtsOf(s, a)
<1>12. /\ \A j \in t : j.op = "believe"
       /\ \A j \in t : j.belief.kind \in RuleKinds =>
            j.belief \in derived \cup Retracted(ledger[a], derived)
       /\ \A b \in derived \cup Retracted(ledger[a], derived) : \E j \in t : j.belief = b
  <2>1. \A n \in 1..Len(s) : s[n] \in t
    BY <1>4 DEF ThoughtsOf, Stating
  <2>2. \A j \in t : \E n \in 1..Len(s) : j = s[n]
    BY DEF ThoughtsOf
  <2>. HIDE DEF t
  <2>. QED  BY <1>4, <2>1, <2>2
<1>. HIDE DEF t
<1>13. /\ GroundsOf({}, ledger[a], grounds[a]) /\ RepeatsOf({}, ledger[a], formed[a], faults)
       /\ DOMAIN ledger[a] \subseteq Slots /\ formed[a] \in Seq(Beliefs) /\ faults \in Nat
  <2>1. a \in Actors /\ ThoughtsOf(jobs[Home[a]], a) = {}
    BY <1>6, <1>7
  <2>2. ThoughtsOn(a)
    BY DEF ThoughtsInv
  <2>3. GroundsOf({}, ledger[a], grounds[a]) /\ RepeatsOf({}, ledger[a], formed[a], faults)
    BY <2>1, <2>2 DEF ThoughtsOn
  <2>4. DOMAIN ledger[a] \subseteq Slots /\ formed[a] \in Seq(Beliefs) /\ faults \in Nat
    BY <2>1, EdgeAssumption DEF TypeInv, TypeOK
  <2>. QED  BY <2>3, <2>4
<1>14. GroundsOf(t, ledger[a], {Slot(b) : b \in derived})
  <2>1. \A o \in DOMAIN ledger[a] : o[1] \in RuleKinds => Firm(ledger[a][o])
    BY <1>13 DEF GroundsOf
  <2>. QED  BY <1>4, <1>12, <1>13, <2>1, GroundsConclude
<1>15. RepeatsOf(t, ledger[a], formed[a], faults)
  <2>1. Unnoted(t, ledger[a], formed[a]) \subseteq Unnoted({}, ledger[a], formed[a])
    BY DEF Unnoted
  <2>2. \A j \in t : j.op = "note" => j \in {}
    BY <1>12
  <2>. QED  BY <1>13, <2>1, <2>2, RepeatsKept
<1>16. ThoughtsOn(a)'
  BY <1>6, <1>8, <1>9, <1>14, <1>15 DEF ThoughtsOn, t
<1>17. \A b \in Actors \ {a} :
         /\ ThoughtsOf(jobs'[w], b) = ThoughtsOf(jobs[w], b)
         /\ ledger'[b] = ledger[b] /\ formed'[b] = formed[b] /\ grounds'[b] = grounds[b]
  BY <1>7, <1>8, <1>9, <1>10
<1>18. ThoughtRow(jobs'[w], w)
  BY <1>8, <1>11
<1>. QED  BY <1>8, <1>16, <1>17, <1>18, ThoughtsOne

\* What a worker had in mind is gone with it.
LEMMA ThoughtsCrash ==
  ASSUME TypeInv, ShapeInv, ThoughtsInv, NEW w \in Workers, Crash(w)
  PROVE  ThoughtsInv'
<1>1. /\ jobs' = [jobs EXCEPT ![w] = <<>>] /\ faults' = faults + 1
      /\ grounds' = [a \in Actors |-> IF Home[a] = w THEN None ELSE grounds[a]]
      /\ UNCHANGED <<ledger, formed>> /\ faults \in Nat
  BY EdgeAssumption DEF Crash, Lost, TypeInv, TypeOK
<1>2. jobs'[w] = <<>> /\ \A v \in Workers \ {w} : jobs'[v] = jobs[v]
  BY <1>1 DEF TypeInv
<1>3. \A v \in Workers : ThoughtRow(jobs'[v], v)
  BY <1>2 DEF ThoughtsInv, ThoughtRow
<1>4. ASSUME NEW a \in Actors PROVE ThoughtsOn(a)'
  <2>. DEFINE h == Home[a]
              t == ThoughtsOf(jobs[h], a)
  <2>1. /\ h \in Workers /\ formed[a] \in Seq(Beliefs)
        /\ GroundsOf(t, ledger[a], grounds[a])
        /\ RepeatsOf(t, ledger[a], formed[a], faults)
    BY KeyFacts DEF TypeInv, TypeOK, ThoughtsInv, ThoughtsOn
  <2>2. CASE h = w
    <3>1. ThoughtsOf(jobs'[h], a) = {} /\ grounds'[a] = None
      BY <1>1, <1>2, <2>2 DEF ThoughtsOf
    <3>2. \A j \in t : j.op = "note" => j = jobs[h][1]
      <4>1. jobs[h] \in Seq(Tasks) /\ HeadFirst(jobs[h])
        BY <2>1 DEF TypeInv, ShapeInv, Shape
      <4>2. CASE jobs[h] = <<>>
        BY <4>2 DEF ThoughtsOf
      <4>3. CASE jobs[h] # <<>>
        BY <4>1, <4>3, NotesAhead
      <4>. QED  BY <4>2, <4>3
    <3>. HIDE DEF t
    <3>3. RepeatsOf({}, ledger[a], formed[a], faults + 1)
      BY <1>1, <2>1, <3>2, RepeatsLost
    <3>4. GroundsOf({}, ledger[a], None)
      BY <2>1, GroundsLost
    <3>. QED  BY <1>1, <3>1, <3>3, <3>4 DEF ThoughtsOn
  <2>3. CASE h # w
    <3>1. ThoughtsOf(jobs'[h], a) = t /\ grounds'[a] = grounds[a]
      BY <1>1, <1>2, <2>1, <2>3
    <3>. HIDE DEF t
    <3>2. RepeatsOf(t, ledger[a], formed[a], faults + 1)
      <4>1. /\ Cardinality(RepeatsIn(formed[a])) \in Nat
            /\ Cardinality(Unnoted(t, ledger[a], formed[a])) \in Nat
        BY <2>1, RepeatsFinite
      <4>. QED  BY <1>1, <2>1, <4>1 DEF RepeatsOf
    <3>. QED  BY <1>1, <2>1, <3>1, <3>2 DEF ThoughtsOn
  <2>. QED  BY <2>2, <2>3
<1>. QED  BY <1>3, <1>4 DEF ThoughtsInv

\* Neither does what happens outside a worker's tasks.
LEMMA ThoughtsElsewhere ==
  ASSUME ThoughtsInv,
         \/ NextTick \/ UNCHANGED vars
         \/ \E w \in Workers : Load(w) \/ Meet(w) \/ AppendNews(w)
  PROVE  ThoughtsInv'
<1>1. UNCHANGED <<jobs, ledger, formed, grounds, faults>>
  BY DEF NextTick, Load, Meet, AppendNews, vars, beliefs, mind
<1>. QED  BY <1>1 DEF ThoughtsInv, ThoughtsOn

\* Every step keeps thoughts grounded.
LEMMA ThoughtsNext ==
  ASSUME TypeInv, ShapeInv, ThoughtsInv, [Next]_vars
  PROVE  ThoughtsInv'
BY ThoughtsElsewhere, ThoughtsStart, ThoughtsEdges, ThoughtsState, ThoughtsNote,
   ThoughtsReflect, ThoughtsCrash DEF Next, Keep

\* At the start nothing is believed.
LEMMA ThoughtsInit == Init => ThoughtsInv
<1>. SUFFICES ASSUME Init PROVE ThoughtsInv
  OBVIOUS
<1>1. /\ \A w \in Workers : jobs[w] = <<>>
      /\ \A a \in Actors : ledger[a] = [s \in {} |-> 0] /\ formed[a] = <<>> /\ grounds[a] = None
      /\ faults = 0
  BY DEF Init
<1>2. \A w \in Workers : ThoughtRow(jobs[w], w)
  BY <1>1 DEF ThoughtRow
<1>3. ASSUME NEW a \in Actors PROVE ThoughtsOn(a)
  <2>1. ThoughtsOf(jobs[Home[a]], a) = {}
    BY <1>1, KeyFacts DEF ThoughtsOf
  <2>2. GroundsOf({}, ledger[a], None)
    BY <1>1 DEF GroundsOf
  <2>3. RepeatsIn(<<>>) = {} /\ Unnoted({}, ledger[a], <<>>) = {}
    BY DEF RepeatsIn, Unnoted, StatedIn
  <2>4. RepeatsOf({}, ledger[a], <<>>, 0)
    <3>1. Cardinality({}) = 0
      BY FS_EmptySet
    <3>2. Cardinality(RepeatsIn(<<>>)) = 0 /\ Cardinality(Unnoted({}, ledger[a], <<>>)) = 0
      BY <2>3, <3>1
    <3>3. Cardinality(RepeatsIn(<<>>)) + Cardinality(Unnoted({}, ledger[a], <<>>)) <= 0
      BY <3>2
    <3>4. \A j \in {} : FALSE
      OBVIOUS
    <3>. QED  BY <3>3, <3>4 DEF RepeatsOf
  <2>. QED  BY <1>1, <2>1, <2>2, <2>4 DEF ThoughtsOn
<1>. QED  BY <1>2, <1>3 DEF ThoughtsInv

\* What the model says of beliefs.
LEMMA ThoughtsGrounded ==
  ASSUME TypeInv, ThoughtsInv
  PROVE  BeliefsHaveGrounds
<1>. SUFFICES ASSUME NEW a \in Actors
     PROVE  /\ grounds[a] # None /\ ~Thinking(a) =>
                 {s \in DOMAIN ledger[a] : s[1] \in RuleKinds /\ ledger[a][s] > Faded}
                   = grounds[a]
            /\ Cardinality({n \in DOMAIN formed[a] : Repeats(a, n)}) <= faults
  BY DEF BeliefsHaveGrounds
<1>1. /\ DOMAIN ledger[a] \subseteq Slots /\ formed[a] \in Seq(Beliefs) /\ faults \in Nat
      /\ grounds[a] \in {None} \cup SUBSET Slots
      /\ Home[a] \in Workers /\ jobs[Home[a]] \in Seq(Tasks)
  BY KeyFacts, EdgeAssumption DEF TypeInv, TypeOK
<1>2. ThoughtsOn(a)
  BY DEF ThoughtsInv
<1>3. ASSUME grounds[a] # None, ~Thinking(a)
      PROVE  {s \in DOMAIN ledger[a] : s[1] \in RuleKinds /\ ledger[a][s] > Faded} = grounds[a]
  <2>1. ThoughtsOf(jobs[Home[a]], a) = {}
    <3>1. DOMAIN jobs[Home[a]] = 1..Len(jobs[Home[a]])
      BY <1>1, LenProperties
    <3>. QED  BY <1>1, <1>3, <3>1 DEF ThoughtsOf, Thinking, Stating
  <2>2. GroundsOf({}, ledger[a], grounds[a])
    BY <1>2, <2>1 DEF ThoughtsOn
  <2>. QED  BY <1>1, <1>3, <2>2, GroundsSettled
<1>4. {n \in DOMAIN formed[a] : Repeats(a, n)} = RepeatsIn(formed[a])
  <2>1. DOMAIN formed[a] = 1..Len(formed[a])
    BY <1>1, LenProperties
  <2>2. \A n : Repeats(a, n) <=> RepeatAt(formed[a], n)
    BY DEF Repeats, RepeatAt
  <2>. QED  BY <2>1, <2>2 DEF RepeatsIn
<1>5. Cardinality(RepeatsIn(formed[a])) <= faults
  <2>. DEFINE t == ThoughtsOf(jobs[Home[a]], a)
  <2>1. RepeatsOf(t, ledger[a], formed[a], faults)
    BY <1>2 DEF ThoughtsOn
  <2>. HIDE DEF t
  <2>2. /\ Cardinality(RepeatsIn(formed[a])) \in Nat
        /\ Cardinality(Unnoted(t, ledger[a], formed[a])) \in Nat
    BY <1>1, RepeatsFinite
  <2>. QED  BY <1>1, <2>1, <2>2 DEF RepeatsOf
<1>. QED  BY <1>3, <1>4, <1>5

-----------------------------------------------------------------------------
(* What holds in every state.                                               *)

\* The inductive invariant: what a worker has in mind has a shape, nobody shares
\* an edge unnoticed, and what Redis, the hands and the rows have of edges and of
\* beliefs agrees with what was told.
KeepInv ==
  /\ TypeInv /\ ShapeInv /\ Excl /\ SaysInv /\ MutualInv /\ SizeInv /\ ListsInv
  /\ ThoughtsInv

\* The conjunction holds at the start.
LEMMA KeepInit == Init => KeepInv
<1>. SUFFICES ASSUME Init PROVE KeepInv
  OBVIOUS
<1>1. TypeInv /\ ShapeInv /\ ThoughtsInv
  BY TypeInit, ShapeInit, ThoughtsInit
<1>2. /\ \A k \in Keys : edge[k] = None /\ story[k] = <<>>
      /\ \A w \in Workers : jobs[w] = <<>> /\ crowded[w] = None
      /\ \A w \in Workers, k \in Keys : hand[w][k] = None /\ told[w][k] = <<>>
      /\ \A a \in Actors : index[a] = {}
      /\ faults = 0 /\ dormant = {}
  BY Nothing DEF Init
<1>3. Excl
  BY <1>2 DEF Excl, Holds
<1>4. SaysInv
  BY <1>2 DEF SaysInv, SaysOn, PutOn, At
<1>5. MutualInv
  <2>1. \A k \in Keys : k[2] \in Actors => Rev(k) \in Keys
    BY KeyFacts
  <2>. QED  BY <1>2, <2>1 DEF MutualInv, MutualOn, Romantic, PutOn, At
<1>6. SizeInv
  <2>1. ASSUME NEW a \in Actors
        PROVE  Cardinality(index[a]) <= MaxEdges + faults + Cardinality(CrowdedBy(crowded, a))
    <3>1. Cardinality(index[a]) = 0 /\ Cardinality(CrowdedBy(crowded, a)) \in Nat
      BY <1>2, FS_EmptySet, CrowdSize
    <3>2. MaxEdges \in Nat
      BY EdgeAssumption
    <3>. QED  BY <1>2, <3>1, <3>2
  <2>. QED  BY <2>1 DEF SizeInv
<1>7. ListsInv
  BY <1>2 DEF ListsInv, ListsOn
<1>. QED  BY <1>1, <1>3, <1>4, <1>5, <1>6, <1>7 DEF KeepInv

\* Every step keeps it: each conjunct by its own lemma.
LEMMA KeepNext == KeepInv /\ [Next]_vars => KeepInv'
<1>. SUFFICES ASSUME KeepInv, [Next]_vars PROVE KeepInv'
  OBVIOUS
<1>1. /\ TypeInv /\ ShapeInv /\ Excl /\ SaysInv /\ MutualInv /\ SizeInv /\ ListsInv
      /\ ThoughtsInv
  BY DEF KeepInv
<1>2. TypeInv' /\ ShapeInv'
  BY <1>1, TypeNext, ShapeNext
<1>3. Excl' /\ SizeInv' /\ ListsInv' /\ ThoughtsInv'
  BY <1>1, ExclNext, SizeNext, ListsNext, ThoughtsNext
<1>4. SaysInv' /\ MutualInv'
  BY <1>1, <1>2, SaysNext, MutualNext
<1>. QED  BY <1>2, <1>3, <1>4 DEF KeepInv

\* So it always holds.
LEMMA KeepAlways == Spec => []KeepInv
BY KeepInit, KeepNext, PTL DEF Spec

\* An edge in Redis is in its actor's list and the list has room for MaxEdges, but
\* for what crashes left; what an actor holds by rule is what it last had grounds
\* for, and nothing is stated twice but after a crash: for any shards, actors,
\* deeds and thresholds.
THEOREM EdgesAndBeliefsKept == Spec => []EdgeInv
<1>1. KeepInv => EdgeInv
  BY ListsKept, ThoughtsGrounded DEF KeepInv, EdgeInv, TypeInv
<1>. QED  BY <1>1, KeepAlways, PTL

\* Rule 5 (relationship.py:6): while no worker crashed and no two had the same edge
\* in hand, what separates an edge from what was last told of it is pending, and is
\* not worth telling but for the rounding.
THEOREM GapAlwaysPending == Spec => []GapIsPending
<1>1. KeepInv => GapIsPending
  BY SaysGap DEF KeepInv
<1>. QED  BY <1>1, KeepAlways, PTL

\* ... and what one side has confessed the other has heard (engine.py:271-274).
THEOREM RomanceAlwaysMutual == Spec => []RomanceIsMutual
<1>1. KeepInv => RomanceIsMutual
  BY MutualRomance DEF KeepInv
<1>. QED  BY <1>1, KeepAlways, PTL
================================================================================
