------------------------------ MODULE TownProofs ------------------------------
(* The services around the actors keep their promises for any people, any    *)
(* scene, any number of instances and faults: what the runtime may cost is   *)
(* bounded by what the editor was shown, what is staged keeps to its budget, *)
(* what is published is published once and in order, and whoever reads or    *)
(* writes through the gateway loses nothing of it.                           *)
EXTENDS Town, FiniteSetTheorems, FunctionTheorems, SequenceTheorems, TLAPS

-----------------------------------------------------------------------------
(* Sums.  Induction goes through sets of numbers: a set that holds 0 and the *)
(* successor of each of its members holds every number.                      *)

\* By the least number outside it.
LEMMA NatSetInduction ==
  ASSUME NEW I, 0 \in I, \A n \in Nat : n \in I => n + 1 \in I
  PROVE  Nat \subseteq I
<1> SUFFICES ASSUME Nat \ I # {} PROVE FALSE
  OBVIOUS
<1> DEFINE R == OpToRel(<, Nat)
<1>1. PICK n \in Nat \ I : \A m \in Nat \ I : ~ (<<m, n>> \in R)
  BY NatLessThanWellFounded, WFMin
<1>2. \A m \in Nat \ I : ~ (m < n)
  BY <1>1 DEF OpToRel
<1>3. n # 0 /\ n - 1 \in Nat /\ n - 1 \in I
  BY <1>2
<1>4. QED
  BY <1>3

\* sum[k] adds up the first k amounts.
Adds(sum, amount, n) ==
  sum[0] = 0 /\ \A k \in 1..n : sum[k] = sum[k - 1] + amount[k]

\* The partial sums Total takes its value from exist.
LEMMA TotalSums ==
  ASSUME NEW n \in Nat, NEW amount \in [1..n -> Nat]
  PROVE  \E sum \in [0..n -> Nat] : Adds(sum, amount, n) /\ Total(amount, n) = sum[n]
<1> DEFINE Step(v, k) == IF k = 0 THEN 0 ELSE v[k - 1] + amount[k]
           Sum(v, m) == v = [k \in 0..m |-> Step(v, k)]
           Some(m) == \E v \in [0..m -> Nat] : Sum(v, m)
           I == {m \in Nat : m <= n => Some(m)}
<1>1. Some(0)
  <2>1. Sum([k \in 0..0 |-> 0], 0) /\ [k \in 0..0 |-> 0] \in [0..0 -> Nat]
    OBVIOUS
  <2>2. QED
    BY <2>1
<1>2. ASSUME NEW m \in Nat, m + 1 <= n, Some(m) PROVE Some(m + 1)
  <2>1. PICK v \in [0..m -> Nat] : Sum(v, m)
    BY <1>2
  <2> DEFINE u == [k \in 0..(m + 1) |-> IF k <= m THEN v[k] ELSE Step(v, k)]
  <2>2. Step(v, m + 1) \in Nat
    BY <1>2
  <2>3. u \in [0..(m + 1) -> Nat]
    <3> HIDE DEF Step
    <3>1. \A k \in 0..(m + 1) : k <= m \/ k = m + 1
      OBVIOUS
    <3>2. \A k \in 0..(m + 1) : (IF k <= m THEN v[k] ELSE Step(v, k)) \in Nat
      BY <2>2, <3>1
    <3> QED
      BY <3>2
  <2>4. \A k \in 0..(m + 1) : Step(u, k) = Step(v, k)
    <3> SUFFICES ASSUME NEW k \in 0..(m + 1), k # 0 PROVE u[k - 1] = v[k - 1]
      OBVIOUS
    <3>1. k - 1 \in 0..(m + 1) /\ k - 1 <= m
      OBVIOUS
    <3>2. QED
      BY <3>1
  <2>5. \A k \in 0..m : v[k] = Step(v, k)
    BY <2>1
  <2>6. \A k \in 0..(m + 1) : u[k] = Step(u, k)
    <3> HIDE DEF Step
    <3>1. \A k \in 0..(m + 1) : u[k] = IF k <= m THEN v[k] ELSE Step(v, k)
      OBVIOUS
    <3>2. \A k \in 0..(m + 1) : k <= m => k \in 0..m
      OBVIOUS
    <3> HIDE DEF u
    <3> QED
      BY <2>4, <2>5, <3>1, <3>2
  <2>7. Sum(u, m + 1)
    <3> HIDE DEF Step
    <3> QED
      BY <2>6
  <2>8. QED
    <3> HIDE DEF Sum, u
    <3> QED
      BY <2>3, <2>7
<1>3. Some(n)
  <2> HIDE DEF Some
  <2>1. 0 \in I /\ \A m \in Nat : m \in I => m + 1 \in I
    BY <1>1, <1>2
  <2>2. Nat \subseteq I
    <3> HIDE DEF I
    <3> QED
      BY <2>1, NatSetInduction
  <2>3. QED
    BY <2>2
<1>4. \E v : Sum(v, n) /\ Total(amount, n) = v[n]
  <2> DEFINE v == CHOOSE v : Sum(v, n)
  <2>1. Total(amount, n) = v[n]
    BY DEF Total
  <2> HIDE DEF Sum
  <2>2. Sum(v, n)
    BY <1>3
  <2> HIDE DEF v
  <2>3. QED
    BY <2>1, <2>2
<1>5. PICK sum : Sum(sum, n) /\ Total(amount, n) = sum[n]
  BY <1>4
<1> HIDE DEF I, Some
<1>6. /\ DOMAIN sum = 0..n
      /\ sum = [k \in 0..n |-> sum[k]]
      /\ \A k \in 0..n : sum[k] = Step(sum, k)
  <2> HIDE DEF Step
  <2> QED
    BY <1>5
<1> HIDE DEF Sum
<1>7. Adds(sum, amount, n)
  <2>1. sum[0] = 0 /\ \A k \in 1..n : k \in 0..n /\ k # 0
    <3>1. 0 \in 0..n /\ sum[0] = Step(sum, 0)
      <4> HIDE DEF Step
      <4> QED
        BY <1>6
    <3>2. QED
      BY <3>1
  <2>2. \A k \in 1..n : sum[k] = sum[k - 1] + amount[k]
    <3> SUFFICES ASSUME NEW k \in 1..n PROVE sum[k] = sum[k - 1] + amount[k]
      OBVIOUS
    <3>1. sum[k] = Step(sum, k)
      <4> HIDE DEF Step
      <4> QED
        BY <1>6, <2>1
    <3>2. QED
      BY <2>1, <3>1
  <2>3. QED
    BY <2>1, <2>2 DEF Adds
<1> HIDE DEF Step
<1>8. \A k \in 0..n : sum[k] \in Nat
  <2> DEFINE J == {k \in Nat : k <= n => sum[k] \in Nat}
  <2>1. sum[0] \in Nat
    BY <1>7 DEF Adds
  <2>2. ASSUME NEW k \in Nat, k + 1 <= n, sum[k] \in Nat PROVE sum[k + 1] \in Nat
    <3>1. k + 1 \in 1..n /\ (k + 1) - 1 = k
      BY <2>2
    <3>2. amount[k + 1] \in Nat
      BY <3>1
    <3>3. QED
      BY <1>7, <2>2, <3>1, <3>2 DEF Adds
  <2>3. 0 \in J /\ \A k \in Nat : k \in J => k + 1 \in J
    BY <2>1, <2>2
  <2>4. Nat \subseteq J
    <3> HIDE DEF J
    <3> QED
      BY <2>3, NatSetInduction
  <2>5. QED
    BY <2>4
<1>9. sum \in [0..n -> Nat]
  BY <1>6, <1>8
<1>10. QED
  BY <1>5, <1>7, <1>9

\* A total of natural numbers is one; of none it is 0.
LEMMA TotalType ==
  ASSUME NEW n \in Nat, NEW amount \in [1..n -> Nat]
  PROVE  Total(amount, n) \in Nat /\ (n = 0 => Total(amount, n) = 0)
<1>1. PICK sum \in [0..n -> Nat] : Adds(sum, amount, n) /\ Total(amount, n) = sum[n]
  BY TotalSums
<1>2. QED
  BY <1>1 DEF Adds

\* Smaller amounts, smaller total.
LEMMA TotalLeq ==
  ASSUME NEW n \in Nat, NEW f \in [1..n -> Nat], NEW g \in [1..n -> Nat],
         \A k \in 1..n : f[k] <= g[k]
  PROVE  Total(f, n) <= Total(g, n)
<1>1. PICK s \in [0..n -> Nat] : Adds(s, f, n) /\ Total(f, n) = s[n]
  BY TotalSums
<1>2. PICK t \in [0..n -> Nat] : Adds(t, g, n) /\ Total(g, n) = t[n]
  BY TotalSums
<1> DEFINE I == {k \in Nat : k <= n => s[k] <= t[k]}
<1>3. 0 \in I
  BY <1>1, <1>2 DEF Adds
<1>4. ASSUME NEW k \in Nat, k \in I PROVE k + 1 \in I
  <2> SUFFICES ASSUME k + 1 <= n PROVE s[k + 1] <= t[k + 1]
    OBVIOUS
  <2>1. k + 1 \in 1..n /\ (k + 1) - 1 = k /\ k \in 0..n /\ s[k] <= t[k]
    BY <1>4
  <2>2. s[k + 1] = s[k] + f[k + 1] /\ t[k + 1] = t[k] + g[k + 1]
    BY <1>1, <1>2, <2>1 DEF Adds
  <2>3. f[k + 1] <= g[k + 1] /\ f[k + 1] \in Nat /\ g[k + 1] \in Nat
    BY <2>1
  <2>4. s[k] \in Nat /\ t[k] \in Nat
    BY <2>1
  <2>5. QED
    BY <2>1, <2>2, <2>3, <2>4
<1>5. Nat \subseteq I
  <2> HIDE DEF I
  <2> QED
    BY <1>3, <1>4, NatSetInduction
<1>6. QED
  BY <1>1, <1>2, <1>5

\* One amount changes.
LEMMA TotalChange ==
  ASSUME NEW n \in Nat, NEW f \in [1..n -> Nat], NEW g \in [1..n -> Nat],
         NEW c \in 1..n, \A k \in 1..n : k # c => g[k] = f[k]
  PROVE  Total(g, n) = Total(f, n) - f[c] + g[c]
<1>1. PICK s \in [0..n -> Nat] : Adds(s, f, n) /\ Total(f, n) = s[n]
  BY TotalSums
<1>2. PICK t \in [0..n -> Nat] : Adds(t, g, n) /\ Total(g, n) = t[n]
  BY TotalSums
<1> DEFINE I == {k \in Nat : k <= n =>
                   t[k] = s[k] + IF c <= k THEN g[c] - f[c] ELSE 0}
<1>3. 0 \in I
  BY <1>1, <1>2 DEF Adds
<1>4. ASSUME NEW k \in Nat, k \in I PROVE k + 1 \in I
  <2> SUFFICES ASSUME k + 1 <= n
               PROVE  t[k + 1] = s[k + 1] + IF c <= k + 1 THEN g[c] - f[c] ELSE 0
    OBVIOUS
  <2>1. k + 1 \in 1..n /\ (k + 1) - 1 = k /\ k \in 0..n
        /\ t[k] = s[k] + IF c <= k THEN g[c] - f[c] ELSE 0
    BY <1>4
  <2>2. s[k + 1] = s[k] + f[k + 1] /\ t[k + 1] = t[k] + g[k + 1]
    BY <1>1, <1>2, <2>1 DEF Adds
  <2>3. /\ f[k + 1] \in Nat /\ g[k + 1] \in Nat /\ s[k] \in Nat /\ t[k] \in Nat
        /\ f[c] \in Nat /\ g[c] \in Nat
    BY <2>1
  <2>4. CASE c = k + 1
    BY <2>1, <2>2, <2>3, <2>4
  <2>5. CASE c # k + 1
    <3>1. g[k + 1] = f[k + 1] /\ (c <= k + 1 <=> c <= k)
      BY <2>1, <2>5
    <3> DEFINE more == IF c <= k THEN g[c] - f[c] ELSE 0
    <3>2. more = (IF c <= k + 1 THEN g[c] - f[c] ELSE 0) /\ more \in Int
      BY <2>3, <3>1
    <3>3. t[k] = s[k] + more
      BY <2>1
    <3> HIDE DEF more
    <3>4. t[k + 1] = s[k + 1] + more
      <4>1. more \in Int
        BY <3>2
      <4> DEFINE y == f[k + 1]
                 x == s[k]
      <4>2. x \in Nat /\ y \in Nat
        BY <2>3
      <4>3. t[k + 1] = (x + more) + y /\ s[k + 1] = x + y
        BY <2>2, <3>1, <3>3
      <4> HIDE DEF x, y
      <4>4. (x + more) + y = (x + y) + more
        BY <4>1, <4>2
      <4>5. QED
        BY <4>3, <4>4
    <3>5. QED
      BY <3>2, <3>4
  <2>6. QED
    BY <2>4, <2>5
<1>5. Nat \subseteq I
  <2> HIDE DEF I
  <2> QED
    BY <1>3, <1>4, NatSetInduction
<1>6. s[n] \in Nat /\ t[n] \in Nat /\ f[c] \in Nat /\ g[c] \in Nat
  OBVIOUS
<1>7. t[n] = s[n] + (g[c] - f[c])
  BY <1>5
<1>8. QED
  BY <1>1, <1>2, <1>6, <1>7

\* One more amount.
LEMMA TotalMore ==
  ASSUME NEW n \in Nat, NEW f \in [1..n -> Nat], NEW g \in [1..(n + 1) -> Nat],
         \A k \in 1..n : g[k] = f[k]
  PROVE  Total(g, n + 1) = Total(f, n) + g[n + 1]
<1>1. PICK s \in [0..n -> Nat] : Adds(s, f, n) /\ Total(f, n) = s[n]
  BY TotalSums
<1> DEFINE m == n + 1
<1>10. m \in Nat /\ g \in [1..m -> Nat]
  OBVIOUS
<1>11. \E t \in [0..m -> Nat] : Adds(t, g, m) /\ Total(g, m) = t[m]
  <2> HIDE DEF m
  <2> QED
    BY <1>10, TotalSums
<1>2. PICK t \in [0..(n + 1) -> Nat] : Adds(t, g, n + 1) /\ Total(g, n + 1) = t[n + 1]
  BY <1>11
<1> DEFINE I == {k \in Nat : k <= n => t[k] = s[k]}
<1>3. 0 \in I
  BY <1>1, <1>2 DEF Adds
<1>4. ASSUME NEW k \in Nat, k \in I PROVE k + 1 \in I
  <2> SUFFICES ASSUME k + 1 <= n PROVE t[k + 1] = s[k + 1]
    OBVIOUS
  <2>1. /\ k + 1 \in 1..n /\ k + 1 \in 1..(n + 1) /\ (k + 1) - 1 = k
        /\ t[k] = s[k] /\ g[k + 1] = f[k + 1]
    BY <1>4
  <2>2. s[k + 1] = s[k] + f[k + 1] /\ t[k + 1] = t[k] + g[k + 1]
    BY <1>1, <1>2, <2>1 DEF Adds
  <2>3. QED
    BY <2>1, <2>2
<1>5. Nat \subseteq I
  <2> HIDE DEF I
  <2> QED
    BY <1>3, <1>4, NatSetInduction
<1>6. n + 1 \in 1..(n + 1) /\ (n + 1) - 1 = n /\ t[n] = s[n]
  BY <1>5
<1>7. t[n + 1] = t[n] + g[n + 1]
  BY <1>2, <1>6 DEF Adds
<1>8. QED
  BY <1>1, <1>2, <1>6, <1>7

\* Amounts of at most w in the places of P, and none elsewhere.
LEMMA TotalBound ==
  ASSUME NEW n \in Nat, NEW f \in [1..n -> Nat], NEW w \in Nat,
         NEW P \in SUBSET (1..n),
         \A k \in 1..n : f[k] <= w /\ (k \notin P => f[k] = 0)
  PROVE  /\ IsFiniteSet(P) /\ Cardinality(P) \in Nat
         /\ Total(f, n) <= w * Cardinality(P)
<1>1. PICK s \in [0..n -> Nat] : Adds(s, f, n) /\ Total(f, n) = s[n]
  BY TotalSums
<1> DEFINE Q(k) == P \cap (1..k)
<1>2. \A k \in Nat : IsFiniteSet(Q(k)) /\ Cardinality(Q(k)) \in Nat
  <2> SUFFICES ASSUME NEW k \in Nat
               PROVE  IsFiniteSet(Q(k)) /\ Cardinality(Q(k)) \in Nat
    OBVIOUS
  <2>1. IsFiniteSet(1..k)
    BY FS_Interval
  <2>2. QED
    BY <2>1, FS_Subset, FS_CardinalityType
<1> DEFINE I == {k \in Nat : k <= n => s[k] <= w * Cardinality(Q(k))}
<1>3. 0 \in I
  <2>1. s[0] = 0 /\ Q(0) = {}
    BY <1>1 DEF Adds
  <2>2. Cardinality(Q(0)) = 0 /\ w * 0 = 0
    BY <2>1, FS_EmptySet
  <2>3. QED
    BY <2>1, <2>2
<1>4. ASSUME NEW k \in Nat, k \in I PROVE k + 1 \in I
  <2> SUFFICES ASSUME k + 1 <= n PROVE s[k + 1] <= w * Cardinality(Q(k + 1))
    OBVIOUS
  <2>1. k + 1 \in 1..n /\ (k + 1) - 1 = k /\ s[k] <= w * Cardinality(Q(k))
    BY <1>4
  <2>2. s[k + 1] = s[k] + f[k + 1] /\ f[k + 1] \in Nat /\ s[k] \in Nat
    BY <1>1, <2>1 DEF Adds
  <2> DEFINE q == Cardinality(Q(k))
  <2>3. q \in Nat
    BY <1>2
  <2>4. CASE k + 1 \in P
    <3>1. Q(k + 1) = Q(k) \cup {k + 1} /\ k + 1 \notin Q(k)
      <4> DEFINE A == 1..k
                 B == 1..(k + 1)
                 e == k + 1
      <4>1. B = A \cup {e} /\ e \notin A
        <5>1. \A i \in Nat : i \in B <=> i \in A \/ i = e
          OBVIOUS
        <5>2. A \subseteq Nat /\ B \subseteq Nat /\ e \in Nat
          OBVIOUS
        <5>3. e \notin A
          OBVIOUS
        <5> HIDE DEF A, B, e
        <5>4. QED
          BY <5>1, <5>2, <5>3
      <4>2. e \in P /\ Q(k) = P \cap A /\ Q(k + 1) = P \cap B
        BY <2>4
      <4>3. Q(k + 1) = Q(k) \cup {e} /\ e \notin Q(k)
        <5> HIDE DEF A, B, e, Q
        <5> QED
          BY <4>1, <4>2
      <4>4. QED
        BY <4>3
    <3>2. Cardinality(Q(k + 1)) = q + 1
      <4> HIDE DEF Q
      <4> QED
        BY <1>2, <3>1, FS_AddElement
    <3>3. f[k + 1] <= w
      BY <2>1
    <3> HIDE DEF q, Q
    <3>4. w * (q + 1) = w * q + w /\ w * q \in Nat
      BY <2>3
    <3>5. s[k] <= w * q
      BY <2>1 DEF q
    <3>6. QED
      BY <2>2, <3>2, <3>3, <3>4, <3>5
  <2>5. CASE k + 1 \notin P
    <3>1. Q(k + 1) = Q(k) /\ f[k + 1] = 0
      BY <2>1, <2>5
    <3> HIDE DEF Q
    <3>2. QED
      BY <2>1, <2>2, <3>1
  <2>6. QED
    BY <2>4, <2>5
<1>5. Nat \subseteq I
  <2> HIDE DEF I
  <2> QED
    BY <1>3, <1>4, NatSetInduction
<1>6. Q(n) = P
  OBVIOUS
<1> HIDE DEF Q
<1>7. QED
  BY <1>1, <1>2, <1>5, <1>6

\* A product grows with its first factor.
LEMMA TimesGrows ==
  ASSUME NEW a \in Nat, NEW b \in Nat, NEW d \in Nat, a <= b
  PROVE  a * 2 * d \in Nat /\ a * 2 * d <= b * 2 * d /\ 2 * d * a = a * 2 * d
         /\ (a + 1) * 2 * d = a * 2 * d + 2 * d
  OBVIOUS

\* Calls by instance: k of each at most.
LEMMA Fibers ==
  ASSUME NEW S, IsFiniteSet(S), NEW k \in Nat, NEW P, IsFiniteSet(P),
         NEW by \in [P -> S],
         \A n \in S : Cardinality({c \in P : by[c] = n}) <= k
  PROVE  Cardinality(P) <= k * Cardinality(S)
<1> DEFINE Part(T) == {c \in P : by[c] \in T}
           I == {m \in Nat : \A T \in SUBSET S :
                   Cardinality(T) = m => Cardinality(Part(T)) <= k * m}
<1>1. \A T \in SUBSET S : /\ IsFiniteSet(T) /\ Cardinality(T) \in Nat
                          /\ IsFiniteSet(Part(T)) /\ Cardinality(Part(T)) \in Nat
  <2> SUFFICES ASSUME NEW T \in SUBSET S
               PROVE  /\ IsFiniteSet(T) /\ Cardinality(T) \in Nat
                      /\ IsFiniteSet(Part(T)) /\ Cardinality(Part(T)) \in Nat
    OBVIOUS
  <2>1. Part(T) \subseteq P
    OBVIOUS
  <2> HIDE DEF Part
  <2>2. QED
    BY <2>1, FS_Subset, FS_CardinalityType
<1>2. 0 \in I
  <2> SUFFICES ASSUME NEW T \in SUBSET S, Cardinality(T) = 0
               PROVE  Cardinality(Part(T)) <= k * 0
    OBVIOUS
  <2>1. T = {}
    BY <1>1, FS_EmptySet
  <2>2. Part(T) = {} /\ k * 0 = 0
    BY <2>1
  <2>3. QED
    BY <2>2, FS_EmptySet
<1>3. ASSUME NEW m \in Nat, m \in I PROVE m + 1 \in I
  <2> SUFFICES ASSUME NEW T \in SUBSET S, Cardinality(T) = m + 1
               PROVE  Cardinality(Part(T)) <= k * (m + 1)
    OBVIOUS
  <2>1. T # {}
    BY FS_EmptySet
  <2>2. PICK n \in T : TRUE
    BY <2>1
  <2> DEFINE U == T \ {n}
             one == {c \in P : by[c] = n}
  <2>3. U \in SUBSET S /\ Cardinality(U) = m
    <3>1. IsFiniteSet(T)
      BY <1>1
    <3>2. Cardinality(U) = Cardinality(T) - 1
      BY <2>2, <3>1, FS_RemoveElement
    <3>3. QED
      BY <3>2
  <2>4. Cardinality(Part(U)) <= k * m
    BY <1>3, <2>3
  <2>5. Part(T) = Part(U) \cup one /\ Part(U) \cap one = {}
    BY <2>2
  <2>6. IsFiniteSet(one) /\ Cardinality(one) \in Nat /\ Cardinality(one) <= k
    <3>1. one \subseteq P /\ n \in S
      BY <2>2
    <3>2. Cardinality(one) <= k
      BY <3>1
    <3> HIDE DEF one
    <3>3. QED
      BY <3>1, <3>2, FS_Subset, FS_CardinalityType
  <2>7. IsFiniteSet(Part(U)) /\ Cardinality(Part(U)) \in Nat
    BY <1>1, <2>3
  <2> HIDE DEF Part, one, U
  <2>8. Cardinality(Part(T)) =
          Cardinality(Part(U)) + Cardinality(one) - Cardinality(Part(U) \cap one)
    BY <2>5, <2>6, <2>7, FS_Union
  <2>9. Cardinality(Part(U) \cap one) = 0
    BY <2>5, FS_EmptySet
  <2>10. k * (m + 1) = k * m + k /\ k * m \in Nat
    OBVIOUS
  <2>11. QED
    BY <2>4, <2>6, <2>7, <2>8, <2>9, <2>10
<1>4. Nat \subseteq I
  <2> HIDE DEF I
  <2> QED
    BY <1>2, <1>3, NatSetInduction
<1>5. Part(S) = P /\ Cardinality(S) \in Nat
  BY FS_CardinalityType
<1>6. QED
  BY <1>4, <1>5

-----------------------------------------------------------------------------
(* What the calls of a behaviour have cost and may cost yet.                 *)

\* What a call still owes and may bill before it is answered, as far as it has
\* been admitted: its answer and, once, a repair.
MayBill(k) ==
  CASE k.at = "slot" -> 2 * Dearest
    [] k.at = "admitted" -> IF k.again THEN Dearest ELSE 2 * Dearest
    [] k.at = "paid" -> k.cost + IF k.again THEN 0 ELSE Dearest
    [] OTHER -> 0

\* The same, of a call that may still be admitted.
MayEverBill(k) == IF k.at \in {"sent", "spend"} THEN 2 * Dearest ELSE MayBill(k)

\* How often a call may still be recorded against p's share.
MayCount(p, k) ==
  IF k.who # p \/ p = Nothing THEN 0
  ELSE CASE k.at = "slot" -> 2
         [] k.at \in {"admitted", "paid"} -> IF k.again THEN 1 ELSE 2
         [] OTHER -> 0

\* A call that has been through the limits of its minute.
HasPassed(k) == IF k.at \in {"sent", "spend", "slot"} THEN 0 ELSE 1

Owing(cs) == [c \in DOMAIN cs |-> Owed(cs[c])]
Billing(cs) == [c \in DOMAIN cs |-> MayBill(cs[c])]
EverBilling(cs) == [c \in DOMAIN cs |-> MayEverBill(cs[c])]
Counting(p, cs) == [c \in DOMAIN cs |-> MayCount(p, cs[c])]
Passed(cs) == [c \in DOMAIN cs |-> HasPassed(cs[c])]

Placed(cs, n) == {c \in DOMAIN cs : cs[c].by = n /\ cs[c].at \notin {"sent", "ok", "failed"}}

\* Limits as both services read them.
LimitSet ==
  {l \in [Fields -> Nat \cup BOOLEAN] :
     l.enabled \in BOOLEAN /\ \A f \in Fields \ {"enabled"} : l[f] \in Nat}

CallStages == {"sent", "spend", "slot", "admitted", "paid", "ok", "failed"}

Bodies == {Scene.edits[i] : i \in DOMAIN Scene.edits}

AskTiers == {Scene.asks[i].tier : i \in DOMAIN Scene.asks}

Ask == [who : People \cup {Nothing}, tier : AskTiers]

SpentSoFar == [day : Nat, month : Nat]

CallSet ==
  [at : CallStages, by : Scene.running, who : People \cup {Nothing},
   tier : {"hot", "warm", "system"} \cup AskTiers,
   limits : LimitSet \cup {Nothing}, again : BOOLEAN, cost : Nat, spent : SpentSoFar]

Purse ==
  [month : Nat, minute : Nat, day : Nat, count : Nat, mine : [People -> Nat],
   times : [People -> Nat]]

Strict == [peak : Nat, bill : Nat, loose : BOOLEAN, most : Nat, admitted : Nat]

AiTypeOK ==
  /\ scene \in DOMAIN Scenes
  /\ calls \in Seq(CallSet) /\ Len(calls) <= MaxCalls
  /\ purse \in Purse /\ strict \in Strict
  /\ cached \in [Instances -> [limits : LimitSet, fresh : BOOLEAN]]
  /\ edits \in Seq(Bodies) /\ asks \in Seq(Ask)

\* What is known of a call at each of its stages, in the light of st.
CallOK(k, st) ==
  /\ k.at \in {"sent", "spend", "slot"} => ~k.again
  /\ k.at = "paid" => k.cost <= Dearest
  /\ k.at \in {"spend", "slot"} =>
       /\ k.limits \in LimitSet
       /\ Scene.edits = <<>> => k.limits = EnvLimits
       /\ \/ st.loose
          \/ /\ k.limits.daily = 0 => MaxCalls * 2 * Dearest <= st.peak
             /\ k.limits.daily <= st.peak
             /\ k.limits.rpm = 0 => MaxCalls <= st.most
             /\ k.limits.rpm <= st.most

CallInv == \A c \in DOMAIN calls : CallOK(calls[c], strict)

\* The saved document is one the desk took; without edits there is none.
DocInv ==
  /\ doc = Nothing \/ (Partial(doc) /\ DOMAIN doc = Fields /\ Valid(doc))
  /\ Scene.edits = <<>> =>
       /\ edits = <<>> /\ doc = Nothing
       /\ \A n \in Instances : cached[n].limits = EnvLimits

\* No instance has more calls in place than it has places.
PlaceInv == \A n \in Scene.running : Cardinality(Placed(calls, n)) <= Concurrency

\* What is billed and may be billed, and how much of it was looked at.
BillInv ==
  \/ strict.loose
  \/ /\ strict.bill = purse.day + Total(Owing(calls), Len(calls))
     /\ purse.day + Total(EverBilling(calls), Len(calls)) <= Len(calls) * 2 * Dearest
     /\ \/ MaxCalls * 2 * Dearest <= strict.peak
        \/ purse.day + Total(Billing(calls), Len(calls))
             <= Greater(strict.peak - 1, 0) + AtOnce * 2 * Dearest

MineInv == \A p \in People : purse.mine[p] <= purse.day

\* Who was admitted this minute has passed, and unless somebody's minute knows
\* no limit, each took one of its places.
RateInv ==
  \/ strict.loose
  \/ /\ strict.admitted <= Total(Passed(calls), Len(calls))
     /\ \/ MaxCalls <= strict.most
        \/ strict.admitted <= purse.minute /\ strict.admitted <= strict.most

\* What is recorded and may be recorded against somebody's share.
ShareInv ==
  EnvLimits.actorCalls > 0 /\ ~strict.loose /\ Scene.edits = <<>> =>
    \A p \in People :
      purse.times[p] + Total(Counting(p, calls), Len(calls))
        <= EnvLimits.actorCalls - 1 + AtOnce * 2

SpendInv ==
  /\ AiTypeOK /\ CallInv /\ DocInv /\ PlaceInv
  /\ BillInv /\ MineInv /\ RateInv /\ ShareInv

-----------------------------------------------------------------------------
(* Limits and prices.                                                        *)

\* No completion costs more than the dearest.
LEMMA DearestPrice ==
  /\ Dearest \in Nat /\ \A p \in Prices : p <= Dearest
  /\ \A t \in Routed : Price[t] \subseteq Prices
<1>1. Prices \subseteq Nat /\ \E p \in Prices : \A q \in Prices : q <= p
  BY AiAssumption
<1>2. Dearest \in Prices /\ \A q \in Prices : q <= Dearest
  BY <1>1 DEF Dearest
<1>3. QED
  BY <1>1, <1>2 DEF Prices

\* A document, filled up, has every field.
LEMMA FilledType ==
  ASSUME NEW d, Partial(d), NEW base, Partial(base), DOMAIN base = Fields
  PROVE  /\ Partial(Filled(d, base)) /\ DOMAIN Filled(d, base) = Fields
         /\ \A f \in Fields : Filled(d, base)[f] = IF f \in DOMAIN d THEN d[f] ELSE base[f]
  BY DEF Partial, Filled

\* What is read is in range.
LEMMA FromJsonType ==
  ASSUME NEW d, Partial(d), NEW base, Partial(base), DOMAIN base = Fields
  PROVE  /\ FromJson(d, base) \in LimitSet
         /\ \A f \in Fields :
              FromJson(d, base)[f] =
                LET value == Filled(d, base)[f]
                IN  CASE f \in Amounts -> IF value < 0 THEN 0 ELSE value
                      [] f = "ratio" -> IF value * 10 < Scale THEN Scale \div 10
                                        ELSE IF value > Scale THEN Scale ELSE value
                      [] OTHER -> value
<1> DEFINE full == Filled(d, base)
           bent(f) == LET value == full[f]
                      IN  CASE f \in Amounts -> IF value < 0 THEN 0 ELSE value
                            [] f = "ratio" -> IF value * 10 < Scale THEN Scale \div 10
                                              ELSE IF value > Scale THEN Scale ELSE value
                            [] OTHER -> value
<1>1. Partial(full) /\ DOMAIN full = Fields
  BY FilledType
<1>2. FromJson(d, base) = [f \in Fields |-> bent(f)]
  BY AiAssumption DEF FromJson
<1> HIDE DEF full
<1>3. ASSUME NEW f \in Amounts PROVE bent(f) \in Nat
  <2>1. full[f] \in Int /\ f \in Amounts
    BY <1>1 DEF Partial, Fields, Amounts
  <2>2. bent(f) = IF full[f] < 0 THEN 0 ELSE full[f]
    BY <2>1 DEF Amounts
  <2>3. QED
    BY <2>1, <2>2
<1>4. bent("ratio") \in Nat
  <2>1. full["ratio"] \in Int /\ Scale \in Nat
    BY <1>1, AiAssumption DEF Partial, Fields, Amounts
  <2>2. bent("ratio") = IF full["ratio"] * 10 < Scale THEN Scale \div 10
                        ELSE IF full["ratio"] > Scale THEN Scale ELSE full["ratio"]
    BY DEF Amounts
  <2>3. Scale \div 10 \in Nat
    BY <2>1
  <2>4. QED
    BY <2>1, <2>2, <2>3
<1>5. bent("enabled") \in BOOLEAN
  <2>1. full["enabled"] \in BOOLEAN
    BY <1>1 DEF Partial, Fields, Amounts
  <2>2. bent("enabled") = full["enabled"]
    BY DEF Amounts
  <2>3. QED
    BY <2>1, <2>2
<1> HIDE DEF bent
<1>6. \A f \in Fields : f \in Amounts \/ f = "ratio" \/ f = "enabled"
  BY DEF Fields
<1>7. FromJson(d, base) \in [Fields -> Nat \cup BOOLEAN]
  BY <1>2, <1>3, <1>4, <1>5, <1>6
<1>8. "enabled" \in Fields /\ "enabled" \notin Amounts /\ "ratio" \in Fields
      /\ Amounts \subseteq Fields
  BY DEF Fields, Amounts
<1>9. FromJson(d, base) \in LimitSet
  BY <1>2, <1>3, <1>4, <1>5, <1>6, <1>7, <1>8 DEF LimitSet
<1>10. QED
  BY <1>2, <1>9 DEF bent, full

\* Limits are a document with every field.
LEMMA LimitsWhole ==
  ASSUME NEW l \in LimitSet
  PROVE  /\ Partial(l) /\ DOMAIN l = Fields /\ l.enabled \in BOOLEAN
         /\ l.daily \in Nat /\ l.monthly \in Nat /\ l.rpm \in Nat /\ l.ratio \in Nat
         /\ l.actorUsd \in Nat /\ l.actorCalls \in Nat
<1>1. DOMAIN l = Fields /\ l["enabled"] \in BOOLEAN
      /\ \A f \in Fields \ {"enabled"} : l[f] \in Nat
  BY DEF LimitSet
<1>2. Partial(l)
  BY <1>1 DEF Partial
<1>3. QED
  BY <1>1, <1>2 DEF Fields, Amounts

\* The environment's limits, and whatever is enforced.
LEMMA EnvType ==
  ASSUME scene \in DOMAIN Scenes, DocInv
  PROVE  EnvLimits \in LimitSet /\ Enforced \in LimitSet
<1>1. EnvLimits \in LimitSet
  <2>1. Partial(Scene.limits) /\ Partial(BaseLimits) /\ DOMAIN BaseLimits = Fields
    BY AiAssumption DEF Scene
  <2>2. QED
    BY <2>1, FromJsonType DEF EnvLimits
<1>2. ASSUME doc # Nothing PROVE FromJson(doc, EnvLimits) \in LimitSet
  <2>1. Partial(doc)
    BY <1>2 DEF DocInv
  <2>2. Partial(EnvLimits) /\ DOMAIN EnvLimits = Fields
    BY <1>1, LimitsWhole
  <2>3. QED
    BY <2>1, <2>2, FromJsonType
<1>3. QED
  BY <1>1, <1>2 DEF Enforced

-----------------------------------------------------------------------------
(* What changes when one call goes on, or one more is made.                  *)

\* The measures of a call.
LEMMA CallMeasures ==
  ASSUME NEW k \in CallSet, k.at = "paid" => k.cost <= Dearest, NEW p
  PROVE  /\ Owed(k) \in Nat /\ MayBill(k) \in Nat /\ MayEverBill(k) \in Nat
         /\ MayCount(p, k) \in Nat /\ HasPassed(k) \in Nat
         /\ MayBill(k) <= 2 * Dearest /\ MayCount(p, k) <= 2 /\ HasPassed(k) <= 1
         /\ MayBill(k) <= MayEverBill(k) /\ MayEverBill(k) <= 2 * Dearest
         /\ Owed(k) <= MayBill(k)
         /\ k.at \in {"sent", "ok", "failed"} => MayBill(k) = 0 /\ MayCount(p, k) = 0
<1>1. k.at \in CallStages /\ k.cost \in Nat /\ k.again \in BOOLEAN
  BY DEF CallSet
<1>2. Dearest \in Nat
  BY DearestPrice
<1>3. Owed(k) = IF k.at = "paid" THEN k.cost ELSE 0
  BY DEF Owed
<1>4. CASE k.at \in {"sent", "spend", "ok", "failed"}
  BY <1>1, <1>2, <1>3, <1>4 DEF MayBill, MayEverBill, MayCount, HasPassed
<1>5. CASE k.at = "slot"
  BY <1>1, <1>2, <1>3, <1>5 DEF MayBill, MayEverBill, MayCount, HasPassed
<1>6. CASE k.at = "admitted"
  BY <1>1, <1>2, <1>3, <1>6 DEF MayBill, MayEverBill, MayCount, HasPassed
<1>7. CASE k.at = "paid"
  BY <1>1, <1>2, <1>3, <1>7 DEF MayBill, MayEverBill, MayCount, HasPassed
<1>8. QED
  BY <1>1, <1>4, <1>5, <1>6, <1>7 DEF CallStages

\* Costs of paid calls are known prices.
Priced(cs) == \A c \in DOMAIN cs : cs[c].at = "paid" => cs[c].cost <= Dearest

\* The measures of a row of calls.
LEMMA RowMeasures ==
  ASSUME NEW cs \in Seq(CallSet), Priced(cs), NEW p
  PROVE  /\ Len(cs) \in Nat /\ DOMAIN cs = 1..Len(cs)
         /\ Owing(cs) \in [1..Len(cs) -> Nat] /\ Billing(cs) \in [1..Len(cs) -> Nat]
         /\ EverBilling(cs) \in [1..Len(cs) -> Nat]
         /\ Counting(p, cs) \in [1..Len(cs) -> Nat] /\ Passed(cs) \in [1..Len(cs) -> Nat]
         /\ Total(Owing(cs), Len(cs)) \in Nat /\ Total(Billing(cs), Len(cs)) \in Nat
         /\ Total(EverBilling(cs), Len(cs)) \in Nat
         /\ Total(Counting(p, cs), Len(cs)) \in Nat /\ Total(Passed(cs), Len(cs)) \in Nat
<1>1. Len(cs) \in Nat /\ DOMAIN cs = 1..Len(cs)
  OBVIOUS
<1>2. \A c \in 1..Len(cs) :
        /\ Owed(cs[c]) \in Nat /\ MayBill(cs[c]) \in Nat /\ MayEverBill(cs[c]) \in Nat
        /\ MayCount(p, cs[c]) \in Nat /\ HasPassed(cs[c]) \in Nat
  <2> SUFFICES ASSUME NEW c \in 1..Len(cs)
               PROVE  /\ Owed(cs[c]) \in Nat /\ MayBill(cs[c]) \in Nat
                      /\ MayEverBill(cs[c]) \in Nat
                      /\ MayCount(p, cs[c]) \in Nat /\ HasPassed(cs[c]) \in Nat
    OBVIOUS
  <2>1. cs[c] \in CallSet /\ (cs[c].at = "paid" => cs[c].cost <= Dearest)
    BY DEF Priced
  <2>2. QED
    BY <2>1, CallMeasures
<1>3. /\ Owing(cs) \in [1..Len(cs) -> Nat] /\ Billing(cs) \in [1..Len(cs) -> Nat]
      /\ EverBilling(cs) \in [1..Len(cs) -> Nat]
      /\ Counting(p, cs) \in [1..Len(cs) -> Nat] /\ Passed(cs) \in [1..Len(cs) -> Nat]
  BY <1>1, <1>2 DEF Owing, Billing, EverBilling, Counting, Passed
<1>4. QED
  BY <1>1, <1>3, TotalType

\* One call of a row goes on.
LEMMA TurnAll ==
  ASSUME NEW cs \in Seq(CallSet), Priced(cs), NEW ds \in Seq(CallSet), Priced(ds),
         Len(ds) = Len(cs), NEW c \in DOMAIN cs,
         \A d \in DOMAIN cs : d # c => ds[d] = cs[d], NEW p
  PROVE  /\ Total(Owing(ds), Len(ds))
              = Total(Owing(cs), Len(cs)) - Owed(cs[c]) + Owed(ds[c])
         /\ Total(Billing(ds), Len(ds))
              = Total(Billing(cs), Len(cs)) - MayBill(cs[c]) + MayBill(ds[c])
         /\ Total(EverBilling(ds), Len(ds))
              = Total(EverBilling(cs), Len(cs)) - MayEverBill(cs[c]) + MayEverBill(ds[c])
         /\ Total(Counting(p, ds), Len(ds))
              = Total(Counting(p, cs), Len(cs)) - MayCount(p, cs[c]) + MayCount(p, ds[c])
         /\ Total(Passed(ds), Len(ds))
              = Total(Passed(cs), Len(cs)) - HasPassed(cs[c]) + HasPassed(ds[c])
<1> DEFINE n == Len(cs)
<1>1. /\ n \in Nat /\ DOMAIN cs = 1..n /\ DOMAIN ds = 1..n /\ Len(ds) = n /\ c \in 1..n
      /\ Owing(cs) \in [1..n -> Nat] /\ Billing(cs) \in [1..n -> Nat]
      /\ EverBilling(cs) \in [1..n -> Nat]
      /\ Counting(p, cs) \in [1..n -> Nat] /\ Passed(cs) \in [1..n -> Nat]
      /\ Owing(ds) \in [1..n -> Nat] /\ Billing(ds) \in [1..n -> Nat]
      /\ EverBilling(ds) \in [1..n -> Nat]
      /\ Counting(p, ds) \in [1..n -> Nat] /\ Passed(ds) \in [1..n -> Nat]
  BY RowMeasures
<1> HIDE DEF n
<1>2. /\ \A d \in 1..n : d # c => Owing(ds)[d] = Owing(cs)[d]
      /\ Owing(cs)[c] = Owed(cs[c]) /\ Owing(ds)[c] = Owed(ds[c])
  BY <1>1 DEF Owing
<1>3. /\ \A d \in 1..n : d # c => Billing(ds)[d] = Billing(cs)[d]
      /\ Billing(cs)[c] = MayBill(cs[c]) /\ Billing(ds)[c] = MayBill(ds[c])
  BY <1>1 DEF Billing
<1>4. /\ \A d \in 1..n : d # c => EverBilling(ds)[d] = EverBilling(cs)[d]
      /\ EverBilling(cs)[c] = MayEverBill(cs[c]) /\ EverBilling(ds)[c] = MayEverBill(ds[c])
  BY <1>1 DEF EverBilling
<1>5. /\ \A d \in 1..n : d # c => Counting(p, ds)[d] = Counting(p, cs)[d]
      /\ Counting(p, cs)[c] = MayCount(p, cs[c]) /\ Counting(p, ds)[c] = MayCount(p, ds[c])
  BY <1>1 DEF Counting
<1>6. /\ \A d \in 1..n : d # c => Passed(ds)[d] = Passed(cs)[d]
      /\ Passed(cs)[c] = HasPassed(cs[c]) /\ Passed(ds)[c] = HasPassed(ds[c])
  BY <1>1 DEF Passed
<1>7. Total(Owing(ds), n) = Total(Owing(cs), n) - Owed(cs[c]) + Owed(ds[c])
  <2> DEFINE f == Owing(cs)
             g == Owing(ds)
  <2>1. /\ n \in Nat /\ c \in 1..n /\ f \in [1..n -> Nat] /\ g \in [1..n -> Nat]
        /\ \A d \in 1..n : d # c => g[d] = f[d]
    BY <1>1, <1>2
  <2> HIDE DEF f, g
  <2>2. Total(g, n) = Total(f, n) - f[c] + g[c]
    BY <2>1, TotalChange
  <2>3. QED
    BY <1>2, <2>2 DEF f, g
<1>8. Total(Billing(ds), n) = Total(Billing(cs), n) - MayBill(cs[c]) + MayBill(ds[c])
  <2> DEFINE f == Billing(cs)
             g == Billing(ds)
  <2>1. /\ n \in Nat /\ c \in 1..n /\ f \in [1..n -> Nat] /\ g \in [1..n -> Nat]
        /\ \A d \in 1..n : d # c => g[d] = f[d]
    BY <1>1, <1>3
  <2> HIDE DEF f, g
  <2>2. Total(g, n) = Total(f, n) - f[c] + g[c]
    BY <2>1, TotalChange
  <2>3. QED
    BY <1>3, <2>2 DEF f, g
<1>9. Total(EverBilling(ds), n)
        = Total(EverBilling(cs), n) - MayEverBill(cs[c]) + MayEverBill(ds[c])
  <2> DEFINE f == EverBilling(cs)
             g == EverBilling(ds)
  <2>1. /\ n \in Nat /\ c \in 1..n /\ f \in [1..n -> Nat] /\ g \in [1..n -> Nat]
        /\ \A d \in 1..n : d # c => g[d] = f[d]
    BY <1>1, <1>4
  <2> HIDE DEF f, g
  <2>2. Total(g, n) = Total(f, n) - f[c] + g[c]
    BY <2>1, TotalChange
  <2>3. QED
    BY <1>4, <2>2 DEF f, g
<1>10. Total(Counting(p, ds), n)
         = Total(Counting(p, cs), n) - MayCount(p, cs[c]) + MayCount(p, ds[c])
  <2> DEFINE f == Counting(p, cs)
             g == Counting(p, ds)
  <2>1. /\ n \in Nat /\ c \in 1..n /\ f \in [1..n -> Nat] /\ g \in [1..n -> Nat]
        /\ \A d \in 1..n : d # c => g[d] = f[d]
    BY <1>1, <1>5
  <2> HIDE DEF f, g
  <2>2. Total(g, n) = Total(f, n) - f[c] + g[c]
    BY <2>1, TotalChange
  <2>3. QED
    BY <1>5, <2>2 DEF f, g
<1>11. Total(Passed(ds), n) = Total(Passed(cs), n) - HasPassed(cs[c]) + HasPassed(ds[c])
  <2> DEFINE f == Passed(cs)
             g == Passed(ds)
  <2>1. /\ n \in Nat /\ c \in 1..n /\ f \in [1..n -> Nat] /\ g \in [1..n -> Nat]
        /\ \A d \in 1..n : d # c => g[d] = f[d]
    BY <1>1, <1>6
  <2> HIDE DEF f, g
  <2>2. Total(g, n) = Total(f, n) - f[c] + g[c]
    BY <2>1, TotalChange
  <2>3. QED
    BY <1>6, <2>2 DEF f, g
<1>12. QED
  BY <1>1, <1>7, <1>8, <1>9, <1>10, <1>11 DEF n

\* The same, without anybody's share,
LEMMA TurnTotals ==
  ASSUME NEW cs \in Seq(CallSet), Priced(cs), NEW ds \in Seq(CallSet), Priced(ds),
         Len(ds) = Len(cs), NEW c \in DOMAIN cs,
         \A d \in DOMAIN cs : d # c => ds[d] = cs[d]
  PROVE  /\ Total(Owing(ds), Len(ds))
              = Total(Owing(cs), Len(cs)) - Owed(cs[c]) + Owed(ds[c])
         /\ Total(Billing(ds), Len(ds))
              = Total(Billing(cs), Len(cs)) - MayBill(cs[c]) + MayBill(ds[c])
         /\ Total(EverBilling(ds), Len(ds))
              = Total(EverBilling(cs), Len(cs)) - MayEverBill(cs[c]) + MayEverBill(ds[c])
         /\ Total(Passed(ds), Len(ds))
              = Total(Passed(cs), Len(cs)) - HasPassed(cs[c]) + HasPassed(ds[c])
<1> DEFINE p == 0
<1> HIDE DEF p
<1>1. Total(Counting(p, ds), Len(ds))
        = Total(Counting(p, cs), Len(cs)) - MayCount(p, cs[c]) + MayCount(p, ds[c])
  BY TurnAll
<1>2. QED
  BY TurnAll

\* and somebody's share alone.
LEMMA TurnCount ==
  ASSUME NEW cs \in Seq(CallSet), Priced(cs), NEW ds \in Seq(CallSet), Priced(ds),
         Len(ds) = Len(cs), NEW c \in DOMAIN cs,
         \A d \in DOMAIN cs : d # c => ds[d] = cs[d], NEW p
  PROVE  Total(Counting(p, ds), Len(ds))
           = Total(Counting(p, cs), Len(cs)) - MayCount(p, cs[c]) + MayCount(p, ds[c])
  BY TurnAll

\* A call nobody has looked at joins the row.
Joins(k, cs, ds) == k.at = "sent" /\ ds = Append(cs, k)

\* What one more call, just asked for, does to the list and to the sums over it.
OneMore(p, k, cs, ds) ==
  /\ ds \in Seq(CallSet) /\ Len(ds) = Len(cs) + 1 /\ Priced(ds)
  /\ ds[Len(ds)] = k /\ \A c \in DOMAIN cs : ds[c] = cs[c]
  /\ \A c \in DOMAIN ds : c \in DOMAIN cs \/ c = Len(ds)
  /\ Total(Owing(ds), Len(ds)) = Total(Owing(cs), Len(cs))
  /\ Total(Billing(ds), Len(ds)) = Total(Billing(cs), Len(cs))
  /\ Total(EverBilling(ds), Len(ds))
       = Total(EverBilling(cs), Len(cs)) + 2 * Dearest
  /\ Total(Counting(p, ds), Len(ds)) = Total(Counting(p, cs), Len(cs))
  /\ Total(Passed(ds), Len(ds)) = Total(Passed(cs), Len(cs))

LEMMA MoreTotals ==
  ASSUME NEW cs \in Seq(CallSet), Priced(cs), NEW k \in CallSet, NEW p,
         NEW ds, Joins(k, cs, ds)
  PROVE  OneMore(p, k, cs, ds)
<1> DEFINE n == Len(cs)
<1>1. /\ n \in Nat /\ DOMAIN cs = 1..n /\ ds \in Seq(CallSet) /\ Len(ds) = n + 1
      /\ ds[n + 1] = k /\ \A c \in 1..n : ds[c] = cs[c]
  BY AppendProperties DEF Joins
<1> HIDE DEF n
<1>2. DOMAIN ds = 1..(n + 1) /\ 1..(n + 1) = (1..n) \cup {n + 1} /\ n + 1 \notin 1..n
  <2>1. DOMAIN ds = 1..(n + 1)
    BY <1>1
  <2>2. \A c \in Nat : c \in 1..(n + 1) <=> c \in 1..n \/ c = n + 1
    BY <1>1
  <2>3. 1..(n + 1) \subseteq Nat /\ 1..n \subseteq Nat /\ n + 1 \in Nat /\ n + 1 \notin 1..n
    BY <1>1
  <2>4. 1..(n + 1) = (1..n) \cup {n + 1}
    <3> DEFINE A == 1..n
               B == 1..(n + 1)
               e == n + 1
    <3>1. /\ \A c \in Nat : c \in B <=> c \in A \/ c = e
          /\ B \subseteq Nat /\ A \subseteq Nat /\ e \in Nat
      BY <2>2, <2>3
    <3> HIDE DEF A, B, e
    <3>2. B = A \cup {e}
      BY <3>1
    <3>3. QED
      BY <3>2 DEF A, B, e
  <2>5. QED
    BY <2>1, <2>3, <2>4
<1>3. Priced(ds)
  <2> SUFFICES ASSUME NEW c \in DOMAIN ds, ds[c].at = "paid" PROVE ds[c].cost <= Dearest
    BY DEF Priced
  <2>1. c \in 1..n
    BY <1>1, <1>2 DEF Joins
  <2>2. QED
    BY <1>1, <2>1 DEF Priced
<1>4. /\ Owing(cs) \in [1..n -> Nat] /\ Billing(cs) \in [1..n -> Nat]
      /\ EverBilling(cs) \in [1..n -> Nat]
      /\ Counting(p, cs) \in [1..n -> Nat] /\ Passed(cs) \in [1..n -> Nat]
      /\ Owing(ds) \in [1..(n + 1) -> Nat] /\ Billing(ds) \in [1..(n + 1) -> Nat]
      /\ EverBilling(ds) \in [1..(n + 1) -> Nat]
      /\ Counting(p, ds) \in [1..(n + 1) -> Nat] /\ Passed(ds) \in [1..(n + 1) -> Nat]
  BY <1>1, <1>3, RowMeasures DEF n
<1>5. /\ Owed(k) = 0 /\ MayBill(k) = 0 /\ MayEverBill(k) = 2 * Dearest
      /\ MayCount(p, k) = 0 /\ HasPassed(k) = 0
  BY DEF Owed, MayBill, MayEverBill, MayCount, HasPassed, Joins
<1>6. Total(Owing(ds), n + 1) = Total(Owing(cs), n) + 0
  <2>1. /\ \A c \in 1..n : Owing(ds)[c] = Owing(cs)[c]
        /\ Owing(ds)[n + 1] = 0
    BY <1>1, <1>2, <1>5 DEF Owing
  <2> DEFINE f == Owing(cs)
             g == Owing(ds)
  <2>2. /\ n \in Nat /\ f \in [1..n -> Nat] /\ g \in [1..(n + 1) -> Nat]
        /\ \A c \in 1..n : g[c] = f[c]
    BY <1>1, <1>4, <2>1
  <2> HIDE DEF f, g
  <2>3. Total(g, n + 1) = Total(f, n) + g[n + 1]
    BY <2>2, TotalMore
  <2>4. QED
    BY <2>1, <2>3 DEF f, g
<1>7. Total(Billing(ds), n + 1) = Total(Billing(cs), n) + 0
  <2>1. /\ \A c \in 1..n : Billing(ds)[c] = Billing(cs)[c]
        /\ Billing(ds)[n + 1] = 0
    BY <1>1, <1>2, <1>5 DEF Billing
  <2> DEFINE f == Billing(cs)
             g == Billing(ds)
  <2>2. /\ n \in Nat /\ f \in [1..n -> Nat] /\ g \in [1..(n + 1) -> Nat]
        /\ \A c \in 1..n : g[c] = f[c]
    BY <1>1, <1>4, <2>1
  <2> HIDE DEF f, g
  <2>3. Total(g, n + 1) = Total(f, n) + g[n + 1]
    BY <2>2, TotalMore
  <2>4. QED
    BY <2>1, <2>3 DEF f, g
<1>8. Total(EverBilling(ds), n + 1) = Total(EverBilling(cs), n) + 2 * Dearest
  <2>1. /\ \A c \in 1..n : EverBilling(ds)[c] = EverBilling(cs)[c]
        /\ EverBilling(ds)[n + 1] = 2 * Dearest
    BY <1>1, <1>2, <1>5 DEF EverBilling
  <2> DEFINE f == EverBilling(cs)
             g == EverBilling(ds)
  <2>2. /\ n \in Nat /\ f \in [1..n -> Nat] /\ g \in [1..(n + 1) -> Nat]
        /\ \A c \in 1..n : g[c] = f[c]
    BY <1>1, <1>4, <2>1
  <2> HIDE DEF f, g
  <2>3. Total(g, n + 1) = Total(f, n) + g[n + 1]
    BY <2>2, TotalMore
  <2>4. QED
    BY <2>1, <2>3 DEF f, g
<1>9. Total(Counting(p, ds), n + 1) = Total(Counting(p, cs), n) + 0
  <2>1. /\ \A c \in 1..n : Counting(p, ds)[c] = Counting(p, cs)[c]
        /\ Counting(p, ds)[n + 1] = 0
    BY <1>1, <1>2, <1>5 DEF Counting
  <2> DEFINE f == Counting(p, cs)
             g == Counting(p, ds)
  <2>2. /\ n \in Nat /\ f \in [1..n -> Nat] /\ g \in [1..(n + 1) -> Nat]
        /\ \A c \in 1..n : g[c] = f[c]
    BY <1>1, <1>4, <2>1
  <2> HIDE DEF f, g
  <2>3. Total(g, n + 1) = Total(f, n) + g[n + 1]
    BY <2>2, TotalMore
  <2>4. QED
    BY <2>1, <2>3 DEF f, g
<1>10. Total(Passed(ds), n + 1) = Total(Passed(cs), n) + 0
  <2>1. /\ \A c \in 1..n : Passed(ds)[c] = Passed(cs)[c]
        /\ Passed(ds)[n + 1] = 0
    BY <1>1, <1>2, <1>5 DEF Passed
  <2> DEFINE f == Passed(cs)
             g == Passed(ds)
  <2>2. /\ n \in Nat /\ f \in [1..n -> Nat] /\ g \in [1..(n + 1) -> Nat]
        /\ \A c \in 1..n : g[c] = f[c]
    BY <1>1, <1>4, <2>1
  <2> HIDE DEF f, g
  <2>3. Total(g, n + 1) = Total(f, n) + g[n + 1]
    BY <2>2, TotalMore
  <2>4. QED
    BY <2>1, <2>3 DEF f, g
<1>11. /\ Total(Owing(cs), n) \in Nat /\ Total(Billing(cs), n) \in Nat
       /\ Total(Counting(p, cs), n) \in Nat /\ Total(Passed(cs), n) \in Nat
  BY <1>1, <1>4, TotalType
<1>12. QED
  BY <1>1, <1>2, <1>3, <1>6, <1>7, <1>8, <1>9, <1>10, <1>11 DEF n, OneMore

\* A row whose calls have less to come.
LEMMA LessTotals ==
  ASSUME NEW cs \in Seq(CallSet), Priced(cs), NEW ds \in Seq(CallSet), Priced(ds),
         Len(ds) = Len(cs), NEW p,
         \A c \in DOMAIN cs :
           /\ MayBill(ds[c]) <= MayBill(cs[c]) /\ MayEverBill(ds[c]) <= MayEverBill(cs[c])
           /\ MayCount(p, ds[c]) <= MayCount(p, cs[c])
           /\ HasPassed(cs[c]) <= HasPassed(ds[c])
  PROVE  /\ Total(Billing(ds), Len(ds)) <= Total(Billing(cs), Len(cs))
         /\ Total(EverBilling(ds), Len(ds)) <= Total(EverBilling(cs), Len(cs))
         /\ Total(Counting(p, ds), Len(ds)) <= Total(Counting(p, cs), Len(cs))
         /\ Total(Passed(cs), Len(cs)) <= Total(Passed(ds), Len(ds))
<1> DEFINE n == Len(cs)
<1>1. /\ n \in Nat /\ DOMAIN cs = 1..n /\ DOMAIN ds = 1..n /\ Len(ds) = n
      /\ Billing(cs) \in [1..n -> Nat] /\ EverBilling(cs) \in [1..n -> Nat]
      /\ Counting(p, cs) \in [1..n -> Nat] /\ Passed(cs) \in [1..n -> Nat]
      /\ Billing(ds) \in [1..n -> Nat] /\ EverBilling(ds) \in [1..n -> Nat]
      /\ Counting(p, ds) \in [1..n -> Nat] /\ Passed(ds) \in [1..n -> Nat]
  BY RowMeasures
<1> HIDE DEF n
<1>2. /\ \A c \in 1..n : Billing(ds)[c] <= Billing(cs)[c]
      /\ \A c \in 1..n : EverBilling(ds)[c] <= EverBilling(cs)[c]
      /\ \A c \in 1..n : Counting(p, ds)[c] <= Counting(p, cs)[c]
      /\ \A c \in 1..n : Passed(cs)[c] <= Passed(ds)[c]
  BY <1>1 DEF Billing, EverBilling, Counting, Passed
<1>3. /\ Total(Billing(ds), n) <= Total(Billing(cs), n)
      /\ Total(EverBilling(ds), n) <= Total(EverBilling(cs), n)
      /\ Total(Counting(p, ds), n) <= Total(Counting(p, cs), n)
      /\ Total(Passed(cs), n) <= Total(Passed(ds), n)
  BY <1>1, <1>2, TotalLeq
<1>4. QED
  BY <1>1, <1>3 DEF n

\* What is in place is bounded by the places, and what it may cost with it.
LEMMA RoomTotals ==
  ASSUME scene \in DOMAIN Scenes, NEW cs \in Seq(CallSet), Priced(cs), NEW p,
         \A n \in Scene.running : Cardinality(Placed(cs, n)) <= Concurrency
  PROVE  /\ AtOnce \in Nat
         /\ Total(Billing(cs), Len(cs)) <= AtOnce * 2 * Dearest
         /\ Total(Counting(p, cs), Len(cs)) <= AtOnce * 2
         /\ Total(EverBilling(cs), Len(cs)) <= Len(cs) * 2 * Dearest
         /\ Total(Passed(cs), Len(cs)) <= Len(cs)
         /\ Total(Owing(cs), Len(cs)) <= Total(Billing(cs), Len(cs))
         /\ Total(Billing(cs), Len(cs)) <= Total(EverBilling(cs), Len(cs))
<1> DEFINE n == Len(cs)
           P == {c \in 1..n : cs[c].at \notin {"sent", "ok", "failed"}}
           by == [c \in P |-> cs[c].by]
<1>1. /\ n \in Nat /\ DOMAIN cs = 1..n
      /\ Owing(cs) \in [1..n -> Nat] /\ Billing(cs) \in [1..n -> Nat]
      /\ EverBilling(cs) \in [1..n -> Nat]
      /\ Counting(p, cs) \in [1..n -> Nat] /\ Passed(cs) \in [1..n -> Nat]
  BY RowMeasures
<1>2. Dearest \in Nat /\ Concurrency \in Nat
  BY DearestPrice, AiAssumption
<1>3. IsFiniteSet(Scene.running) /\ Cardinality(Scene.running) \in Nat
  <2>1. Scene.running \subseteq Instances /\ IsFiniteSet(Instances)
    BY AiAssumption DEF Scene
  <2>2. QED
    BY <2>1, FS_Subset, FS_CardinalityType
<1>4. AtOnce \in Nat
  BY <1>2, <1>3 DEF AtOnce
<1>5. \A c \in 1..n :
        /\ Owing(cs)[c] <= Billing(cs)[c] /\ Billing(cs)[c] <= EverBilling(cs)[c]
        /\ Billing(cs)[c] <= 2 * Dearest /\ EverBilling(cs)[c] <= 2 * Dearest
        /\ Counting(p, cs)[c] <= 2 /\ Passed(cs)[c] <= 1
        /\ c \notin P => Billing(cs)[c] = 0 /\ Counting(p, cs)[c] = 0
  <2> SUFFICES ASSUME NEW c \in 1..n
               PROVE  /\ Owing(cs)[c] <= Billing(cs)[c]
                      /\ Billing(cs)[c] <= EverBilling(cs)[c]
                      /\ Billing(cs)[c] <= 2 * Dearest /\ EverBilling(cs)[c] <= 2 * Dearest
                      /\ Counting(p, cs)[c] <= 2 /\ Passed(cs)[c] <= 1
                      /\ c \notin P => Billing(cs)[c] = 0 /\ Counting(p, cs)[c] = 0
    OBVIOUS
  <2>1. cs[c] \in CallSet /\ (cs[c].at = "paid" => cs[c].cost <= Dearest)
    BY <1>1 DEF Priced
  <2>2. /\ Owing(cs)[c] = Owed(cs[c]) /\ Billing(cs)[c] = MayBill(cs[c])
        /\ EverBilling(cs)[c] = MayEverBill(cs[c])
        /\ Counting(p, cs)[c] = MayCount(p, cs[c]) /\ Passed(cs)[c] = HasPassed(cs[c])
    BY <1>1 DEF Owing, Billing, EverBilling, Counting, Passed
  <2>3. c \notin P => cs[c].at \in {"sent", "ok", "failed"}
    OBVIOUS
  <2> HIDE DEF P
  <2>4. QED
    BY <2>1, <2>2, <2>3, CallMeasures
<1>6. Cardinality(P) <= AtOnce
  <2>1. \A c \in P : cs[c].by \in Scene.running
    <3>1. \A c \in 1..n : cs[c] \in CallSet
      BY <1>1
    <3>2. P \subseteq 1..n
      OBVIOUS
    <3> HIDE DEF P
    <3>3. QED
      BY <3>1, <3>2 DEF CallSet
  <2>2. by \in [P -> Scene.running]
    BY <2>1
  <2>3. \A m \in Scene.running : {c \in P : by[c] = m} = Placed(cs, m)
    BY <1>1 DEF Placed
  <2>4. IsFiniteSet(P)
    <3>1. P \subseteq 1..n /\ IsFiniteSet(1..n)
      BY <1>1, FS_Interval
    <3> HIDE DEF P
    <3>2. QED
      BY <3>1, FS_Subset
  <2> HIDE DEF P, by
  <2>5. QED
    BY <1>2, <1>3, <2>2, <2>3, <2>4, Fibers DEF AtOnce
<1>7. P \in SUBSET (1..n) /\ 1..n \in SUBSET (1..n)
  OBVIOUS
<1> HIDE DEF P, n
<1>8. /\ Cardinality(P) \in Nat
      /\ Total(Billing(cs), n) <= (2 * Dearest) * Cardinality(P)
  <2> DEFINE w == 2 * Dearest
             f == Billing(cs)
  <2>1. w \in Nat
    BY <1>2
  <2>2. /\ n \in Nat /\ f \in [1..n -> Nat]
        /\ \A c \in 1..n : f[c] <= w /\ (c \notin P => f[c] = 0)
    <3> HIDE DEF w
    <3>1. \A c \in 1..n : f[c] <= w
      BY <1>5 DEF w
    <3>2. QED
      BY <1>1, <1>5, <3>1
  <2> HIDE DEF w, f
  <2>3. Cardinality(P) \in Nat /\ Total(f, n) <= w * Cardinality(P)
    BY <1>7, <2>1, <2>2, TotalBound
  <2>4. QED
    BY <2>3 DEF w, f
<1>9. Total(Counting(p, cs), n) <= 2 * Cardinality(P)
  BY <1>1, <1>5, <1>7, TotalBound
<1>10. Cardinality(1..n) = n
  BY <1>1, FS_Interval
<1>11. Total(EverBilling(cs), n) <= (2 * Dearest) * n
  <2>1. 2 * Dearest \in Nat
    BY <1>2
  <2>2. Total(EverBilling(cs), n) <= (2 * Dearest) * Cardinality(1..n)
    BY <1>1, <1>5, <1>7, <2>1, TotalBound
  <2>3. QED
    BY <1>10, <2>2
<1>12. Total(Passed(cs), n) <= n
  <2>1. Total(Passed(cs), n) <= 1 * Cardinality(1..n)
    BY <1>1, <1>5, <1>7, TotalBound
  <2>2. QED
    BY <1>1, <1>10, <2>1
<1>13. /\ Total(Owing(cs), n) <= Total(Billing(cs), n)
       /\ Total(Billing(cs), n) <= Total(EverBilling(cs), n)
  BY <1>1, <1>5, TotalLeq
<1>14. /\ (2 * Dearest) * Cardinality(P) <= AtOnce * 2 * Dearest
       /\ (2 * Dearest) * n = n * 2 * Dearest
       /\ (2 * Dearest) * Cardinality(P) \in Nat /\ AtOnce * 2 * Dearest \in Nat
  <2>1. /\ Cardinality(P) * 2 * Dearest <= AtOnce * 2 * Dearest
        /\ 2 * Dearest * Cardinality(P) = Cardinality(P) * 2 * Dearest
        /\ Cardinality(P) * 2 * Dearest \in Nat
    BY <1>2, <1>4, <1>6, <1>8, TimesGrows
  <2>2. 2 * Dearest * n = n * 2 * Dearest
    BY <1>1, <1>2, TimesGrows
  <2>3. AtOnce * 2 * Dearest \in Nat
    BY <1>2, <1>4, TimesGrows
  <2>4. QED
    BY <2>1, <2>2, <2>3
<1>15. Total(Billing(cs), n) <= AtOnce * 2 * Dearest
  <2>1. Total(Billing(cs), n) \in Nat
    BY <1>1, TotalType
  <2>2. QED
    BY <1>8, <1>14, <2>1
<1>16. Total(Counting(p, cs), n) <= AtOnce * 2
  <2>1. Total(Counting(p, cs), n) \in Nat
    BY <1>1, TotalType
  <2>2. QED
    BY <1>4, <1>6, <1>8, <1>9, <2>1
<1>17. QED
  BY <1>4, <1>11, <1>12, <1>13, <1>14, <1>15, <1>16 DEF n

-----------------------------------------------------------------------------
(* Who else moves: the rest of the town makes requests, and nothing more.    *)

\* Nobody changes the scene.
LEMMA SceneKept ==
  ASSUME [Next]_vars
  PROVE  scene' = scene
<1>1. ASSUME World PROVE scene' = scene
  BY <1>1 DEF World, WorldWrites
<1>2. ASSUME Directing PROVE scene' = scene
  <2>1. ASSUME DirectorStep PROVE scene' = scene
    BY <2>1 DEF DirectorStep, Observe, Attend, CloseTick, Recall, SkipPlan, AppendAudit,
                AppendOutput, AppendFails, DirectorCrash, logVars
  <2>2. ASSUME DirectorAsks PROVE scene' = scene
    BY <2>2 DEF DirectorAsks, AskPlan, Judge, logVars
  <2>3. ASSUME DirectorHears PROVE scene' = scene
    BY <2>3 DEF DirectorHears, Hear
  <2>4. QED
    BY <1>2, <2>1, <2>2, <2>3 DEF Directing
<1>3. ASSUME Composing PROVE scene' = scene
  <2>1. ASSUME NEW k, FeedStep(k) PROVE scene' = scene
    BY <2>1 DEF FeedStep, Compose, AppendPost, AckSource, ComposeFails, Poison,
                ComposerCrash, logVars
  <2>2. ASSUME NEW k, ComposerAsks(k) PROVE scene' = scene
    BY <2>2 DEF ComposerAsks, AskNarration, logVars
  <2>3. ASSUME NEW k, ComposerHears(k) PROVE scene' = scene
    BY <2>3 DEF ComposerHears, HearNarration
  <2>4. QED
    BY <1>3, <2>1, <2>2, <2>3 DEF Composing
<1>4. ASSUME ActorAsks PROVE scene' = scene
  BY <1>4 DEF ActorAsks, logVars
<1>5. ASSUME Thinking PROVE scene' = scene
  BY <1>5 DEF Thinking, AiStep, Begin, ReadSpend, TakeSlot, PassesUnchecked, NoRoute, Complete,
              ProviderFails, Record, CacheExpires, RuntimeCrash, SaveLimits, NextMinute,
              NextDay, logVars
<1>6. ASSUME Playing PROVE scene' = scene
  BY <1>6 DEF Playing, GatewayStep, OpenSession, ReadHead, AppendCommand, CommandFails,
              ShowReply, CloseSession, Subscribe, Receive, Leave, PresenceExpires, PickLetter,
              PushCrash, PushTo, ChangeSubscription, logVars
<1>7. ASSUME Projecting PROVE scene' = scene
  BY <1>7 DEF Projecting, TablesStep, PgTake, PgDo, PgAck, PgFails, PgCrash, PgRebuild,
              PgReplay, logVars
<1>8. ASSUME UNCHANGED vars PROVE scene' = scene
  BY <1>8 DEF vars, logVars
<1>9. QED
  BY <1>1, <1>2, <1>3, <1>4, <1>5, <1>6, <1>7, <1>8 DEF Next

\* A request nobody has looked at, of somebody who may ask, and for the rest
\* what the runtime knows stays as it was.
Asking ==
  /\ \E who \in People \cup {Nothing}, tier \in {"hot", "warm", "system"} \cup AskTiers :
       Request(who, tier)
  /\ UNCHANGED <<purse, doc, edits, cached, strict>>

LEMMA AiFrame ==
  ASSUME [Next]_vars, asks \in Seq(Ask)
  PROVE  /\ UNCHANGED aiVars \/ Asking \/ AiStep
         /\ asks' \in Seq(Ask)
<1> DEFINE Goal == (UNCHANGED aiVars \/ Asking \/ AiStep) /\ asks' \in Seq(Ask)
<1>1. ASSUME World \/ Playing \/ Projecting PROVE Goal
  BY <1>1 DEF World, Playing, Projecting
<1>2. ASSUME Directing PROVE Goal
  <2>1. asks' = asks
    BY <1>2 DEF Directing
  <2>2. ASSUME DirectorAsks PROVE UNCHANGED aiVars \/ Asking
    BY <2>2 DEF DirectorAsks, Asking
  <2>3. QED
    BY <1>2, <2>1, <2>2 DEF Directing, DirectorHears
<1>3. ASSUME Composing PROVE Goal
  <2>1. asks' = asks
    BY <1>3 DEF Composing
  <2>2. ASSUME NEW k, ComposerAsks(k) PROVE Asking
    BY <2>2 DEF ComposerAsks, Asking
  <2>3. QED
    BY <1>3, <2>1, <2>2 DEF Composing, ComposerHears
<1>4. ASSUME ActorAsks PROVE Goal
  <2>1. asks # <<>> /\ asks' = Tail(asks) /\ Request(Head(asks).who, Head(asks).tier)
    BY <1>4 DEF ActorAsks
  <2>2. Head(asks) \in Ask /\ Tail(asks) \in Seq(Ask)
    BY <2>1, HeadTailProperties
  <2>3. Head(asks).who \in People \cup {Nothing} /\ Head(asks).tier \in AskTiers
    BY <2>2 DEF Ask
  <2>4. QED
    BY <1>4, <2>1, <2>2, <2>3 DEF ActorAsks, Asking
<1>5. ASSUME Thinking PROVE Goal
  BY <1>5 DEF Thinking
<1>6. ASSUME UNCHANGED vars PROVE Goal
  BY <1>6 DEF vars
<1>7. QED
  BY <1>1, <1>2, <1>3, <1>4, <1>5, <1>6 DEF Next

-----------------------------------------------------------------------------
(* One call goes on.                                                         *)

\* What is remembered of the day only grows looser.
Looser(st, tt) == /\ st.loose => tt.loose
                  /\ st.peak <= tt.peak /\ st.most <= tt.most

\* The scene tells the environment and the places.
LEMMA SceneTells ==
  ASSUME scene' = scene
  PROVE  /\ Scene' = Scene /\ EnvLimits' = EnvLimits /\ AtOnce' = AtOnce
         /\ CallSet' = CallSet /\ Bodies' = Bodies /\ Ask' = Ask
<1>1. Scene' = Scene
  BY DEF Scene
<1>2. AskTiers' = AskTiers
  BY <1>1 DEF AskTiers
<1>3. QED
  BY <1>1, <1>2 DEF EnvLimits, AtOnce, CallSet, Bodies, Ask

\* What was known of a call stays known.
LEMMA CallStays ==
  ASSUME scene' = scene, strict \in Strict, strict' \in Strict, Looser(strict, strict'),
         NEW k \in CallSet, CallOK(k, strict)
  PROVE  CallOK(k, strict')
<1>1. k.at = "spend" \/ k.at = "slot" => k.limits \in LimitSet
  BY DEF CallOK
<1>2. k.limits \in LimitSet => k.limits.daily \in Nat /\ k.limits.rpm \in Nat
  BY LimitsWhole
<1>3. MaxCalls \in Nat /\ Dearest \in Nat
  BY AiAssumption, DearestPrice
<1>4. MaxCalls * 2 * Dearest \in Nat
  BY <1>3, TimesGrows
<1>5. strict.peak \in Nat /\ strict'.peak \in Nat /\ strict.most \in Nat /\ strict'.most \in Nat
  BY DEF Strict
<1>6. QED
  BY <1>1, <1>2, <1>3, <1>4, <1>5 DEF CallOK, Looser

\* Calls in place are finitely many.
LEMMA PlacedFinite ==
  ASSUME NEW cs \in Seq(CallSet), NEW n
  PROVE  IsFiniteSet(Placed(cs, n)) /\ Cardinality(Placed(cs, n)) \in Nat
<1>1. Len(cs) \in Nat /\ DOMAIN cs = 1..Len(cs)
  OBVIOUS
<1>2. Placed(cs, n) \subseteq 1..Len(cs) /\ IsFiniteSet(1..Len(cs))
  BY <1>1, FS_Interval DEF Placed
<1>3. QED
  BY <1>2, FS_Subset, FS_CardinalityType

\* A smaller set fits where a larger one does.
LEMMA FewerFit ==
  ASSUME NEW T, IsFiniteSet(T), NEW S \in SUBSET T, Cardinality(T) <= Concurrency
  PROVE  Cardinality(S) <= Concurrency
<1>1. IsFiniteSet(S) /\ Cardinality(S) <= Cardinality(T)
  BY FS_Subset
<1>2. Cardinality(S) \in Nat /\ Cardinality(T) \in Nat /\ Concurrency \in Nat
  BY <1>1, FS_CardinalityType, AiAssumption
<1>3. QED
  BY <1>1, <1>2

\* The row with one call replaced.
LEMMA OneGoesOn ==
  ASSUME SpendInv, scene' = scene, strict' \in Strict, Looser(strict, strict'),
         NEW c \in DOMAIN calls, NEW k \in CallSet, calls' = [calls EXCEPT ![c] = k],
         k.by = calls[c].by, CallOK(k, strict')
  PROVE  /\ calls' \in Seq(CallSet) /\ Len(calls') = Len(calls) /\ Len(calls') <= MaxCalls
         /\ Priced(calls) /\ Priced(calls') /\ CallInv'
         /\ calls'[c] = k /\ \A d \in DOMAIN calls : d # c => calls'[d] = calls[d]
         /\ \A n : Placed(calls', n) \subseteq Placed(calls, n) \cup {c}
         /\ \/ k.at \in {"ok", "failed"}
            \/ calls[c].at \notin {"sent", "ok", "failed"}
            => PlaceInv'
<1>1. calls \in Seq(CallSet) /\ Len(calls) <= MaxCalls /\ strict \in Strict /\ CallInv /\ PlaceInv
  BY DEF SpendInv, AiTypeOK
<1>2. /\ calls' \in Seq(CallSet) /\ Len(calls') = Len(calls) /\ calls'[c] = k
      /\ \A d \in DOMAIN calls : d # c => calls'[d] = calls[d]
      /\ DOMAIN calls' = DOMAIN calls
  BY <1>1
<1>3. Priced(calls)
  BY <1>1 DEF CallInv, CallOK, Priced
<1>4. \A d \in DOMAIN calls : CallOK(calls'[d], strict')
  <2> SUFFICES ASSUME NEW d \in DOMAIN calls PROVE CallOK(calls'[d], strict')
    OBVIOUS
  <2>1. CASE d = c
    BY <1>2, <2>1
  <2>2. CASE d # c
    <3>1. calls[d] \in CallSet /\ CallOK(calls[d], strict)
      BY <1>1 DEF CallInv
    <3>2. CallOK(calls[d], strict')
      BY <1>1, <3>1, CallStays
    <3>3. QED
      BY <1>2, <2>2, <3>2
  <2>3. QED
    BY <2>1, <2>2
<1>5. Priced(calls')
  BY <1>2, <1>4 DEF CallOK, Priced
<1>6. CallInv'
  <2>1. Scene' = Scene /\ EnvLimits' = EnvLimits
    BY SceneTells
  <2>2. QED
    BY <1>2, <1>4, <2>1 DEF CallInv, CallOK
<1>7. \A n : Placed(calls', n) \subseteq Placed(calls, n) \cup {c}
  BY <1>2 DEF Placed
<1>8. ASSUME \/ k.at \in {"ok", "failed"}
             \/ calls[c].at \notin {"sent", "ok", "failed"}
      PROVE  PlaceInv'
  <2> SUFFICES ASSUME NEW n \in Scene.running
               PROVE  Cardinality(Placed(calls', n)) <= Concurrency
    BY SceneTells DEF PlaceInv
  <2>1. Placed(calls', n) \subseteq Placed(calls, n)
    BY <1>2, <1>8 DEF Placed
  <2>2. IsFiniteSet(Placed(calls, n)) /\ Cardinality(Placed(calls, n)) <= Concurrency
    BY <1>1, PlacedFinite DEF PlaceInv
  <2>3. QED
    BY <2>1, <2>2, FewerFit
<1>9. QED
  BY <1>1, <1>2, <1>3, <1>5, <1>6, <1>7, <1>8

\* The step in which call j becomes k bills what it owes, admits no more than
\* pass, and costs no more than it might, unless what was spent has just been
\* looked at.
PaysFor(j, k) ==
  \/ strict'.loose
  \/ /\ strict'.bill + Owed(j) + purse.day = strict.bill + purse'.day + Owed(k)
     /\ purse'.day + MayEverBill(k) <= purse.day + MayEverBill(j)
     /\ \/ purse'.day + MayBill(k) <= purse.day + MayBill(j)
        \/ MaxCalls * 2 * Dearest <= strict'.peak
        \/ purse'.day < strict'.peak

AdmitsFor(j, k) ==
  \/ strict'.loose
  \/ /\ strict'.admitted + HasPassed(j) <= strict.admitted + HasPassed(k)
     /\ \/ MaxCalls <= strict'.most
        \/ strict'.admitted <= purse'.minute /\ strict'.admitted <= strict'.most

SharesFor(j, k) ==
  EnvLimits.actorCalls > 0 /\ ~strict'.loose /\ Scene.edits = <<>> =>
    \A p \in People :
      \/ purse'.times[p] + MayCount(p, k) <= purse.times[p] + MayCount(p, j)
      \/ purse'.times[p] <= EnvLimits.actorCalls - 1

\* What has to be seen of a step in which call c goes on as k.
GoesOn(c, k) ==
  /\ scene' = scene /\ asks' \in Seq(Ask) /\ doc' = doc /\ edits' = edits
  /\ calls' = [calls EXCEPT ![c] = k] /\ k.by = calls[c].by
  /\ strict' \in Strict /\ Looser(strict, strict') /\ purse' \in Purse
  /\ cached' \in [Instances -> [limits : LimitSet, fresh : BOOLEAN]]
  /\ Scene.edits = <<>> => \A n \in Instances : cached'[n].limits = EnvLimits
  /\ CallOK(k, strict') /\ PlaceInv' /\ MineInv'
  /\ PaysFor(calls[c], k) /\ AdmitsFor(calls[c], k) /\ SharesFor(calls[c], k)

LEMMA OneStep ==
  ASSUME SpendInv, NEW c \in DOMAIN calls, NEW k \in CallSet, GoesOn(c, k)
  PROVE  SpendInv'
<1>0. /\ scene' = scene /\ asks' \in Seq(Ask) /\ doc' = doc /\ edits' = edits
      /\ calls' = [calls EXCEPT ![c] = k] /\ k.by = calls[c].by
      /\ strict' \in Strict /\ Looser(strict, strict') /\ purse' \in Purse
      /\ cached' \in [Instances -> [limits : LimitSet, fresh : BOOLEAN]]
      /\ Scene.edits = <<>> => \A n \in Instances : cached'[n].limits = EnvLimits
      /\ CallOK(k, strict') /\ PlaceInv' /\ MineInv'
      /\ PaysFor(calls[c], k) /\ AdmitsFor(calls[c], k) /\ SharesFor(calls[c], k)
  BY DEF GoesOn
<1>1. /\ calls \in Seq(CallSet) /\ Len(calls) <= MaxCalls /\ strict \in Strict
      /\ purse \in Purse /\ scene \in DOMAIN Scenes /\ edits \in Seq(Bodies)
      /\ CallInv /\ DocInv /\ PlaceInv /\ BillInv /\ RateInv /\ ShareInv
  BY DEF SpendInv, AiTypeOK
<1>2. /\ calls' \in Seq(CallSet) /\ Len(calls') = Len(calls) /\ Len(calls') <= MaxCalls
      /\ Priced(calls) /\ Priced(calls') /\ CallInv'
      /\ calls'[c] = k /\ \A d \in DOMAIN calls : d # c => calls'[d] = calls[d]
  BY <1>0, OneGoesOn
<1>3. /\ Scene' = Scene /\ EnvLimits' = EnvLimits /\ AtOnce' = AtOnce
      /\ CallSet' = CallSet /\ Bodies' = Bodies /\ Ask' = Ask
  BY <1>0, SceneTells
<1>4. AiTypeOK'
  BY <1>0, <1>1, <1>2, <1>3 DEF AiTypeOK
<1>5. DocInv'
  BY <1>0, <1>1, <1>3 DEF DocInv
<1> DEFINE n == Len(calls)
           b == Total(Billing(calls), n)
           bb == Total(Billing(calls'), n)
           e == Total(EverBilling(calls), n)
           ee == Total(EverBilling(calls'), n)
           o == Total(Owing(calls), n)
           oo == Total(Owing(calls'), n)
           s == Total(Passed(calls), n)
           ss == Total(Passed(calls'), n)
           places == AtOnce * 2 * Dearest
           all == MaxCalls * 2 * Dearest
           allowed == Len(calls) * 2 * Dearest
<1> DEFINE cs == calls
           ds == calls'
<1>6. /\ cs \in Seq(CallSet) /\ Priced(cs) /\ ds \in Seq(CallSet) /\ Priced(ds)
      /\ Len(ds) = Len(cs) /\ ds[c] = k /\ c \in DOMAIN cs
      /\ \A d \in DOMAIN cs : d # c => ds[d] = cs[d]
  BY <1>1, <1>2
<1>7. /\ oo = o - Owed(calls[c]) + Owed(k) /\ bb = b - MayBill(calls[c]) + MayBill(k)
      /\ ee = e - MayEverBill(calls[c]) + MayEverBill(k)
      /\ ss = s - HasPassed(calls[c]) + HasPassed(k)
  <2> HIDE DEF cs, ds
  <2>1. /\ Total(Owing(ds), Len(ds)) = Total(Owing(cs), Len(cs)) - Owed(cs[c]) + Owed(ds[c])
        /\ Total(Billing(ds), Len(ds))
             = Total(Billing(cs), Len(cs)) - MayBill(cs[c]) + MayBill(ds[c])
        /\ Total(EverBilling(ds), Len(ds))
             = Total(EverBilling(cs), Len(cs)) - MayEverBill(cs[c]) + MayEverBill(ds[c])
        /\ Total(Passed(ds), Len(ds))
             = Total(Passed(cs), Len(cs)) - HasPassed(cs[c]) + HasPassed(ds[c])
    BY <1>6, TurnTotals
  <2>2. QED
    BY <1>2, <2>1 DEF cs, ds
<1>8. /\ o \in Nat /\ oo \in Nat /\ b \in Nat /\ bb \in Nat /\ e \in Nat /\ ee \in Nat
      /\ s \in Nat /\ ss \in Nat /\ n \in Nat
  BY <1>1, <1>2, RowMeasures
<1>9. /\ AtOnce \in Nat /\ bb <= places
  <2>1. \A m \in Scene.running : Cardinality(Placed(calls', m)) <= Concurrency
    BY <1>0, <1>3 DEF PlaceInv
  <2>2. QED
    BY <1>1, <1>2, <2>1, RoomTotals
<1>10. Dearest \in Nat /\ MaxCalls \in Nat
  BY DearestPrice, AiAssumption
<1>11. places \in Nat /\ all \in Nat /\ allowed \in Nat
  <2>1. n \in Nat
    BY <1>8
  <2> HIDE DEF n
  <2>2. n * 2 * Dearest \in Nat /\ MaxCalls * 2 * Dearest \in Nat
        /\ AtOnce * 2 * Dearest \in Nat
    BY <1>9, <1>10, <2>1, TimesGrows
  <2>3. QED
    BY <2>2 DEF n
<1>12. /\ Owed(calls[c]) \in Nat /\ MayBill(calls[c]) \in Nat /\ MayEverBill(calls[c]) \in Nat
       /\ HasPassed(calls[c]) \in Nat
       /\ Owed(k) \in Nat /\ MayBill(k) \in Nat /\ MayEverBill(k) \in Nat /\ HasPassed(k) \in Nat
  <2>1. calls[c] \in CallSet /\ (calls[c].at = "paid" => calls[c].cost <= Dearest)
        /\ (k.at = "paid" => k.cost <= Dearest)
    BY <1>0, <1>1, <1>2 DEF Priced, CallOK
  <2>2. QED
    BY <2>1, CallMeasures
<1>13. /\ purse.day \in Nat /\ purse'.day \in Nat /\ strict.bill \in Nat /\ strict'.bill \in Nat
       /\ strict.peak \in Nat /\ strict'.peak \in Nat /\ strict.peak <= strict'.peak
       /\ strict.admitted \in Nat /\ strict'.admitted \in Nat
       /\ (strict.loose => strict'.loose)
  BY <1>0, <1>1 DEF Purse, Strict, Looser
<1>14. \/ strict'.loose
       \/ /\ strict.bill = purse.day + o /\ purse.day + e <= allowed
          /\ all <= strict.peak \/ purse.day + b <= Greater(strict.peak - 1, 0) + places
  BY <1>1, <1>13 DEF BillInv
<1>15. \/ strict'.loose
       \/ /\ strict'.bill = purse'.day + oo /\ purse'.day + ee <= allowed
          /\ all <= strict'.peak \/ purse'.day + bb <= Greater(strict'.peak - 1, 0) + places
  <2> SUFFICES ASSUME ~strict'.loose
               PROVE  /\ strict'.bill = purse'.day + oo /\ purse'.day + ee <= allowed
                      /\ \/ all <= strict'.peak
                         \/ purse'.day + bb <= Greater(strict'.peak - 1, 0) + places
    OBVIOUS
  <2>1. /\ strict'.bill + Owed(calls[c]) + purse.day = strict.bill + purse'.day + Owed(k)
        /\ purse'.day + MayEverBill(k) <= purse.day + MayEverBill(calls[c])
        /\ \/ purse'.day + MayBill(k) <= purse.day + MayBill(calls[c])
           \/ all <= strict'.peak
           \/ purse'.day < strict'.peak
    BY <1>0 DEF PaysFor
  <2> HIDE DEF n, o, oo, b, bb, e, ee, s, ss, places, all, allowed
  <2>2. strict'.bill = purse'.day + oo /\ purse'.day + ee <= allowed
    BY <1>7, <1>8, <1>11, <1>12, <1>13, <1>14, <2>1
  <2>3. CASE purse'.day + MayBill(k) <= purse.day + MayBill(calls[c])
    <3>1. all <= strict.peak => all <= strict'.peak
      BY <1>11, <1>13
    <3>2. Greater(strict.peak - 1, 0) <= Greater(strict'.peak - 1, 0)
          /\ Greater(strict.peak - 1, 0) \in Nat /\ Greater(strict'.peak - 1, 0) \in Nat
      BY <1>13 DEF Greater
    <3>3. bb = b - MayBill(calls[c]) + MayBill(k)
      BY <1>7
    <3>4. purse'.day + bb <= purse.day + b
      BY <1>8, <1>12, <1>13, <2>3, <3>3
    <3>5. QED
      BY <1>8, <1>11, <1>13, <1>14, <2>2, <3>1, <3>2, <3>4
  <2>4. CASE purse'.day < strict'.peak
    <3>1. Greater(strict'.peak - 1, 0) = strict'.peak - 1
      BY <1>13, <2>4 DEF Greater
    <3>2. QED
      BY <1>8, <1>9, <1>11, <1>13, <2>2, <2>4, <3>1
  <2>5. QED
    BY <2>1, <2>2, <2>3, <2>4
<1>16. BillInv'
  BY <1>2, <1>3, <1>15 DEF BillInv
<1>17. RateInv'
  <2>1. strict'.loose \/ strict.admitted <= s
    BY <1>1, <1>13 DEF RateInv
  <2>2. ss = s - HasPassed(calls[c]) + HasPassed(k)
    BY <1>7
  <2>3. strict'.loose
        \/ strict'.admitted + HasPassed(calls[c]) <= strict.admitted + HasPassed(k)
    BY <1>0 DEF AdmitsFor
  <2>4. strict'.loose \/ strict'.admitted <= ss
    <3> HIDE DEF n, s, ss
    <3> QED
      BY <1>8, <1>12, <1>13, <2>1, <2>2, <2>3
  <2>5. QED
    BY <1>0, <1>2, <2>4 DEF RateInv, AdmitsFor
<1>18. ShareInv'
  <2> SUFFICES ASSUME EnvLimits.actorCalls > 0, ~strict'.loose, Scene.edits = <<>>,
                      NEW p \in People
               PROVE  purse'.times[p] + Total(Counting(p, calls'), n)
                        <= EnvLimits.actorCalls - 1 + AtOnce * 2
    BY <1>2, <1>3 DEF ShareInv
  <2> DEFINE t == Total(Counting(p, calls), n)
             tt == Total(Counting(p, calls'), n)
  <2>1. t \in Nat /\ tt \in Nat
    BY <1>1, <1>2, RowMeasures
  <2>2. tt = t - MayCount(p, calls[c]) + MayCount(p, k)
    <3> HIDE DEF cs, ds
    <3>1. Total(Counting(p, ds), Len(ds))
            = Total(Counting(p, cs), Len(cs)) - MayCount(p, cs[c]) + MayCount(p, ds[c])
      BY <1>6, TurnCount
    <3>2. QED
      BY <1>2, <3>1 DEF cs, ds
  <2>3. tt <= AtOnce * 2
    <3>1. \A m \in Scene.running : Cardinality(Placed(calls', m)) <= Concurrency
      BY <1>0, <1>3 DEF PlaceInv
    <3>2. QED
      BY <1>1, <1>2, <3>1, RoomTotals
  <2>4. purse.times[p] + t <= EnvLimits.actorCalls - 1 + AtOnce * 2
    BY <1>1, <1>13 DEF ShareInv
  <2>5. EnvLimits.actorCalls \in Nat
    BY <1>1, EnvType, LimitsWhole
  <2>6. purse.times[p] \in Nat /\ purse'.times[p] \in Nat
    BY <1>0, <1>1 DEF Purse
  <2>7. MayCount(p, calls[c]) \in Nat /\ MayCount(p, k) \in Nat
    <3>1. calls[c] \in CallSet /\ (calls[c].at = "paid" => calls[c].cost <= Dearest)
          /\ (k.at = "paid" => k.cost <= Dearest)
      BY <1>0, <1>1, <1>2 DEF Priced, CallOK
    <3>2. QED
      BY <3>1, CallMeasures
  <2>8. \/ purse'.times[p] + MayCount(p, k) <= purse.times[p] + MayCount(p, calls[c])
        \/ purse'.times[p] <= EnvLimits.actorCalls - 1
    BY <1>0 DEF SharesFor
  <2>9. purse'.times[p] + tt <= EnvLimits.actorCalls - 1 + AtOnce * 2
    <3> HIDE DEF n, t, tt
    <3>1. CASE purse'.times[p] <= EnvLimits.actorCalls - 1
      BY <1>9, <2>1, <2>3, <2>5, <2>6, <3>1
    <3>2. CASE purse'.times[p] + MayCount(p, k) <= purse.times[p] + MayCount(p, calls[c])
      <4> DEFINE bound == EnvLimits.actorCalls - 1 + AtOnce * 2
      <4>1. bound \in Int /\ purse.times[p] + t <= bound
        BY <1>9, <2>4, <2>5
      <4> HIDE DEF bound
      <4>2. purse'.times[p] + tt <= bound
        <5> DEFINE x == MayCount(p, calls[c])
                   y == MayCount(p, k)
                   m == purse.times[p]
                   mm == purse'.times[p]
        <5>1. x \in Nat /\ y \in Nat /\ m \in Nat /\ mm \in Nat
          BY <2>6, <2>7
        <5>2. mm + y <= m + x /\ tt = t - x + y /\ m + t <= bound
          BY <2>2, <3>2, <4>1
        <5> HIDE DEF x, y, m, mm
        <5>3. mm + tt <= bound
          BY <2>1, <4>1, <5>1, <5>2
        <5>4. QED
          BY <5>3 DEF mm
      <4>3. QED
        BY <4>2 DEF bound
    <3>3. QED
      BY <2>8, <3>1, <3>2
  <2>10. QED
    BY <2>9
<1>19. QED
  BY <1>0, <1>2, <1>4, <1>5, <1>16, <1>17, <1>18 DEF SpendInv

-----------------------------------------------------------------------------
(* The handlers, one by one.                                                 *)

\* What the steps need to know of where they start.
LEMMA Known ==
  ASSUME SpendInv
  PROVE  /\ scene \in DOMAIN Scenes /\ calls \in Seq(CallSet) /\ Len(calls) <= MaxCalls
         /\ purse \in Purse /\ strict \in Strict /\ edits \in Seq(Bodies)
         /\ cached \in [Instances -> [limits : LimitSet, fresh : BOOLEAN]]
         /\ CallInv /\ DocInv /\ PlaceInv /\ BillInv /\ MineInv /\ RateInv /\ ShareInv
         /\ \A c \in DOMAIN calls : calls[c] \in CallSet /\ CallOK(calls[c], strict)
         /\ EnvLimits \in LimitSet /\ Enforced \in LimitSet
         /\ Scene.running \subseteq Instances
         /\ Dearest \in Nat /\ MaxCalls \in Nat /\ MaxCalls * 2 * Dearest \in Nat
<1>1. /\ scene \in DOMAIN Scenes /\ calls \in Seq(CallSet) /\ Len(calls) <= MaxCalls
      /\ purse \in Purse /\ strict \in Strict /\ edits \in Seq(Bodies)
      /\ cached \in [Instances -> [limits : LimitSet, fresh : BOOLEAN]]
      /\ CallInv /\ DocInv /\ PlaceInv /\ BillInv /\ MineInv /\ RateInv /\ ShareInv
  BY DEF SpendInv, AiTypeOK
<1>2. \A c \in DOMAIN calls : calls[c] \in CallSet /\ CallOK(calls[c], strict)
  BY <1>1 DEF CallInv
<1>3. EnvLimits \in LimitSet /\ Enforced \in LimitSet
  BY <1>1, EnvType
<1>4. Scene.running \subseteq Instances
  BY <1>1, AiAssumption DEF Scene
<1>5. Dearest \in Nat /\ MaxCalls \in Nat
  BY DearestPrice, AiAssumption
<1>6. MaxCalls * 2 * Dearest \in Nat
  BY <1>5, TimesGrows
<1>7. QED
  BY <1>1, <1>2, <1>3, <1>4, <1>5, <1>6

\* A step that only moves a call which owes and may bill no more than before.
Eased(j, k) ==
  /\ Owed(k) = Owed(j) /\ MayBill(k) <= MayBill(j) /\ MayEverBill(k) <= MayEverBill(j)
  /\ HasPassed(j) <= HasPassed(k) /\ \A p \in People : MayCount(p, k) <= MayCount(p, j)

LEMMA EasyStep ==
  ASSUME SpendInv, NEW c \in DOMAIN calls, NEW k \in CallSet,
         scene' = scene, asks' \in Seq(Ask), UNCHANGED <<purse, doc, edits, cached, strict>>,
         calls' = [calls EXCEPT ![c] = k], k.by = calls[c].by, CallOK(k, strict),
         \/ k.at \in {"ok", "failed"}
         \/ calls[c].at \notin {"sent", "ok", "failed"},
         Eased(calls[c], k)
  PROVE  SpendInv'
<1>1. /\ calls[c] \in CallSet /\ CallOK(calls[c], strict) /\ purse \in Purse
      /\ strict \in Strict /\ DocInv /\ MineInv /\ RateInv
      /\ cached \in [Instances -> [limits : LimitSet, fresh : BOOLEAN]]
  BY Known
<1>2. /\ Owed(calls[c]) \in Nat /\ MayBill(calls[c]) \in Nat /\ MayEverBill(calls[c]) \in Nat
      /\ HasPassed(calls[c]) \in Nat /\ \A p : MayCount(p, calls[c]) \in Nat
      /\ Owed(k) \in Nat /\ MayBill(k) \in Nat /\ MayEverBill(k) \in Nat
      /\ HasPassed(k) \in Nat /\ \A p : MayCount(p, k) \in Nat
  <2>1. (calls[c].at = "paid" => calls[c].cost <= Dearest) /\ (k.at = "paid" => k.cost <= Dearest)
    BY <1>1 DEF CallOK
  <2>2. QED
    BY <1>1, <2>1, CallMeasures
<1>3. Looser(strict, strict) /\ strict' = strict /\ purse' = purse
  BY <1>1 DEF Looser, Strict
<1>4. purse.day \in Nat /\ strict.bill \in Nat /\ strict.admitted \in Nat
      /\ \A p \in People : purse.times[p] \in Nat
  BY <1>1 DEF Purse, Strict
<1>5. PaysFor(calls[c], k)
  <2>1. /\ Owed(k) = Owed(calls[c]) /\ MayBill(k) <= MayBill(calls[c])
        /\ MayEverBill(k) <= MayEverBill(calls[c])
    BY DEF Eased
  <2>2. purse.day + MayEverBill(k) <= purse.day + MayEverBill(calls[c])
    BY <1>2, <1>4, <2>1
  <2>3. purse.day + MayBill(k) <= purse.day + MayBill(calls[c])
    BY <1>2, <1>4, <2>1
  <2>4. strict.bill + Owed(calls[c]) + purse.day = strict.bill + purse.day + Owed(k)
    BY <1>2, <1>4, <2>1
  <2>5. QED
    BY <1>3, <2>2, <2>3, <2>4 DEF PaysFor
<1>6. AdmitsFor(calls[c], k)
  BY <1>1, <1>2, <1>3, <1>4 DEF AdmitsFor, RateInv, Eased
<1>7. SharesFor(calls[c], k)
  BY <1>2, <1>3, <1>4 DEF SharesFor, Eased
<1>8. PlaceInv'
  <2>1. strict' \in Strict /\ Looser(strict, strict') /\ CallOK(k, strict')
    BY <1>1, <1>3
  <2>2. QED
    BY <2>1, OneGoesOn
<1>9. MineInv'
  BY <1>1, <1>3 DEF MineInv
<1>10. Scene.edits = <<>> => \A n \in Instances : cached'[n].limits = EnvLimits
  BY <1>1 DEF DocInv
<1>11. GoesOn(c, k)
  BY <1>1, <1>3, <1>5, <1>6, <1>7, <1>8, <1>9, <1>10 DEF GoesOn
<1>12. QED
  BY <1>11, OneStep

\* No route, a provider that fails: the call is over.
LEMMA OverKeeps ==
  ASSUME SpendInv, NEW c \in DOMAIN calls, scene' = scene, asks' \in Seq(Ask),
         UNCHANGED <<purse, doc, edits, cached, strict>>,
         calls[c].at # "paid", Becomes(c, "failed")
  PROVE  SpendInv'
<1> DEFINE k == [calls[c] EXCEPT !.at = "failed"]
<1>1. /\ calls[c] \in CallSet /\ CallOK(calls[c], strict)
  BY Known
<1>2. k \in CallSet /\ k.at = "failed" /\ k.by = calls[c].by /\ k.who = calls[c].who
  BY <1>1 DEF CallSet, CallStages
<1>3. calls' = [calls EXCEPT ![c] = k]
  BY DEF Becomes
<1>4. (calls[c].at = "paid" => calls[c].cost <= Dearest)
  BY <1>1 DEF CallOK
<1> HIDE DEF k
<1>5. /\ Owed(calls[c]) = 0 /\ MayBill(calls[c]) \in Nat /\ MayEverBill(calls[c]) \in Nat
      /\ \A p : MayCount(p, calls[c]) \in Nat
      /\ HasPassed(calls[c]) \in Nat /\ HasPassed(calls[c]) <= 1
  BY <1>1, <1>4, CallMeasures DEF Owed
<1>6. /\ Owed(k) = 0 /\ MayBill(k) = 0 /\ MayEverBill(k) = 0 /\ HasPassed(k) = 1
      /\ \A p : MayCount(p, k) = 0
  BY <1>2 DEF Owed, MayBill, MayEverBill, HasPassed, MayCount
<1>7. Eased(calls[c], k)
  BY <1>5, <1>6 DEF Eased
<1>8. CallOK(k, strict)
  BY <1>2 DEF CallOK
<1>9. QED
  BY <1>2, <1>3, <1>7, <1>8, EasyStep

\* The budget is looked at.
LEMMA ReadSpendKeeps ==
  ASSUME SpendInv, NEW c \in DOMAIN calls, ReadSpend(c), scene' = scene, asks' \in Seq(Ask)
  PROVE  SpendInv'
<1> DEFINE l == calls[c].limits
           k == [calls[c] EXCEPT !.at = "slot",
                                 !.spent = [day |-> purse.day, month |-> purse.month]]
<1>1. /\ calls[c] \in CallSet /\ CallOK(calls[c], strict) /\ purse \in Purse
      /\ strict \in Strict /\ DocInv /\ MineInv /\ RateInv
      /\ cached \in [Instances -> [limits : LimitSet, fresh : BOOLEAN]]
      /\ EnvLimits \in LimitSet /\ MaxCalls * 2 * Dearest \in Nat
  BY Known
<1>2. calls[c].at = "spend" /\ UNCHANGED <<purse, doc, edits, cached, strict>>
  BY DEF ReadSpend, Call
<1>3. CASE Exhausted(l, calls[c].who)
  <2>1. Becomes(c, "failed")
    BY <1>3 DEF ReadSpend
  <2>2. QED
    BY <1>2, <2>1, OverKeeps
<1>4. CASE ~Exhausted(l, calls[c].who)
  <2>1. calls' = [calls EXCEPT ![c] = k]
    BY <1>4 DEF ReadSpend
  <2>2. purse.day \in Nat /\ purse.month \in Nat /\ purse.minute \in Nat
        /\ strict.bill \in Nat /\ strict.admitted \in Nat /\ strict.peak \in Nat
        /\ \A p \in People : purse.times[p] \in Nat
    BY <1>1 DEF Purse, Strict
  <2>3. /\ k \in CallSet /\ k.at = "slot" /\ k.by = calls[c].by /\ k.who = calls[c].who
        /\ k.limits = l /\ k.again = calls[c].again
    BY <1>1, <2>2 DEF CallSet, CallStages, SpentSoFar
  <2> HIDE DEF k
  <2>4. CallOK(k, strict) /\ ~calls[c].again /\ l \in LimitSet
        /\ (Scene.edits = <<>> => l = EnvLimits)
        /\ \/ strict.loose
           \/ /\ l.daily = 0 => MaxCalls * 2 * Dearest <= strict.peak
              /\ l.daily <= strict.peak
    BY <1>1, <1>2, <2>3 DEF CallOK
  <2>5. Looser(strict, strict) /\ strict' = strict /\ purse' = purse
    BY <1>1, <1>2 DEF Looser, Strict
  <2>6. /\ Owed(calls[c]) = 0 /\ MayBill(calls[c]) = 0 /\ MayEverBill(calls[c]) = 2 * Dearest
        /\ HasPassed(calls[c]) = 0 /\ \A p : MayCount(p, calls[c]) = 0
    BY <1>2 DEF Owed, MayBill, MayEverBill, HasPassed, MayCount
  <2>7. /\ Owed(k) = 0 /\ MayBill(k) = 2 * Dearest /\ MayEverBill(k) = 2 * Dearest
        /\ HasPassed(k) = 0
        /\ \A p : MayCount(p, k) = IF k.who # p \/ p = Nothing THEN 0 ELSE 2
    BY <2>3 DEF Owed, MayBill, MayEverBill, HasPassed, MayCount
  <2>8. Dearest \in Nat
    BY DearestPrice
  <2>9. l.daily \in Nat /\ l.actorCalls \in Nat
    BY <2>4, LimitsWhole
  <2>10. PaysFor(calls[c], k)
    <3>1. l.daily > 0 => purse.day < l.daily
      BY <1>4, <2>2, <2>9 DEF Exhausted
    <3>2. \/ strict.loose \/ MaxCalls * 2 * Dearest <= strict.peak
          \/ purse.day < strict.peak
      BY <2>2, <2>4, <2>9, <3>1
    <3>3. QED
      BY <2>2, <2>5, <2>6, <2>7, <2>8, <3>2 DEF PaysFor
  <2>11. AdmitsFor(calls[c], k)
    BY <1>1, <2>2, <2>5, <2>6, <2>7 DEF AdmitsFor, RateInv
  <2>12. SharesFor(calls[c], k)
    <3> SUFFICES ASSUME EnvLimits.actorCalls > 0, Scene.edits = <<>>, NEW p \in People
                 PROVE  \/ purse.times[p] + MayCount(p, k)
                             <= purse.times[p] + MayCount(p, calls[c])
                        \/ purse.times[p] <= EnvLimits.actorCalls - 1
      BY <2>5 DEF SharesFor
    <3>1. CASE k.who # p \/ p = Nothing
      BY <2>2, <2>6, <2>7, <3>1
    <3>2. CASE k.who = p /\ p # Nothing
      <4>1. l = EnvLimits /\ calls[c].who = p
        BY <2>3, <2>4, <3>2
      <4>2. ~(purse.times[p] >= l.actorCalls)
        BY <1>4, <3>2, <4>1 DEF Exhausted, ShareExhausted
      <4>3. purse.times[p] <= EnvLimits.actorCalls - 1
        BY <2>2, <2>9, <4>1, <4>2
      <4>4. QED
        BY <4>3
    <3>3. QED
      BY <3>1, <3>2
  <2>13. PlaceInv'
    BY <1>2, <2>1, <2>3, <2>4, <2>5, <1>1, OneGoesOn
  <2>14. MineInv'
    BY <1>1, <2>5 DEF MineInv
  <2>15. Scene.edits = <<>> => \A n \in Instances : cached'[n].limits = EnvLimits
    BY <1>1, <1>2 DEF DocInv
  <2>16. GoesOn(c, k)
    BY <1>1, <1>2, <2>1, <2>3, <2>4, <2>5, <2>10, <2>11, <2>12, <2>13, <2>14, <2>15 DEF GoesOn
  <2>17. QED
    BY <2>3, <2>16, OneStep
<1>5. QED
  BY <1>3, <1>4

\* A call is given its place and its limits.
LEMMA BeginKeeps ==
  ASSUME SpendInv, NEW c \in DOMAIN calls, Begin(c), scene' = scene, asks' \in Seq(Ask)
  PROVE  SpendInv'
<1> DEFINE at_ == IF cached'[calls[c].by].limits.enabled THEN "spend" ELSE "admitted"
           n == calls[c].by
           l == cached'[n].limits
           k == [calls[c] EXCEPT !.limits = l, !.at = at_]
<1>1. /\ calls[c] \in CallSet /\ CallOK(calls[c], strict) /\ purse \in Purse
      /\ strict \in Strict /\ DocInv /\ MineInv /\ RateInv /\ PlaceInv
      /\ cached \in [Instances -> [limits : LimitSet, fresh : BOOLEAN]]
      /\ EnvLimits \in LimitSet /\ Enforced \in LimitSet
      /\ MaxCalls \in Nat /\ Dearest \in Nat /\ MaxCalls * 2 * Dearest \in Nat
      /\ Scene.running \subseteq Instances /\ calls \in Seq(CallSet)
  BY Known
<1>2. /\ calls[c].at = "sent" /\ UNCHANGED <<purse, doc, edits>>
      /\ Cardinality(InPlace(n)) < Concurrency
      /\ \/ cached' = cached
         \/ cached' = [cached EXCEPT ![n] = [limits |-> Enforced, fresh |-> TRUE]]
         \/ doc # Nothing /\ cached' = [cached EXCEPT ![n] = [limits |-> EnvLimits, fresh |-> TRUE]]
      /\ calls' = [calls EXCEPT ![c].limits = l, ![c].at = at_]
  BY DEF Begin, Call
<1>3. strict' = [strict EXCEPT
                   !.loose = strict.loose \/ ~l.enabled,
                   !.peak = Greater(strict.peak, IF l.daily = 0 THEN MaxCalls * 2 * Dearest
                                                 ELSE l.daily),
                   !.most = Greater(strict.most, IF l.rpm = 0 THEN MaxCalls ELSE l.rpm)]
  BY DEF Begin
<1>4. n \in Scene.running /\ n \in Instances
  BY <1>1 DEF CallSet
<1>5. /\ cached' \in [Instances -> [limits : LimitSet, fresh : BOOLEAN]] /\ l \in LimitSet
      /\ Scene.edits = <<>> => \A m \in Instances : cached'[m].limits = EnvLimits
  <2>1. Scene.edits = <<>> => doc = Nothing /\ Enforced = EnvLimits
    BY <1>1 DEF DocInv, Enforced
  <2>2. Scene.edits = <<>> => \A m \in Instances : cached[m].limits = EnvLimits
    BY <1>1 DEF DocInv
  <2>3. PICK e \in LimitSet :
          /\ cached' = cached \/ cached' = [cached EXCEPT ![n] = [limits |-> e, fresh |-> TRUE]]
          /\ Scene.edits = <<>> => e = EnvLimits
    BY <1>1, <1>2, <2>1
  <2>4. cached' \in [Instances -> [limits : LimitSet, fresh : BOOLEAN]]
        /\ (Scene.edits = <<>> => \A m \in Instances : cached'[m].limits = EnvLimits)
    <3> HIDE DEF n, l, at_, k
    <3>1. CASE cached' = cached
      BY <1>1, <2>2, <3>1
    <3>2. CASE cached' = [cached EXCEPT ![n] = [limits |-> e, fresh |-> TRUE]]
      <4>1. [limits |-> e, fresh |-> TRUE] \in [limits : LimitSet, fresh : BOOLEAN]
        OBVIOUS
      <4>2. \A m \in Instances : cached'[m] = IF m = n THEN [limits |-> e, fresh |-> TRUE]
                                                ELSE cached[m]
        BY <1>1, <3>2
      <4>3. cached' \in [Instances -> [limits : LimitSet, fresh : BOOLEAN]]
        BY <1>1, <3>2, <4>1
      <4>4. QED
        BY <2>2, <2>3, <4>2, <4>3
    <3>3. QED
      BY <2>3, <3>1, <3>2
  <2>5. l \in LimitSet
    BY <1>4, <2>4
  <2>6. QED
    BY <2>4, <2>5
<1>6. l.daily \in Nat /\ l.rpm \in Nat /\ l.enabled \in BOOLEAN
  BY <1>5, LimitsWhole
<1>7. calls' = [calls EXCEPT ![c] = k]
  BY <1>1, <1>2
<1>8. k \in CallSet /\ k.at = at_ /\ k.by = n /\ k.who = calls[c].who /\ k.limits = l
      /\ k.again = calls[c].again
  <2>1. at_ \in CallStages
    BY DEF CallStages
  <2> HIDE DEF at_, l
  <2>2. QED
    BY <1>1, <1>5, <2>1 DEF CallSet
<1> HIDE DEF k, l, n
<1>9. /\ strict' \in Strict /\ Looser(strict, strict') /\ strict'.bill = strict.bill
      /\ strict'.admitted = strict.admitted
      /\ strict'.loose \/ l.enabled
      /\ l.daily = 0 => MaxCalls * 2 * Dearest <= strict'.peak
      /\ l.daily <= strict'.peak
      /\ l.rpm = 0 => MaxCalls <= strict'.most
      /\ l.rpm <= strict'.most
  <2> DEFINE top == IF l.daily = 0 THEN MaxCalls * 2 * Dearest ELSE l.daily
             rate == IF l.rpm = 0 THEN MaxCalls ELSE l.rpm
             peak_ == Greater(strict.peak, top)
             most_ == Greater(strict.most, rate)
  <2>1. top \in Nat /\ rate \in Nat /\ strict.peak \in Nat /\ strict.most \in Nat
        /\ strict.bill \in Nat /\ strict.admitted \in Nat /\ strict.loose \in BOOLEAN
    BY <1>1, <1>6 DEF Strict
  <2>2. /\ l.daily = 0 => top = MaxCalls * 2 * Dearest
        /\ l.daily # 0 => top = l.daily
        /\ l.rpm = 0 => rate = MaxCalls
        /\ l.rpm # 0 => rate = l.rpm
    OBVIOUS
  <2> HIDE DEF top, rate
  <2>3. peak_ \in Nat /\ most_ \in Nat /\ strict.peak <= peak_ /\ strict.most <= most_
        /\ top <= peak_ /\ rate <= most_
    BY <2>1 DEF Greater
  <2>4. strict' = [strict EXCEPT !.loose = strict.loose \/ ~l.enabled, !.peak = peak_,
                                 !.most = most_]
    BY <1>3 DEF top, rate
  <2> HIDE DEF peak_, most_
  <2>5. /\ strict'.loose = (strict.loose \/ ~l.enabled) /\ strict'.peak = peak_
        /\ strict'.most = most_ /\ strict'.bill = strict.bill
        /\ strict'.admitted = strict.admitted
        /\ strict' \in Strict
    BY <1>1, <1>6, <2>1, <2>3, <2>4 DEF Strict
  <2>6. /\ l.daily = 0 => MaxCalls * 2 * Dearest <= strict'.peak
        /\ l.rpm = 0 => MaxCalls <= strict'.most
    BY <2>2, <2>3, <2>5
  <2>7. l.daily <= strict'.peak /\ l.rpm <= strict'.most
    BY <1>6, <2>1, <2>2, <2>3, <2>5
  <2>8. Looser(strict, strict')
    BY <2>3, <2>5 DEF Looser
  <2>9. QED
    BY <1>6, <2>5, <2>6, <2>7, <2>8
<1>10. l.enabled <=> at_ = "spend"
  BY DEF l, n
<1>11. ~calls[c].again
  BY <1>1, <1>2 DEF CallOK
<1>12. CallOK(k, strict')
  <2>1. k.at = "spend" \/ k.at = "admitted"
    BY <1>8
  <2>2. Scene.edits = <<>> => l = EnvLimits
    BY <1>4, <1>5 DEF l
  <2>3. QED
    BY <1>5, <1>8, <1>9, <1>11, <2>1, <2>2 DEF CallOK
<1>13. PlaceInv'
  <2> SUFFICES ASSUME NEW m \in Scene.running
               PROVE  Cardinality(Placed(calls', m)) <= Concurrency
    BY SceneTells DEF PlaceInv
  <2>1. \A i : Placed(calls', i) \subseteq Placed(calls, i) \cup {c}
    BY <1>7, <1>8, <1>9, <1>12, OneGoesOn DEF n
  <2>2. CASE m = n
    <3> DEFINE S == Placed(calls, n)
    <3>1. IsFiniteSet(S) /\ Cardinality(S) \in Nat /\ Cardinality(S) < Concurrency
      BY <1>1, <1>2, PlacedFinite DEF Placed, InPlace
    <3> HIDE DEF S
    <3>2. IsFiniteSet(S \cup {c}) /\ Cardinality(S \cup {c}) <= Concurrency
      <4>1. Cardinality(S \cup {c}) = IF c \in S THEN Cardinality(S) ELSE Cardinality(S) + 1
        BY <3>1, FS_AddElement
      <4>2. Concurrency \in Nat
        BY AiAssumption
      <4>3. QED
        BY <3>1, <4>1, <4>2, FS_AddElement
    <3>3. Placed(calls', m) \in SUBSET (S \cup {c})
      BY <2>1, <2>2 DEF S
    <3>4. QED
      BY <3>2, <3>3, FewerFit
  <2>3. CASE m # n
    <3>1. Placed(calls', m) \in SUBSET Placed(calls, m)
      BY <1>1, <1>7, <1>8, <2>3 DEF Placed
    <3>2. IsFiniteSet(Placed(calls, m)) /\ Cardinality(Placed(calls, m)) <= Concurrency
      BY <1>1, PlacedFinite DEF PlaceInv
    <3>3. QED
      BY <3>1, <3>2, FewerFit
  <2>4. QED
    BY <2>2, <2>3
<1>14. MineInv'
  BY <1>1, <1>2 DEF MineInv
<1>15. purse' = purse /\ purse.day \in Nat /\ strict.bill \in Nat /\ strict.admitted \in Nat
       /\ strict.most \in Nat /\ strict'.most \in Nat /\ purse.minute \in Nat
       /\ \A p \in People : purse.times[p] \in Nat
  BY <1>1, <1>2, <1>9 DEF Purse, Strict
<1>16. /\ Owed(calls[c]) = 0 /\ MayBill(calls[c]) = 0 /\ MayEverBill(calls[c]) = 2 * Dearest
       /\ HasPassed(calls[c]) = 0 /\ \A p : MayCount(p, calls[c]) = 0
  BY <1>2 DEF Owed, MayBill, MayEverBill, HasPassed, MayCount
<1>17. k.at = "spend" =>
       /\ Owed(k) = 0 /\ MayBill(k) = 0 /\ MayEverBill(k) = 2 * Dearest
       /\ HasPassed(k) = 0 /\ \A p : MayCount(p, k) = 0
  BY DEF Owed, MayBill, MayEverBill, HasPassed, MayCount
<1>18. strict'.loose \/ k.at = "spend"
  BY <1>8, <1>9, <1>10
<1>19. PaysFor(calls[c], k)
  BY <1>1, <1>9, <1>15, <1>16, <1>17, <1>18 DEF PaysFor
<1>20. AdmitsFor(calls[c], k)
  <2>1. strict.most <= strict'.most /\ (strict.loose => strict'.loose)
    BY <1>9 DEF Looser
  <2>2. QED
    BY <1>1, <1>9, <1>15, <1>16, <1>17, <1>18, <2>1 DEF AdmitsFor, RateInv
<1>21. SharesFor(calls[c], k)
  BY <1>15, <1>16, <1>17, <1>18 DEF SharesFor
<1>22. GoesOn(c, k)
  BY <1>1, <1>2, <1>5, <1>7, <1>8, <1>9, <1>12, <1>13, <1>14, <1>15, <1>19, <1>20, <1>21
     DEF GoesOn, n
<1>23. QED
  BY <1>8, <1>22, OneStep

\* A slot of the minute is taken, and compared.
LEMMA TakeSlotKeeps ==
  ASSUME SpendInv, NEW c \in DOMAIN calls, TakeSlot(c), scene' = scene, asks' \in Seq(Ask)
  PROVE  SpendInv'
<1> DEFINE l == calls[c].limits
           count == purse.minute + 1
           admit == l.rpm = 0 \/ count <= l.rpm
           at_ == IF admit THEN "admitted" ELSE "failed"
           k == [calls[c] EXCEPT !.at = at_, !.tier = Tiered(calls[c])]
<1>1. /\ calls[c] \in CallSet /\ CallOK(calls[c], strict) /\ purse \in Purse
      /\ strict \in Strict /\ DocInv /\ MineInv /\ RateInv
      /\ cached \in [Instances -> [limits : LimitSet, fresh : BOOLEAN]]
      /\ EnvLimits \in LimitSet /\ MaxCalls \in Nat /\ Dearest \in Nat
      /\ calls \in Seq(CallSet)
  BY Known
<1>2. /\ calls[c].at = "slot" /\ UNCHANGED <<doc, edits, cached>>
      /\ purse' = (IF l.rpm > 0 THEN [purse EXCEPT !.minute = count] ELSE purse)
      /\ strict' = [strict EXCEPT !.admitted = strict.admitted + IF admit THEN 1 ELSE 0]
      /\ calls' = [calls EXCEPT ![c].at = at_, ![c].tier = Tiered(calls[c])]
  BY DEF TakeSlot, Call
<1>3. calls' = [calls EXCEPT ![c] = k]
  BY <1>1, <1>2
<1>4. l \in LimitSet /\ ~calls[c].again
      /\ (\/ strict.loose
          \/ (l.rpm = 0 => MaxCalls <= strict.most) /\ l.rpm <= strict.most)
  BY <1>1, <1>2 DEF CallOK
<1>5. l.rpm \in Nat
  BY <1>4, LimitsWhole
<1>6. /\ purse.day \in Nat /\ purse.minute \in Nat /\ strict.bill \in Nat
      /\ strict.admitted \in Nat /\ strict.most \in Nat /\ strict.peak \in Nat
      /\ \A p \in People : purse.times[p] \in Nat
  BY <1>1 DEF Purse, Strict
<1>7. /\ purse' \in Purse /\ purse'.day = purse.day /\ purse'.times = purse.times
      /\ purse'.mine = purse.mine
      /\ purse'.minute = IF l.rpm > 0 THEN purse.minute + 1 ELSE purse.minute
  <2>1. count \in Nat
    BY <1>6
  <2>2. CASE l.rpm > 0
    <3>1. purse' = [purse EXCEPT !.minute = count]
      BY <1>2, <2>2
    <3> HIDE DEF count
    <3>2. /\ purse' \in Purse /\ purse'.day = purse.day /\ purse'.times = purse.times
          /\ purse'.mine = purse.mine /\ purse'.minute = count
      BY <1>1, <2>1, <3>1 DEF Purse
    <3>3. QED
      BY <2>2, <3>2 DEF count
  <2>3. CASE ~(l.rpm > 0)
    BY <1>1, <1>2, <2>3
  <2>4. QED
    BY <2>2, <2>3
<1>8. /\ strict' \in Strict /\ Looser(strict, strict') /\ strict'.bill = strict.bill
      /\ strict'.loose = strict.loose /\ strict'.most = strict.most
      /\ strict'.peak = strict.peak
      /\ strict'.admitted = strict.admitted + (IF admit THEN 1 ELSE 0)
  <2> DEFINE more == strict.admitted + (IF admit THEN 1 ELSE 0)
  <2>1. more \in Nat
    BY <1>6
  <2>2. strict' = [strict EXCEPT !.admitted = more]
    BY <1>2
  <2> HIDE DEF more
  <2>3. /\ strict' \in Strict /\ strict'.bill = strict.bill
        /\ strict'.loose = strict.loose /\ strict'.most = strict.most
        /\ strict'.peak = strict.peak /\ strict'.admitted = more
    BY <1>1, <2>1, <2>2 DEF Strict
  <2>4. QED
    BY <1>6, <2>3 DEF Looser, more
<1>9. /\ k \in CallSet /\ k.at = at_ /\ k.by = calls[c].by /\ k.who = calls[c].who
      /\ k.again = calls[c].again
  <2>1. at_ \in CallStages
    BY DEF CallStages
  <2>2. Tiered(calls[c]) \in {"hot", "warm", "system"} \cup AskTiers
    BY <1>1 DEF Tiered, CallSet
  <2> HIDE DEF at_
  <2>3. QED
    BY <1>1, <2>1, <2>2 DEF CallSet
<1>10. at_ = "admitted" \/ at_ = "failed"
  OBVIOUS
<1>11. (admit <=> k.at = "admitted") /\ (k.at = "admitted" \/ k.at = "failed")
  BY <1>9
<1> HIDE DEF k, l, at_
<1>12. CallOK(k, strict')
  BY <1>9, <1>10, <1>4 DEF CallOK
<1>13. PlaceInv'
  BY <1>2, <1>3, <1>8, <1>9, <1>12, OneGoesOn
<1>14. /\ Owed(calls[c]) = 0 /\ MayBill(calls[c]) = 2 * Dearest
       /\ MayEverBill(calls[c]) = 2 * Dearest /\ HasPassed(calls[c]) = 0
       /\ \A p : MayCount(p, calls[c]) = IF calls[c].who # p \/ p = Nothing THEN 0 ELSE 2
  BY <1>2 DEF Owed, MayBill, MayEverBill, HasPassed, MayCount
<1>15. /\ Owed(k) = 0 /\ HasPassed(k) = 1
       /\ MayEverBill(k) = MayBill(k)
       /\ MayBill(k) = (IF k.at = "admitted" THEN 2 * Dearest ELSE 0)
       /\ \A p : MayCount(p, k) = IF k.who # p \/ p = Nothing \/ k.at = "failed" THEN 0 ELSE 2
  BY <1>4, <1>9, <1>11 DEF Owed, MayBill, MayEverBill, HasPassed, MayCount
<1>16. MineInv'
  BY <1>1, <1>7 DEF MineInv
<1>17. Scene.edits = <<>> => \A n \in Instances : cached'[n].limits = EnvLimits
  BY <1>1, <1>2 DEF DocInv
<1>18. PaysFor(calls[c], k)
  BY <1>1, <1>6, <1>7, <1>8, <1>14, <1>15 DEF PaysFor
<1>19. AdmitsFor(calls[c], k)
  <2> SUFFICES ASSUME ~strict.loose
               PROVE  /\ strict'.admitted + HasPassed(calls[c]) <= strict.admitted + HasPassed(k)
                      /\ \/ MaxCalls <= strict'.most
                         \/ strict'.admitted <= purse'.minute /\ strict'.admitted <= strict'.most
    BY <1>8 DEF AdmitsFor
  <2>1. strict'.admitted + HasPassed(calls[c]) <= strict.admitted + HasPassed(k)
    BY <1>6, <1>8, <1>14, <1>15
  <2>2. \/ MaxCalls <= strict.most
        \/ strict.admitted <= purse.minute /\ strict.admitted <= strict.most
    <3>1. RateInv /\ ~strict.loose
      BY <1>1
    <3>2. QED
      BY <3>1 DEF RateInv
  <2>3. CASE MaxCalls <= strict.most
    BY <1>8, <2>1, <2>3
  <2>4. CASE strict.admitted <= purse.minute /\ strict.admitted <= strict.most /\ l.rpm > 0
    BY <1>4, <1>5, <1>6, <1>7, <1>8, <2>1, <2>4
  <2>5. CASE l.rpm = 0
    BY <1>4, <1>8, <2>1, <2>5
  <2>6. QED
    BY <1>5, <2>2, <2>3, <2>4, <2>5
<1>20. SharesFor(calls[c], k)
  BY <1>6, <1>7, <1>9, <1>14, <1>15 DEF SharesFor
<1>21. GoesOn(c, k)
  BY <1>2, <1>3, <1>1, <1>7, <1>8, <1>9, <1>12, <1>13, <1>16, <1>17, <1>18, <1>19, <1>20
     DEF GoesOn
<1>22. QED
  BY <1>9, <1>21, OneStep

\* Nobody is stopped when the counters cannot be read: from here on nothing is
\* promised of the day.
LEMMA PassesUncheckedKeeps ==
  ASSUME SpendInv, NEW c \in DOMAIN calls, PassesUnchecked(c), scene' = scene,
         asks' \in Seq(Ask)
  PROVE  SpendInv'
<1> DEFINE k == [calls[c] EXCEPT !.at = "admitted"]
<1>1. /\ calls[c] \in CallSet /\ CallOK(calls[c], strict) /\ purse \in Purse
      /\ strict \in Strict /\ DocInv /\ MineInv
      /\ cached \in [Instances -> [limits : LimitSet, fresh : BOOLEAN]]
  BY Known
<1>2. /\ calls[c].at \in {"spend", "slot"} /\ UNCHANGED <<purse, doc, edits, cached>>
      /\ strict' = [strict EXCEPT !.loose = TRUE] /\ calls' = [calls EXCEPT ![c] = k]
  BY DEF PassesUnchecked, Becomes
<1>3. strict' \in Strict /\ Looser(strict, strict') /\ strict'.loose
  <2>1. /\ strict' \in Strict /\ strict'.loose = TRUE /\ strict'.peak = strict.peak
        /\ strict'.most = strict.most /\ strict.peak \in Nat /\ strict.most \in Nat
    BY <1>1, <1>2 DEF Strict
  <2>2. QED
    BY <2>1 DEF Looser
<1>4. /\ k \in CallSet /\ k.at = "admitted" /\ k.by = calls[c].by
  BY <1>1 DEF CallSet, CallStages
<1> HIDE DEF k
<1>5. CallOK(k, strict')
  BY <1>4 DEF CallOK
<1>6. PlaceInv'
  BY <1>2, <1>3, <1>4, <1>5, OneGoesOn
<1>7. MineInv'
  BY <1>1, <1>2 DEF MineInv
<1>8. Scene.edits = <<>> => \A n \in Instances : cached'[n].limits = EnvLimits
  BY <1>1, <1>2 DEF DocInv
<1>9. PaysFor(calls[c], k) /\ AdmitsFor(calls[c], k) /\ SharesFor(calls[c], k)
  BY <1>3 DEF PaysFor, AdmitsFor, SharesFor
<1>10. GoesOn(c, k)
  BY <1>1, <1>2, <1>3, <1>4, <1>5, <1>6, <1>7, <1>8, <1>9 DEF GoesOn
<1>11. QED
  BY <1>4, <1>10, OneStep

\* The provider answers, and has its price.
LEMMA CompleteKeeps ==
  ASSUME SpendInv, NEW c \in DOMAIN calls, Complete(c), scene' = scene, asks' \in Seq(Ask)
  PROVE  SpendInv'
<1>1. /\ calls[c] \in CallSet /\ CallOK(calls[c], strict) /\ purse \in Purse
      /\ strict \in Strict /\ DocInv /\ MineInv /\ RateInv
      /\ cached \in [Instances -> [limits : LimitSet, fresh : BOOLEAN]]
      /\ Dearest \in Nat /\ calls \in Seq(CallSet)
  BY Known
<1>2. PICK cost \in Price[calls[c].tier] :
        /\ calls' = [calls EXCEPT ![c].at = "paid", ![c].cost = cost]
        /\ strict' = [strict EXCEPT !.bill = strict.bill + cost]
  BY DEF Complete
<1>3. /\ calls[c].at = "admitted" /\ calls[c].tier \in Routed
      /\ UNCHANGED <<purse, doc, edits, cached>>
  BY DEF Complete, Call
<1>4. cost \in Nat /\ cost <= Dearest
  BY <1>2, <1>3, DearestPrice, AiAssumption
<1> DEFINE k == [calls[c] EXCEPT !.at = "paid", !.cost = cost]
<1>5. calls' = [calls EXCEPT ![c] = k]
  BY <1>1, <1>2
<1>6. /\ k \in CallSet /\ k.at = "paid" /\ k.cost = cost /\ k.by = calls[c].by
      /\ k.who = calls[c].who /\ k.again = calls[c].again /\ k.again \in BOOLEAN
  BY <1>1, <1>4 DEF CallSet, CallStages
<1> HIDE DEF k
<1>7. /\ strict.bill \in Nat /\ strict.admitted \in Nat /\ purse.day \in Nat
      /\ \A p \in People : purse.times[p] \in Nat
  BY <1>1 DEF Strict, Purse
<1>8. /\ strict' \in Strict /\ Looser(strict, strict') /\ strict'.bill = strict.bill + cost
      /\ strict'.admitted = strict.admitted /\ strict'.loose = strict.loose
      /\ strict'.most = strict.most /\ purse' = purse
  <2>1. strict.bill + cost \in Nat
    BY <1>4, <1>7
  <2>2. strict' \in Strict
    BY <1>1, <1>2, <2>1 DEF Strict
  <2>3. /\ strict'.bill = strict.bill + cost /\ strict'.admitted = strict.admitted
        /\ strict'.loose = strict.loose /\ strict'.most = strict.most
        /\ strict'.peak = strict.peak /\ strict.peak \in Nat /\ strict.most \in Nat
    BY <1>1, <1>2 DEF Strict
  <2>4. QED
    BY <1>3, <2>2, <2>3 DEF Looser
<1>9. CallOK(k, strict')
  BY <1>4, <1>6 DEF CallOK
<1>10. PlaceInv'
  BY <1>3, <1>5, <1>6, <1>8, <1>9, OneGoesOn
<1>11. MineInv'
  BY <1>1, <1>8 DEF MineInv
<1>12. Scene.edits = <<>> => \A n \in Instances : cached'[n].limits = EnvLimits
  BY <1>1, <1>3 DEF DocInv
<1>13. /\ Owed(calls[c]) = 0 /\ HasPassed(calls[c]) = 1
       /\ MayEverBill(calls[c]) = MayBill(calls[c])
       /\ MayBill(calls[c]) = (IF k.again THEN Dearest ELSE 2 * Dearest)
       /\ \A p : MayCount(p, calls[c])
                   = IF k.who # p \/ p = Nothing THEN 0 ELSE IF k.again THEN 1 ELSE 2
  BY <1>3, <1>6 DEF Owed, HasPassed, MayEverBill, MayBill, MayCount
<1>14. /\ Owed(k) = cost /\ HasPassed(k) = 1 /\ MayEverBill(k) = MayBill(k)
       /\ MayBill(k) = cost + (IF k.again THEN 0 ELSE Dearest)
       /\ \A p : MayCount(p, k)
                   = IF k.who # p \/ p = Nothing THEN 0 ELSE IF k.again THEN 1 ELSE 2
  BY <1>6 DEF Owed, HasPassed, MayEverBill, MayBill, MayCount
<1>15. MayBill(k) <= MayBill(calls[c]) /\ MayBill(k) \in Nat /\ MayBill(calls[c]) \in Nat
  BY <1>1, <1>4, <1>6, <1>13, <1>14
<1>16. PaysFor(calls[c], k)
  <2>1. purse'.day + MayBill(k) <= purse.day + MayBill(calls[c])
    BY <1>7, <1>8, <1>15
  <2>2. strict'.bill + Owed(calls[c]) + purse.day = strict.bill + purse'.day + Owed(k)
    BY <1>4, <1>7, <1>8, <1>13, <1>14
  <2>3. QED
    BY <1>13, <1>14, <2>1, <2>2 DEF PaysFor
<1>17. AdmitsFor(calls[c], k)
  BY <1>1, <1>7, <1>8, <1>13, <1>14 DEF AdmitsFor, RateInv
<1>18. SharesFor(calls[c], k)
  BY <1>6, <1>7, <1>8, <1>13, <1>14 DEF SharesFor
<1>19. GoesOn(c, k)
  BY <1>1, <1>3, <1>5, <1>6, <1>8, <1>9, <1>10, <1>11, <1>12, <1>16, <1>17, <1>18 DEF GoesOn
<1>20. QED
  BY <1>6, <1>19, OneStep

\* The counters move, one after another; or some of them do.
LEMMA RecordKeeps ==
  ASSUME SpendInv, NEW c \in DOMAIN calls, Record(c), scene' = scene, asks' \in Seq(Ask)
  PROVE  SpendInv'
<1>1. /\ calls[c] \in CallSet /\ CallOK(calls[c], strict) /\ purse \in Purse
      /\ strict \in Strict /\ DocInv /\ MineInv /\ RateInv
      /\ cached \in [Instances -> [limits : LimitSet, fresh : BOOLEAN]]
      /\ Dearest \in Nat /\ calls \in Seq(CallSet)
  BY Known
<1>2. calls[c].at = "paid" /\ UNCHANGED <<doc, edits, cached>>
  BY DEF Record, Call
<1> DEFINE j == calls[c]
<1>3. j.cost \in Nat /\ j.cost <= Dearest /\ j.who \in People \cup {Nothing} /\ j.again \in BOOLEAN
  BY <1>1, <1>2 DEF CallOK, CallSet
<1>4. PICK upto \in 0..5 :
        /\ purse' = Recorded_(j.who, j.cost, upto)
        /\ strict' = [strict EXCEPT !.loose = strict.loose \/ upto < 5]
  BY DEF Record
<1>5. PICK at_ \in {"ok", "failed", "admitted"} :
        /\ calls' = [calls EXCEPT ![c].again = TRUE, ![c].at = at_]
        /\ at_ = "admitted" => ~j.again
  <2>1. PICK good \in BOOLEAN :
          calls' = [calls EXCEPT ![c].again = TRUE,
                      ![c].at = CASE good -> "ok"
                                  [] ~good /\ calls[c].again -> "failed"
                                  [] OTHER -> "admitted"]
    BY DEF Record
  <2>2. CASE good
    BY <2>1, <2>2
  <2>3. CASE ~good /\ calls[c].again
    BY <2>1, <2>3
  <2>4. CASE ~good /\ ~calls[c].again
    BY <2>1, <2>4
  <2>5. QED
    BY <2>2, <2>3, <2>4
<1> DEFINE k == [calls[c] EXCEPT !.again = TRUE, !.at = at_]
<1>6. calls' = [calls EXCEPT ![c] = k]
  BY <1>1, <1>5
<1>7. /\ k \in CallSet /\ k.at = at_ /\ k.by = j.by /\ k.who = j.who /\ k.again = TRUE
      /\ k.cost = j.cost
  BY <1>1, <1>5 DEF CallSet, CallStages
<1> HIDE DEF k
<1>8. /\ purse.day \in Nat /\ purse.month \in Nat /\ purse.count \in Nat /\ purse.minute \in Nat
      /\ purse.mine \in [People -> Nat] /\ purse.times \in [People -> Nat]
      /\ strict.bill \in Nat /\ strict.admitted \in Nat /\ strict.loose \in BOOLEAN
      /\ strict.peak \in Nat /\ strict.most \in Nat
  BY <1>1 DEF Purse, Strict
<1> DEFINE mine_ == IF upto >= 4 /\ j.who # Nothing
                    THEN [purse.mine EXCEPT ![j.who] = purse.mine[j.who] + j.cost] ELSE purse.mine
           times_ == IF upto >= 5 /\ j.who # Nothing
                     THEN [purse.times EXCEPT ![j.who] = purse.times[j.who] + 1] ELSE purse.times
           day_ == IF upto >= 1 THEN purse.day + j.cost ELSE purse.day
           month_ == IF upto >= 2 THEN purse.month + j.cost ELSE purse.month
           count_ == IF upto >= 3 THEN purse.count + 1 ELSE purse.count
<1>9. /\ day_ \in Nat /\ month_ \in Nat /\ count_ \in Nat
  <2>1. j.cost \in Nat
    BY <1>3
  <2>2. /\ purse.day + j.cost \in Nat /\ purse.month + j.cost \in Nat
        /\ purse.count + 1 \in Nat
    <3> DEFINE m == j.cost
    <3>1. m \in Nat /\ purse.day \in Nat /\ purse.month \in Nat /\ purse.count \in Nat
      BY <1>8, <2>1
    <3> HIDE DEF m
    <3>2. /\ purse.day + m \in Nat /\ purse.month + m \in Nat /\ purse.count + 1 \in Nat
      BY <3>1
    <3>3. QED
      BY <3>2 DEF m
  <2>3. QED
    BY <1>8, <2>2
<1>10. mine_ \in [People -> Nat] /\ \A p \in People : mine_[p] <= day_
  <2>1. \A p \in People : purse.mine[p] <= purse.day
    BY <1>1 DEF MineInv
  <2>2. CASE upto >= 4 /\ j.who # Nothing
    <3>1. j.who \in People /\ purse.mine[j.who] + j.cost \in Nat
      <4>1. j.who \in People /\ j.cost \in Nat
        BY <1>3, <2>2
      <4> HIDE DEF j
      <4>2. purse.mine[j.who] \in Nat
        BY <1>8, <4>1
      <4>3. QED
        BY <4>1, <4>2
    <3>2. mine_ = [purse.mine EXCEPT ![j.who] = purse.mine[j.who] + j.cost]
      BY <2>2
    <3>3. day_ = purse.day + j.cost /\ j.cost \in Nat
      BY <1>3, <2>2
    <3> HIDE DEF mine_, day_, j
    <3>4. \A p \in People : mine_[p] = IF p = j.who THEN purse.mine[p] + j.cost ELSE purse.mine[p]
      BY <1>8, <3>2
    <3>5. \A p \in People : mine_[p] <= day_
      <4> SUFFICES ASSUME NEW p \in People PROVE mine_[p] <= day_
        OBVIOUS
      <4>1. purse.mine[p] \in Nat /\ purse.mine[p] <= purse.day /\ purse.day \in Nat
        BY <1>8, <2>1
      <4>2. mine_[p] = purse.mine[p] + j.cost \/ mine_[p] = purse.mine[p]
        BY <3>4
      <4>3. QED
        BY <3>3, <4>1, <4>2
    <3>6. mine_ \in [People -> Nat]
      BY <1>8, <3>1, <3>2
    <3>7. QED
      BY <3>5, <3>6
  <2>3. CASE ~(upto >= 4 /\ j.who # Nothing)
    <3>1. mine_ = purse.mine /\ purse.day <= day_ /\ day_ \in Nat
      BY <1>3, <1>8, <1>9, <2>3
    <3> HIDE DEF mine_, day_, j
    <3>2. QED
      BY <1>8, <2>1, <3>1
  <2>4. QED
    BY <2>2, <2>3
<1>11. times_ \in [People -> Nat]
       /\ \A p \in People :
            times_[p] = IF upto >= 5 /\ p = j.who /\ p # Nothing THEN purse.times[p] + 1
                        ELSE purse.times[p]
  <2>1. CASE upto >= 5 /\ j.who # Nothing
    <3>1. j.who \in People /\ purse.times[j.who] + 1 \in Nat
      <4>1. j.who \in People
        BY <1>3, <2>1
      <4> HIDE DEF j
      <4>2. purse.times[j.who] \in Nat
        BY <1>8, <4>1
      <4>3. QED
        BY <4>1, <4>2
    <3>2. times_ = [purse.times EXCEPT ![j.who] = purse.times[j.who] + 1]
      BY <2>1
    <3> HIDE DEF times_, j
    <3>3. \A p \in People : times_[p] = IF p = j.who THEN purse.times[p] + 1 ELSE purse.times[p]
      BY <1>8, <3>2
    <3>4. times_ \in [People -> Nat]
      BY <1>8, <3>1, <3>2
    <3>5. QED
      BY <2>1, <3>3, <3>4
  <2>2. CASE ~(upto >= 5 /\ j.who # Nothing)
    <3>1. times_ = purse.times
      BY <2>2
    <3> HIDE DEF times_, j
    <3>2. QED
      BY <1>8, <2>2, <3>1
  <2>3. QED
    BY <2>1, <2>2
<1>12. purse' = [purse EXCEPT !.day = day_, !.month = month_, !.count = count_,
                              !.mine = mine_, !.times = times_]
  BY <1>4 DEF Recorded_
<1> HIDE DEF day_, month_, count_, mine_, times_
<1>13. /\ purse' \in Purse /\ purse'.day = day_ /\ purse'.mine = mine_ /\ purse'.times = times_
       /\ purse'.minute = purse.minute
  BY <1>1, <1>9, <1>10, <1>11, <1>12 DEF Purse
<1>14. MineInv'
  BY <1>10, <1>13 DEF MineInv
<1>15. /\ strict' \in Strict /\ Looser(strict, strict') /\ strict'.bill = strict.bill
       /\ strict'.admitted = strict.admitted /\ strict'.most = strict.most
       /\ strict.loose => strict'.loose
       /\ upto < 5 => strict'.loose
  <2> DEFINE loose_ == strict.loose \/ upto < 5
  <2>1. loose_ \in BOOLEAN
    BY <1>8
  <2>2. strict' = [strict EXCEPT !.loose = loose_]
    BY <1>4
  <2> HIDE DEF loose_
  <2>3. /\ strict' \in Strict /\ strict'.bill = strict.bill /\ strict'.peak = strict.peak
        /\ strict'.admitted = strict.admitted /\ strict'.most = strict.most
        /\ strict'.loose = loose_
    BY <1>1, <2>1, <2>2 DEF Strict
  <2>4. QED
    <3>1. (strict.loose => loose_) /\ (upto < 5 => loose_)
      BY DEF loose_
    <3>2. QED
      BY <1>8, <2>3, <3>1 DEF Looser
<1>16. CallOK(k, strict')
  BY <1>5, <1>7 DEF CallOK
<1>17. PlaceInv'
  BY <1>2, <1>6, <1>7, <1>15, <1>16, OneGoesOn
<1>18. Scene.edits = <<>> => \A n \in Instances : cached'[n].limits = EnvLimits
  BY <1>1, <1>2 DEF DocInv
<1>19. /\ Owed(j) = j.cost /\ HasPassed(j) = 1 /\ MayEverBill(j) = MayBill(j)
       /\ MayBill(j) = j.cost + (IF j.again THEN 0 ELSE Dearest)
       /\ \A p : MayCount(p, j)
                   = IF j.who # p \/ p = Nothing THEN 0 ELSE IF j.again THEN 1 ELSE 2
  BY <1>2 DEF Owed, HasPassed, MayEverBill, MayBill, MayCount
<1>20. /\ Owed(k) = 0 /\ HasPassed(k) = 1 /\ MayEverBill(k) = MayBill(k)
       /\ MayBill(k) = (IF k.at = "admitted" THEN Dearest ELSE 0)
       /\ \A p : MayCount(p, k)
                   = IF k.who # p \/ p = Nothing THEN 0 ELSE IF k.at = "admitted" THEN 1 ELSE 0
  BY <1>5, <1>7 DEF Owed, HasPassed, MayEverBill, MayBill, MayCount
<1>21. upto = 5 \/ strict'.loose
  <2>1. upto = 5 \/ upto < 5
    OBVIOUS
  <2>2. QED
    BY <1>15, <2>1
<1>22. PaysFor(j, k)
  <2> SUFFICES ASSUME upto = 5
               PROVE  /\ strict'.bill + Owed(j) + purse.day = strict.bill + purse'.day + Owed(k)
                      /\ purse'.day + MayBill(k) <= purse.day + MayBill(j)
    BY <1>19, <1>20, <1>21 DEF PaysFor
  <2>1. purse'.day = purse.day + j.cost
    BY <1>13 DEF day_
  <2>2. k.at = "admitted" => ~j.again
    BY <1>5, <1>7
  <2> HIDE DEF j
  <2>3. MayBill(k) + j.cost <= MayBill(j) /\ MayBill(k) \in Nat /\ MayBill(j) \in Nat
    BY <1>1, <1>3, <1>19, <1>20, <2>2
  <2>4. strict'.bill = strict.bill /\ Owed(j) = j.cost /\ Owed(k) = 0 /\ j.cost \in Nat
    BY <1>3, <1>15, <1>19, <1>20 DEF j
  <2>5. purse'.day + MayBill(k) <= purse.day + MayBill(j)
    BY <1>8, <2>1, <2>3, <2>4
  <2>6. QED
    BY <1>8, <2>1, <2>4, <2>5
<1>23. AdmitsFor(j, k)
  <2>1. RateInv
    BY <1>1
  <2> HIDE DEF j
  <2>2. QED
    BY <1>8, <1>13, <1>15, <1>19, <1>20, <2>1 DEF AdmitsFor, RateInv
<1>24. SharesFor(j, k)
  <2> SUFFICES ASSUME upto = 5, NEW p \in People
               PROVE  purse'.times[p] + MayCount(p, k) <= purse.times[p] + MayCount(p, j)
    BY <1>21 DEF SharesFor
  <2>1. k.at = "admitted" => ~j.again
    BY <1>5, <1>7
  <2>2. purse.times[p] \in Nat
    BY <1>8
  <2>3. purse'.times[p] = IF p = j.who /\ p # Nothing THEN purse.times[p] + 1 ELSE purse.times[p]
    BY <1>11, <1>13
  <2> HIDE DEF j
  <2>4. QED
    BY <1>7, <1>19, <1>20, <2>1, <2>2, <2>3
<1>25. GoesOn(c, k)
  BY <1>1, <1>2, <1>6, <1>7, <1>13, <1>14, <1>15, <1>16, <1>17, <1>18, <1>22, <1>23, <1>24
     DEF GoesOn
<1>26. QED
  BY <1>7, <1>25, OneStep

\* A step that leaves the calls where they are.
LEMMA CallsRest ==
  ASSUME SpendInv, scene' = scene, calls' = calls, strict' \in Strict, Looser(strict, strict')
  PROVE  CallInv' /\ PlaceInv'
<1>1. /\ \A c \in DOMAIN calls : calls[c] \in CallSet /\ CallOK(calls[c], strict)
      /\ PlaceInv /\ strict \in Strict
  BY Known
<1>2. Scene' = Scene /\ EnvLimits' = EnvLimits
  BY SceneTells
<1>3. \A c \in DOMAIN calls : CallOK(calls[c], strict')
  BY <1>1, CallStays
<1>4. CallInv'
  BY <1>2, <1>3 DEF CallInv, CallOK
<1>5. QED
  BY <1>1, <1>2, <1>4 DEF PlaceInv

\* Looking on, as it were: nothing the runtime counts changes.
LEMMA RestKeeps ==
  ASSUME SpendInv, scene' = scene, asks' \in Seq(Ask), UNCHANGED <<calls, purse, strict>>,
         cached' \in [Instances -> [limits : LimitSet, fresh : BOOLEAN]],
         edits' \in Seq(Bodies), DocInv'
  PROVE  SpendInv'
<1>1. /\ scene \in DOMAIN Scenes /\ calls \in Seq(CallSet) /\ Len(calls) <= MaxCalls
      /\ purse \in Purse /\ strict \in Strict
      /\ BillInv /\ MineInv /\ RateInv /\ ShareInv
  BY Known
<1>2. /\ Scene' = Scene /\ EnvLimits' = EnvLimits /\ AtOnce' = AtOnce
      /\ CallSet' = CallSet /\ Bodies' = Bodies /\ Ask' = Ask
  BY SceneTells
<1>3. AiTypeOK'
  BY <1>1, <1>2 DEF AiTypeOK
<1>4. Looser(strict, strict)
  BY <1>1 DEF Strict, Looser
<1>5. CallInv' /\ PlaceInv'
  BY <1>1, <1>4, CallsRest
<1>6. BillInv'
  BY <1>1, <1>2 DEF BillInv
<1>7. MineInv' /\ RateInv'
  BY <1>1 DEF MineInv, RateInv
<1>8. ShareInv'
  BY <1>1, <1>2 DEF ShareInv
<1>9. QED
  BY <1>3, <1>5, <1>6, <1>7, <1>8 DEF SpendInv

LEMMA CacheExpiresKeeps ==
  ASSUME SpendInv, NEW n \in Scene.running, CacheExpires(n), scene' = scene, asks' \in Seq(Ask)
  PROVE  SpendInv'
<1>1. /\ cached \in [Instances -> [limits : LimitSet, fresh : BOOLEAN]] /\ edits \in Seq(Bodies)
      /\ DocInv
  BY Known
<1>2. UNCHANGED <<calls, purse, doc, edits, strict>>
      /\ cached' = [cached EXCEPT ![n].fresh = FALSE]
  BY DEF CacheExpires
<1>3. /\ cached' \in [Instances -> [limits : LimitSet, fresh : BOOLEAN]]
      /\ \A m \in Instances : cached'[m].limits = cached[m].limits
  BY <1>1, <1>2
<1>4. Scene' = Scene /\ EnvLimits' = EnvLimits
  BY SceneTells
<1>5. DocInv'
  BY <1>1, <1>2, <1>3, <1>4 DEF DocInv
<1>6. QED
  BY <1>1, <1>2, <1>3, <1>5, RestKeeps

LEMMA SaveLimitsKeeps ==
  ASSUME SpendInv, SaveLimits, scene' = scene, asks' \in Seq(Ask)
  PROVE  SpendInv'
<1> DEFINE body == Filled(Head(edits), BaseLimits)
<1>1. /\ cached \in [Instances -> [limits : LimitSet, fresh : BOOLEAN]] /\ edits \in Seq(Bodies)
      /\ DocInv /\ scene \in DOMAIN Scenes
  BY Known
<1>2. UNCHANGED <<calls, purse, cached, strict>> /\ edits # <<>> /\ edits' = Tail(edits)
      /\ (doc' = doc \/ (Valid(body) /\ doc' = body))
  BY DEF SaveLimits
<1>3. Head(edits) \in Bodies /\ edits' \in Seq(Bodies)
  BY <1>1, <1>2, HeadTailProperties
<1>4. Partial(body) /\ DOMAIN body = Fields
  <2>1. \A d \in Bodies : Partial(d)
    BY <1>1, AiAssumption DEF Bodies, Scene
  <2>2. Partial(Head(edits)) /\ Partial(BaseLimits) /\ DOMAIN BaseLimits = Fields
    BY <1>3, <2>1, AiAssumption
  <2>3. QED
    BY <2>2, FilledType
<1> HIDE DEF body
<1>5. Scene' = Scene
  BY SceneTells
<1>6. Scene.edits # <<>>
  BY <1>1, <1>2 DEF DocInv
<1>7. DocInv'
  <2>1. doc' = Nothing \/ (Partial(doc') /\ DOMAIN doc' = Fields /\ Valid(doc'))
    BY <1>1, <1>2, <1>4 DEF DocInv
  <2>2. QED
    BY <1>5, <1>6, <2>1 DEF DocInv
<1>8. QED
  BY <1>1, <1>2, <1>3, <1>7, RestKeeps

LEMMA NextMinuteKeeps ==
  ASSUME SpendInv, NextMinute, scene' = scene, asks' \in Seq(Ask)
  PROVE  SpendInv'
<1>1. /\ scene \in DOMAIN Scenes /\ calls \in Seq(CallSet) /\ Len(calls) <= MaxCalls
      /\ purse \in Purse /\ strict \in Strict /\ edits \in Seq(Bodies)
      /\ cached \in [Instances -> [limits : LimitSet, fresh : BOOLEAN]]
      /\ BillInv /\ MineInv /\ RateInv /\ ShareInv /\ DocInv /\ CallInv
  BY Known
<1>2. /\ purse' = [purse EXCEPT !.minute = 0] /\ strict' = [strict EXCEPT !.admitted = 0]
      /\ UNCHANGED <<calls, doc, edits, cached>>
  BY DEF NextMinute
<1>3. /\ purse' \in Purse /\ purse'.minute = 0 /\ purse'.day = purse.day
      /\ purse'.mine = purse.mine /\ purse'.times = purse.times
  BY <1>1, <1>2 DEF Purse
<1>4. /\ strict' \in Strict /\ strict'.admitted = 0 /\ strict'.bill = strict.bill
      /\ strict'.loose = strict.loose /\ strict'.peak = strict.peak
      /\ strict'.most = strict.most /\ strict.peak \in Nat /\ strict.most \in Nat
  BY <1>1, <1>2 DEF Strict
<1>5. Looser(strict, strict')
  BY <1>4 DEF Looser
<1>6. /\ Scene' = Scene /\ EnvLimits' = EnvLimits /\ AtOnce' = AtOnce
      /\ CallSet' = CallSet /\ Bodies' = Bodies /\ Ask' = Ask
  BY SceneTells
<1>7. AiTypeOK'
  BY <1>1, <1>2, <1>3, <1>4, <1>6 DEF AiTypeOK
<1>8. CallInv' /\ PlaceInv'
  BY <1>2, <1>4, <1>5, CallsRest
<1>9. DocInv' /\ MineInv'
  BY <1>1, <1>2, <1>3, <1>6 DEF DocInv, MineInv
<1>10. BillInv'
  BY <1>1, <1>2, <1>3, <1>4, <1>6 DEF BillInv
<1>11. RateInv'
  <2>1. Total(Passed(calls), Len(calls)) \in Nat
    <3>1. Priced(calls)
      BY <1>1 DEF CallInv, CallOK, Priced
    <3>2. QED
      BY <1>1, <3>1, RowMeasures
  <2>2. QED
    BY <1>2, <1>3, <1>4, <2>1 DEF RateInv
<1>12. ShareInv'
  BY <1>1, <1>2, <1>3, <1>4, <1>6 DEF ShareInv
<1>13. QED
  BY <1>7, <1>8, <1>9, <1>10, <1>11, <1>12 DEF SpendInv

\* A new day: what is being recorded right then is lost to both days, and then
\* nothing is promised; otherwise nobody owes anything.
LEMMA NextDayKeeps ==
  ASSUME SpendInv, NextDay, scene' = scene, asks' \in Seq(Ask)
  PROVE  SpendInv'
<1> DEFINE paid == \E c \in DOMAIN calls : calls[c].at = "paid"
<1>1. /\ scene \in DOMAIN Scenes /\ calls \in Seq(CallSet) /\ Len(calls) <= MaxCalls
      /\ purse \in Purse /\ strict \in Strict /\ edits \in Seq(Bodies)
      /\ cached \in [Instances -> [limits : LimitSet, fresh : BOOLEAN]]
      /\ BillInv /\ MineInv /\ RateInv /\ ShareInv /\ DocInv /\ CallInv /\ PlaceInv
      /\ EnvLimits \in LimitSet /\ Dearest \in Nat /\ MaxCalls * 2 * Dearest \in Nat
  BY Known
<1>2. /\ purse' = [NoSpend EXCEPT !.month = purse.month, !.minute = purse.minute]
      /\ strict' = [strict EXCEPT !.bill = 0, !.loose = strict.loose \/ paid]
      /\ UNCHANGED <<calls, doc, edits, cached>>
  BY DEF NextDay
<1>3. /\ purse' \in Purse /\ purse'.minute = purse.minute /\ purse'.day = 0
      /\ purse'.mine = NobodyYet /\ purse'.times = NobodyYet
      /\ NobodyYet \in [People -> Nat] /\ \A p \in People : NobodyYet[p] = 0
  <2>1. NobodyYet \in [People -> Nat] /\ \A p \in People : NobodyYet[p] = 0
    BY DEF NobodyYet
  <2>2. purse.month \in Nat /\ purse.minute \in Nat
    BY <1>1 DEF Purse
  <2>3. QED
    BY <1>2, <2>1, <2>2 DEF Purse, NoSpend
<1>4. /\ strict' \in Strict /\ strict'.admitted = strict.admitted /\ strict'.bill = 0
      /\ (strict.loose => strict'.loose) /\ (paid => strict'.loose)
      /\ strict'.peak = strict.peak
      /\ strict'.most = strict.most /\ strict.peak \in Nat /\ strict.most \in Nat
  <2> DEFINE loose_ == strict.loose \/ paid
  <2>1. loose_ \in BOOLEAN /\ (strict.loose => loose_) /\ (paid => loose_)
    BY <1>1 DEF Strict
  <2>2. strict' = [strict EXCEPT !.bill = 0, !.loose = loose_]
    BY <1>2
  <2> HIDE DEF loose_, paid
  <2>3. QED
    BY <1>1, <2>1, <2>2 DEF Strict
<1>5. Looser(strict, strict')
  BY <1>4 DEF Looser
<1>6. /\ Scene' = Scene /\ EnvLimits' = EnvLimits /\ AtOnce' = AtOnce
      /\ CallSet' = CallSet /\ Bodies' = Bodies /\ Ask' = Ask
  BY SceneTells
<1>7. AiTypeOK'
  BY <1>1, <1>2, <1>3, <1>4, <1>6 DEF AiTypeOK
<1>8. CallInv' /\ PlaceInv'
  BY <1>2, <1>4, <1>5, CallsRest
<1>9. DocInv' /\ MineInv'
  BY <1>1, <1>2, <1>3, <1>6 DEF DocInv, MineInv
<1>10. Priced(calls)
  BY <1>1 DEF CallInv, CallOK, Priced
<1> DEFINE n == Len(calls)
           b == Total(Billing(calls), n)
           e == Total(EverBilling(calls), n)
           places == AtOnce * 2 * Dearest
           allowed == Len(calls) * 2 * Dearest
<1>11. /\ b \in Nat /\ e \in Nat /\ n \in Nat /\ Total(Owing(calls), n) \in Nat
       /\ Owing(calls) \in [1..n -> Nat] /\ DOMAIN calls = 1..n
  BY <1>1, <1>10, RowMeasures
<1>12. AtOnce \in Nat /\ b <= places /\ e <= allowed
  BY <1>1, <1>10, RoomTotals DEF PlaceInv
<1>13. strict'.loose \/ Total(Owing(calls), n) = 0
  <2> SUFFICES ASSUME ~paid PROVE Total(Owing(calls), n) = 0
    BY <1>4
  <2>1. \A c \in 1..n : Owing(calls)[c] <= 0
    BY <1>11 DEF Owing, Owed
  <2> DEFINE f == Owing(calls)
             w == 0
             P == 1..n
  <2>2. /\ f \in [1..n -> Nat] /\ w \in Nat /\ P \in SUBSET (1..n) /\ n \in Nat
        /\ \A c \in 1..n : f[c] <= w /\ (c \notin P => f[c] = 0)
    BY <1>11, <2>1
  <2> HIDE DEF f, w, P, n
  <2>3. Cardinality(P) \in Nat /\ Total(f, n) <= w * Cardinality(P)
    BY <2>2, TotalBound
  <2>4. Total(f, n) <= 0
    BY <2>3 DEF w
  <2>5. QED
    BY <1>11, <2>4 DEF f
<1> HIDE DEF paid
<1>14. BillInv'
  <2> SUFFICES ASSUME ~strict'.loose
               PROVE  /\ strict'.bill = purse'.day + Total(Owing(calls), n)
                      /\ purse'.day + e <= allowed
                      /\ \/ MaxCalls * 2 * Dearest <= strict'.peak
                         \/ purse'.day + b <= Greater(strict'.peak - 1, 0) + places
    BY <1>2, <1>6 DEF BillInv
  <2>1. strict'.bill = 0 /\ purse'.day = 0 /\ Total(Owing(calls), n) = 0
    BY <1>3, <1>4, <1>13
  <2>2. places \in Nat /\ allowed \in Nat
    BY <1>1, <1>11, <1>12, TimesGrows
  <2>3. Greater(strict'.peak - 1, 0) \in Nat
    BY <1>4 DEF Greater
  <2> HIDE DEF n, b, e, places, allowed
  <2>4. QED
    BY <1>11, <1>12, <2>1, <2>2, <2>3
<1>15. RateInv'
  BY <1>1, <1>2, <1>3, <1>4 DEF RateInv
<1>16. ShareInv'
  <2> SUFFICES ASSUME EnvLimits.actorCalls > 0, NEW p \in People
               PROVE  purse'.times[p] + Total(Counting(p, calls), n)
                        <= EnvLimits.actorCalls - 1 + AtOnce * 2
    BY <1>2, <1>6 DEF ShareInv
  <2>1. purse'.times[p] = 0 /\ EnvLimits.actorCalls \in Nat
    BY <1>1, <1>3, LimitsWhole
  <2>2. Total(Counting(p, calls), n) \in Nat
    BY <1>1, <1>10, RowMeasures
  <2>3. Total(Counting(p, calls), n) <= AtOnce * 2
    BY <1>1, <1>10, RoomTotals DEF PlaceInv
  <2> HIDE DEF n
  <2>4. QED
    BY <1>12, <2>1, <2>2, <2>3
<1>17. QED
  BY <1>7, <1>8, <1>9, <1>14, <1>15, <1>16 DEF SpendInv

\* The calls of a process that ends are over.
LEMMA RuntimeCrashKeeps ==
  ASSUME SpendInv, NEW n \in Scene.running, RuntimeCrash(n), scene' = scene,
         asks' \in Seq(Ask)
  PROVE  SpendInv'
<1> DEFINE paid == \E c \in InPlace(n) : calls[c].at = "paid"
           Over(c) == calls[c].by = n /\ ~Answered(c)
<1>1. /\ scene \in DOMAIN Scenes /\ calls \in Seq(CallSet) /\ Len(calls) <= MaxCalls
      /\ purse \in Purse /\ strict \in Strict /\ edits \in Seq(Bodies)
      /\ cached \in [Instances -> [limits : LimitSet, fresh : BOOLEAN]]
      /\ BillInv /\ MineInv /\ RateInv /\ ShareInv /\ DocInv /\ CallInv /\ PlaceInv
      /\ EnvLimits \in LimitSet /\ Dearest \in Nat /\ MaxCalls * 2 * Dearest \in Nat
      /\ \A c \in DOMAIN calls : calls[c] \in CallSet /\ CallOK(calls[c], strict)
  BY Known
<1>2. /\ calls' = [c \in DOMAIN calls |-> IF Over(c) THEN [calls[c] EXCEPT !.at = "failed"]
                                          ELSE calls[c]]
      /\ cached' = [cached EXCEPT ![n] = [limits |-> EnvLimits, fresh |-> FALSE]]
      /\ strict' = [strict EXCEPT !.loose = strict.loose \/ paid]
      /\ UNCHANGED <<purse, doc, edits>>
  BY DEF RuntimeCrash
<1>3. /\ strict' \in Strict /\ strict'.admitted = strict.admitted /\ strict'.bill = strict.bill
      /\ (strict.loose => strict'.loose) /\ (paid => strict'.loose)
      /\ strict'.peak = strict.peak
      /\ strict'.most = strict.most /\ strict.peak \in Nat /\ strict.most \in Nat
      /\ strict.bill \in Nat /\ strict.admitted \in Nat
  <2> DEFINE loose_ == strict.loose \/ paid
  <2>1. loose_ \in BOOLEAN /\ (strict.loose => loose_) /\ (paid => loose_)
    BY <1>1 DEF Strict
  <2>2. strict' = [strict EXCEPT !.loose = loose_]
    BY <1>2
  <2> HIDE DEF loose_, paid
  <2>3. QED
    BY <1>1, <2>1, <2>2 DEF Strict
<1>4. Looser(strict, strict')
  BY <1>3 DEF Looser
<1>5. /\ Scene' = Scene /\ EnvLimits' = EnvLimits /\ AtOnce' = AtOnce
      /\ CallSet' = CallSet /\ Bodies' = Bodies /\ Ask' = Ask
  BY SceneTells
<1> DEFINE m == Len(calls)
<1>6. m \in Nat /\ DOMAIN calls = 1..m
  BY <1>1
<1>7. \A c \in DOMAIN calls :
        /\ calls'[c] \in CallSet /\ calls'[c].by = calls[c].by
        /\ calls'[c] = calls[c]
           \/ (Over(c) /\ calls'[c].at = "failed" /\ calls'[c].who = calls[c].who)
  <2> HIDE DEF Over
  <2> SUFFICES ASSUME NEW c \in DOMAIN calls
               PROVE  /\ calls'[c] \in CallSet /\ calls'[c].by = calls[c].by
                      /\ calls'[c] = calls[c]
                         \/ (Over(c) /\ calls'[c].at = "failed" /\ calls'[c].who = calls[c].who)
    OBVIOUS
  <2>1. CASE Over(c)
    <3>1. calls'[c] = [calls[c] EXCEPT !.at = "failed"] /\ calls[c] \in CallSet
      BY <1>1, <1>2, <2>1
    <3>2. QED
      BY <2>1, <3>1 DEF CallSet, CallStages
  <2>2. CASE ~Over(c)
    BY <1>1, <1>2, <2>2
  <2>3. QED
    BY <2>1, <2>2
<1>8. DOMAIN calls' = DOMAIN calls
  BY <1>2
<1>9. calls' \in Seq(CallSet) /\ Len(calls') = m
  <2>1. calls' = [c \in 1..m |-> calls'[c]]
    BY <1>2, <1>6
  <2>2. calls' \in [1..m -> CallSet]
    BY <1>6, <1>7, <2>1
  <2>3. QED
    BY <1>6, <2>2, SeqDef, LenProperties
<1>10. \A c \in DOMAIN calls : CallOK(calls'[c], strict')
  <2> SUFFICES ASSUME NEW c \in DOMAIN calls PROVE CallOK(calls'[c], strict')
    OBVIOUS
  <2>1. CASE calls'[c] = calls[c]
    BY <1>1, <1>3, <1>4, <2>1, CallStays
  <2>2. CASE calls'[c].at = "failed"
    BY <2>2 DEF CallOK
  <2>3. QED
    BY <1>7, <2>1, <2>2
<1>11. CallInv'
  BY <1>5, <1>8, <1>10 DEF CallInv, CallOK
<1>12. Priced(calls) /\ Priced(calls')
  BY <1>1, <1>8, <1>10 DEF CallInv, CallOK, Priced
<1>13. PlaceInv'
  <2> SUFFICES ASSUME NEW i \in Scene.running
               PROVE  Cardinality(Placed(calls', i)) <= Concurrency
    BY <1>5 DEF PlaceInv
  <2>1. Placed(calls', i) \in SUBSET Placed(calls, i)
    BY <1>7, <1>8 DEF Placed
  <2>2. IsFiniteSet(Placed(calls, i)) /\ Cardinality(Placed(calls, i)) <= Concurrency
    BY <1>1, PlacedFinite DEF PlaceInv
  <2>3. QED
    BY <2>1, <2>2, FewerFit
<1>14. /\ cached' \in [Instances -> [limits : LimitSet, fresh : BOOLEAN]]
       /\ Scene.edits = <<>> => \A i \in Instances : cached'[i].limits = EnvLimits
  <2>1. \A i \in Instances : cached'[i] = IF i = n THEN [limits |-> EnvLimits, fresh |-> FALSE]
                                          ELSE cached[i]
    BY <1>1, <1>2
  <2>2. cached' \in [Instances -> [limits : LimitSet, fresh : BOOLEAN]]
    BY <1>1, <1>2
  <2>3. Scene.edits = <<>> => \A i \in Instances : cached'[i].limits = EnvLimits
    BY <1>1, <2>1 DEF DocInv
  <2>4. QED
    BY <2>2, <2>3
<1>15. DocInv' /\ MineInv'
  BY <1>1, <1>2, <1>5, <1>14 DEF DocInv, MineInv
<1>16. AiTypeOK'
  BY <1>1, <1>2, <1>3, <1>5, <1>9, <1>14 DEF AiTypeOK
<1>17. \A p : \A c \in DOMAIN calls :
         /\ MayBill(calls'[c]) <= MayBill(calls[c])
         /\ MayEverBill(calls'[c]) <= MayEverBill(calls[c])
         /\ MayCount(p, calls'[c]) <= MayCount(p, calls[c])
         /\ HasPassed(calls[c]) <= HasPassed(calls'[c])
  <2> SUFFICES ASSUME NEW p, NEW c \in DOMAIN calls
               PROVE  /\ MayBill(calls'[c]) <= MayBill(calls[c])
                      /\ MayEverBill(calls'[c]) <= MayEverBill(calls[c])
                      /\ MayCount(p, calls'[c]) <= MayCount(p, calls[c])
                      /\ HasPassed(calls[c]) <= HasPassed(calls'[c])
    OBVIOUS
  <2> DEFINE k == calls'[c]
             j == calls[c]
  <2>1. j \in CallSet /\ (j.at = "paid" => j.cost <= Dearest)
    BY <1>1, <1>12 DEF Priced
  <2> HIDE DEF j
  <2>2. /\ MayBill(j) \in Nat /\ MayEverBill(j) \in Nat /\ MayCount(p, j) \in Nat
        /\ HasPassed(j) \in Nat /\ HasPassed(j) <= 1
    BY <2>1, CallMeasures
  <2>3. k = j \/ k.at = "failed"
    BY <1>7 DEF j
  <2> HIDE DEF k
  <2>4. k.at = "failed" =>
          MayBill(k) = 0 /\ MayEverBill(k) = 0 /\ MayCount(p, k) = 0 /\ HasPassed(k) = 1
    BY DEF MayBill, MayEverBill, MayCount, HasPassed
  <2>5. /\ MayBill(k) <= MayBill(j) /\ MayEverBill(k) <= MayEverBill(j)
        /\ MayCount(p, k) <= MayCount(p, j) /\ HasPassed(j) <= HasPassed(k)
    BY <2>2, <2>3, <2>4
  <2>6. QED
    BY <2>5 DEF j, k
<1> DEFINE b == Total(Billing(calls), m)
           bb == Total(Billing(calls'), m)
           e == Total(EverBilling(calls), m)
           ee == Total(EverBilling(calls'), m)
           s == Total(Passed(calls), m)
           ss == Total(Passed(calls'), m)
           places == AtOnce * 2 * Dearest
           allowed == Len(calls) * 2 * Dearest
<1>18. bb <= b /\ ee <= e /\ s <= ss
  BY <1>1, <1>9, <1>12, <1>17, LessTotals
<1>19. /\ b \in Nat /\ bb \in Nat /\ e \in Nat /\ ee \in Nat /\ s \in Nat /\ ss \in Nat
       /\ AtOnce \in Nat
  BY <1>1, <1>9, <1>12, RowMeasures, RoomTotals DEF PlaceInv
<1>20. strict'.loose \/ Owing(calls') = Owing(calls)
  <2> SUFFICES ASSUME ~paid PROVE Owing(calls') = Owing(calls)
    BY <1>3
  <2>1. \A c \in DOMAIN calls : Owed(calls'[c]) = Owed(calls[c])
    <3> SUFFICES ASSUME NEW c \in DOMAIN calls, Over(c), calls'[c].at = "failed"
                 PROVE  Owed(calls'[c]) = Owed(calls[c])
      BY <1>7
    <3>1. calls[c].at # "paid"
      BY DEF InPlace, Answered
    <3>2. QED
      BY <3>1 DEF Owed
  <2>2. QED
    BY <1>8, <2>1 DEF Owing
<1> HIDE DEF paid, Over
<1>21. BillInv'
  <2> SUFFICES ASSUME ~strict'.loose
               PROVE  /\ strict'.bill = purse'.day + Total(Owing(calls'), m)
                      /\ purse'.day + ee <= allowed
                      /\ \/ MaxCalls * 2 * Dearest <= strict'.peak
                         \/ purse'.day + bb <= Greater(strict'.peak - 1, 0) + places
    BY <1>5, <1>9 DEF BillInv
  <2>1. /\ strict.bill = purse.day + Total(Owing(calls), m)
        /\ purse.day + e <= allowed
        /\ \/ MaxCalls * 2 * Dearest <= strict.peak
           \/ purse.day + b <= Greater(strict.peak - 1, 0) + places
    BY <1>1, <1>3 DEF BillInv
  <2>2. strict'.bill = strict.bill /\ strict'.peak = strict.peak /\ purse' = purse
        /\ Owing(calls') = Owing(calls)
    BY <1>2, <1>3, <1>20
  <2>3. purse.day \in Nat
    BY <1>1 DEF Purse
  <2>4. places \in Nat /\ allowed \in Nat
    <3>1. AtOnce * 2 * Dearest \in Nat
      <4>1. AtOnce \in Nat /\ Dearest \in Nat
        BY <1>19, DearestPrice
      <4>2. QED
        BY <4>1, TimesGrows
    <3>2. m * 2 * Dearest \in Nat
      <4> HIDE DEF m
      <4> QED
        BY <1>1, <1>6, TimesGrows
    <3>3. QED
      BY <3>1, <3>2
  <2>5. Greater(strict.peak - 1, 0) \in Nat
    BY <1>3 DEF Greater
  <2> HIDE DEF m, b, bb, e, ee, places, allowed
  <2>6. purse.day + ee <= allowed
    BY <1>18, <1>19, <2>1, <2>3, <2>4
  <2>7. \/ MaxCalls * 2 * Dearest <= strict.peak
        \/ purse.day + bb <= Greater(strict.peak - 1, 0) + places
    <3>1. CASE MaxCalls * 2 * Dearest <= strict.peak
      BY <3>1
    <3>2. CASE purse.day + b <= Greater(strict.peak - 1, 0) + places
      <4>1. purse.day + bb <= Greater(strict.peak - 1, 0) + places
        BY <1>18, <1>19, <2>3, <2>4, <2>5, <3>2
      <4>2. QED
        BY <4>1
    <3>3. QED
      BY <2>1, <3>1, <3>2
  <2>8. QED
    BY <2>1, <2>2, <2>6, <2>7
<1>22. RateInv'
  <2> SUFFICES ASSUME ~strict'.loose
               PROVE  /\ strict'.admitted <= ss
                      /\ \/ MaxCalls <= strict'.most
                         \/ strict'.admitted <= purse'.minute /\ strict'.admitted <= strict'.most
    BY <1>9 DEF RateInv
  <2>1. /\ strict.admitted <= s
        /\ \/ MaxCalls <= strict.most
           \/ strict.admitted <= purse.minute /\ strict.admitted <= strict.most
    BY <1>1, <1>3 DEF RateInv
  <2>2. purse' = purse
    BY <1>2
  <2> HIDE DEF s, ss
  <2>3. QED
    BY <1>3, <1>18, <1>19, <2>1, <2>2
<1>23. ShareInv'
  <2> SUFFICES ASSUME EnvLimits.actorCalls > 0, ~strict'.loose, Scene.edits = <<>>,
                      NEW p \in People
               PROVE  purse.times[p] + Total(Counting(p, calls'), m)
                        <= EnvLimits.actorCalls - 1 + AtOnce * 2
    BY <1>2, <1>5, <1>9 DEF ShareInv
  <2> DEFINE t == Total(Counting(p, calls), m)
             tt == Total(Counting(p, calls'), m)
             bound == EnvLimits.actorCalls - 1 + AtOnce * 2
             x == purse.times[p]
  <2>1. x + t <= bound
    BY <1>1, <1>3 DEF ShareInv
  <2>2. t \in Nat /\ tt \in Nat
    BY <1>1, <1>9, <1>12, RowMeasures
  <2>3. tt <= t
    <3> DEFINE cs == calls
               ds == calls'
    <3>1. /\ cs \in Seq(CallSet) /\ Priced(cs) /\ ds \in Seq(CallSet) /\ Priced(ds)
          /\ Len(ds) = Len(cs)
          /\ \A c \in DOMAIN cs :
               /\ MayBill(ds[c]) <= MayBill(cs[c]) /\ MayEverBill(ds[c]) <= MayEverBill(cs[c])
               /\ MayCount(p, ds[c]) <= MayCount(p, cs[c])
               /\ HasPassed(cs[c]) <= HasPassed(ds[c])
      BY <1>1, <1>9, <1>12, <1>17
    <3> HIDE DEF cs, ds
    <3>2. Total(Counting(p, ds), Len(ds)) <= Total(Counting(p, cs), Len(cs))
      BY <3>1, LessTotals
    <3>3. QED
      BY <1>9, <3>2 DEF cs, ds
  <2>4. bound \in Int
    <3>1. EnvLimits \in LimitSet /\ AtOnce \in Nat
      BY <1>1, <1>19
    <3>2. EnvLimits.actorCalls \in Nat
      BY <3>1, LimitsWhole
    <3>3. QED
      BY <3>1, <3>2
  <2>5. x \in Nat
    BY <1>1 DEF Purse
  <2> HIDE DEF t, tt, bound, x, m
  <2>6. x + tt <= bound
    BY <2>1, <2>2, <2>3, <2>4, <2>5
  <2>7. QED
    BY <2>6 DEF x, tt, bound
<1>24. QED
  BY <1>11, <1>13, <1>15, <1>16, <1>21, <1>22, <1>23 DEF SpendInv

\* One more call.
LEMMA AskingKeeps ==
  ASSUME SpendInv, Asking, scene' = scene, asks' \in Seq(Ask)
  PROVE  SpendInv'
<1>1. /\ scene \in DOMAIN Scenes /\ calls \in Seq(CallSet) /\ Len(calls) <= MaxCalls
      /\ purse \in Purse /\ strict \in Strict /\ edits \in Seq(Bodies)
      /\ cached \in [Instances -> [limits : LimitSet, fresh : BOOLEAN]]
      /\ BillInv /\ MineInv /\ RateInv /\ ShareInv /\ DocInv /\ CallInv /\ PlaceInv
      /\ EnvLimits \in LimitSet /\ Dearest \in Nat /\ MaxCalls \in Nat
      /\ \A c \in DOMAIN calls : calls[c] \in CallSet /\ CallOK(calls[c], strict)
  BY Known
<1>2. PICK who \in People \cup {Nothing}, tier \in {"hot", "warm", "system"} \cup AskTiers :
        Request(who, tier)
  BY DEF Asking
<1>3. UNCHANGED <<purse, doc, edits, cached, strict>>
  BY DEF Asking
<1>4. PICK n \in Scene.running :
        calls' = Append(calls, [at |-> "sent", by |-> n, who |-> who, tier |-> tier,
                                limits |-> Nothing, again |-> FALSE, cost |-> 0,
                                spent |-> [day |-> 0, month |-> 0]])
  BY <1>2 DEF Request
<1>5. Len(calls) < MaxCalls
  BY <1>2 DEF Request
<1> DEFINE k == [at |-> "sent", by |-> n, who |-> who, tier |-> tier,
                 limits |-> Nothing, again |-> FALSE, cost |-> 0,
                 spent |-> [day |-> 0, month |-> 0]]
<1>6. k \in CallSet /\ k.at = "sent" /\ k.again = FALSE
  BY DEF CallSet, CallStages, SpentSoFar
<1>7. calls' = Append(calls, k)
  BY <1>4
<1> HIDE DEF k
<1>8. Priced(calls)
  BY <1>1 DEF CallInv, CallOK, Priced
<1>9. \A p : /\ calls' \in Seq(CallSet) /\ Len(calls') = Len(calls) + 1 /\ Priced(calls')
             /\ calls'[Len(calls')] = k /\ \A c \in DOMAIN calls : calls'[c] = calls[c]
             /\ \A c \in DOMAIN calls' : c \in DOMAIN calls \/ c = Len(calls')
             /\ Total(Owing(calls'), Len(calls')) = Total(Owing(calls), Len(calls))
             /\ Total(Billing(calls'), Len(calls')) = Total(Billing(calls), Len(calls))
             /\ Total(EverBilling(calls'), Len(calls'))
                  = Total(EverBilling(calls), Len(calls)) + 2 * Dearest
             /\ Total(Counting(p, calls'), Len(calls')) = Total(Counting(p, calls), Len(calls))
             /\ Total(Passed(calls'), Len(calls')) = Total(Passed(calls), Len(calls))
  <2>1. /\ calls \in Seq(CallSet) /\ Priced(calls) /\ k \in CallSet /\ k.at = "sent"
        /\ calls' = Append(calls, k)
    BY <1>1, <1>6, <1>7, <1>8
  <2> SUFFICES ASSUME NEW p
               PROVE  /\ calls' \in Seq(CallSet) /\ Len(calls') = Len(calls) + 1 /\ Priced(calls')
                      /\ calls'[Len(calls')] = k /\ \A c \in DOMAIN calls : calls'[c] = calls[c]
                      /\ \A c \in DOMAIN calls' : c \in DOMAIN calls \/ c = Len(calls')
                      /\ Total(Owing(calls'), Len(calls')) = Total(Owing(calls), Len(calls))
                      /\ Total(Billing(calls'), Len(calls')) = Total(Billing(calls), Len(calls))
                      /\ Total(EverBilling(calls'), Len(calls'))
                           = Total(EverBilling(calls), Len(calls)) + 2 * Dearest
                      /\ Total(Counting(p, calls'), Len(calls')) = Total(Counting(p, calls), Len(calls))
                      /\ Total(Passed(calls'), Len(calls')) = Total(Passed(calls), Len(calls))
    OBVIOUS
  <2> DEFINE ds == calls'
             cs == calls
  <2>2. Joins(k, cs, ds) /\ cs \in Seq(CallSet) /\ Priced(cs) /\ k \in CallSet
    BY <2>1 DEF Joins
  <2> HIDE DEF ds, cs
  <2>3. OneMore(p, k, cs, ds)
    BY <2>2, MoreTotals
  <2>4. QED
    BY <2>3 DEF ds, cs, OneMore
<1>10. /\ Scene' = Scene /\ EnvLimits' = EnvLimits /\ AtOnce' = AtOnce
       /\ CallSet' = CallSet /\ Bodies' = Bodies /\ Ask' = Ask
  BY SceneTells
<1>11. AiTypeOK'
  BY <1>1, <1>3, <1>5, <1>9, <1>10 DEF AiTypeOK
<1>12. CallInv'
  <2>1. CallOK(k, strict)
    BY <1>6 DEF CallOK
  <2>2. \A c \in DOMAIN calls' : CallOK(calls'[c], strict)
    BY <1>1, <1>9, <2>1
  <2>3. QED
    BY <1>3, <1>10, <2>2 DEF CallInv, CallOK
<1>13. PlaceInv'
  <2>1. \A i : Placed(calls', i) = Placed(calls, i)
    <3>1. /\ calls'[Len(calls')].at = "sent"
          /\ \A c \in DOMAIN calls' : c \in DOMAIN calls \/ c = Len(calls')
          /\ \A c \in DOMAIN calls : calls'[c] = calls[c] /\ c \in DOMAIN calls'
      <4>1. \A c \in DOMAIN calls : c \in DOMAIN calls'
        BY <1>1, <1>7
      <4>2. QED
        BY <1>6, <1>9, <4>1
    <3>2. QED
      BY <3>1 DEF Placed
  <2>2. QED
    BY <1>1, <1>10, <2>1 DEF PlaceInv
<1>14. DocInv' /\ MineInv'
  BY <1>1, <1>3, <1>10 DEF DocInv, MineInv
<1>15. BillInv'
  <2> DEFINE e == Total(EverBilling(calls), Len(calls))
             allowed == Len(calls) * 2 * Dearest
             more == (Len(calls) + 1) * 2 * Dearest
  <2>1. more = allowed + 2 * Dearest /\ allowed \in Nat
    <3>1. Len(calls) \in Nat
      BY <1>1
    <3>2. QED
      BY <1>1, <3>1, TimesGrows
  <2>2. e \in Nat /\ purse.day \in Nat
    BY <1>1, <1>8, RowMeasures DEF Purse
  <2>3. strict.loose \/ purse.day + e <= allowed
    BY <1>1 DEF BillInv
  <2> HIDE DEF e, allowed, more
  <2>4. strict.loose \/ purse.day + (e + 2 * Dearest) <= more
    BY <1>1, <2>1, <2>2, <2>3
  <2>5. strict.loose \/ purse.day + Total(EverBilling(calls'), Len(calls'))
                          <= Len(calls') * 2 * Dearest
    BY <1>9, <2>4 DEF e, more
  <2>6. QED
    BY <1>1, <1>3, <1>9, <1>10, <2>5 DEF BillInv
<1>16. RateInv'
  BY <1>1, <1>3, <1>9 DEF RateInv
<1>17. ShareInv'
  BY <1>1, <1>3, <1>9, <1>10 DEF ShareInv
<1>18. QED
  BY <1>11, <1>12, <1>13, <1>14, <1>15, <1>16, <1>17 DEF SpendInv

-----------------------------------------------------------------------------
(* Every step keeps SpendInv, and SpendInv is what is promised.              *)

\* In the beginning nothing has been asked, spent or edited.
LEMMA SpendStarts ==
  ASSUME Init
  PROVE  SpendInv
<1>1. /\ scene \in DOMAIN Scenes /\ calls = <<>> /\ purse = NoSpend
      /\ doc = Nothing /\ edits = Scene.edits /\ asks = Scene.asks
      /\ cached = [n \in Instances |-> [limits |-> EnvLimits, fresh |-> FALSE]]
      /\ strict = [peak |-> 0, bill |-> 0, loose |-> FALSE, most |-> 0, admitted |-> 0]
  BY DEF Init, LogInit, AiInit
<1>2. /\ MaxCalls \in Nat /\ Dearest \in Nat /\ MaxCalls * 2 * Dearest \in Nat
      /\ 0 * 2 * Dearest = 0
  BY DearestPrice, AiAssumption, TimesGrows
<1>3. /\ calls \in Seq(CallSet) /\ Len(calls) = 0 /\ DOMAIN calls = {}
  BY <1>1
<1>4. DocInv
  BY <1>1 DEF DocInv
<1>5. EnvLimits \in LimitSet
  BY <1>1, <1>4, EnvType
<1>6. AiTypeOK
  <2>1. purse \in Purse
    BY <1>1 DEF Purse, NoSpend, NobodyYet
  <2>2. strict \in Strict
    BY <1>1 DEF Strict
  <2>3. cached \in [Instances -> [limits : LimitSet, fresh : BOOLEAN]]
    BY <1>1, <1>5
  <2>4. edits \in Seq(Bodies)
    BY <1>1, AiAssumption DEF Scene, Bodies
  <2>5. asks \in Seq(Ask)
    BY <1>1, TownAssumption DEF Scene, Ask, AskTiers
  <2>6. QED
    BY <1>1, <1>2, <1>3, <2>1, <2>2, <2>3, <2>4, <2>5 DEF AiTypeOK
<1>7. CallInv
  BY <1>3 DEF CallInv
<1>8. PlaceInv
  <2>1. \A n : Placed(calls, n) = {}
    BY <1>3 DEF Placed
  <2>2. Cardinality({}) = 0 /\ Concurrency \in Nat
    BY FS_EmptySet, AiAssumption
  <2>3. QED
    BY <2>1, <2>2 DEF PlaceInv
<1>9. \A p : /\ Total(Owing(calls), Len(calls)) = 0 /\ Total(Billing(calls), Len(calls)) = 0
             /\ Total(EverBilling(calls), Len(calls)) = 0
             /\ Total(Counting(p, calls), Len(calls)) = 0
             /\ Total(Passed(calls), Len(calls)) = 0
  <2> SUFFICES ASSUME NEW p
               PROVE  /\ Total(Owing(calls), Len(calls)) = 0
                      /\ Total(Billing(calls), Len(calls)) = 0
                      /\ Total(EverBilling(calls), Len(calls)) = 0
                      /\ Total(Counting(p, calls), Len(calls)) = 0
                      /\ Total(Passed(calls), Len(calls)) = 0
    OBVIOUS
  <2>1. Priced(calls)
    BY <1>3 DEF Priced
  <2>2. /\ Owing(calls) \in [1..Len(calls) -> Nat] /\ Billing(calls) \in [1..Len(calls) -> Nat]
        /\ EverBilling(calls) \in [1..Len(calls) -> Nat]
        /\ Counting(p, calls) \in [1..Len(calls) -> Nat]
        /\ Passed(calls) \in [1..Len(calls) -> Nat] /\ Len(calls) \in Nat
    BY <1>3, <2>1, RowMeasures
  <2>3. QED
    BY <1>3, <2>2, TotalType
<1>10. AtOnce \in Nat /\ AtOnce * 2 \in Nat /\ AtOnce * 2 * Dearest \in Nat
  <2>1. Priced(calls)
    BY <1>3 DEF Priced
  <2>2. AtOnce \in Nat
    BY <1>1, <1>3, <1>8, <2>1, RoomTotals DEF PlaceInv
  <2>3. QED
    BY <1>2, <2>2, TimesGrows
<1>11. BillInv
  <2>1. /\ strict.bill = 0 /\ strict.peak = 0 /\ purse.day = 0
    BY <1>1 DEF NoSpend
  <2>2. Greater(strict.peak - 1, 0) = 0
    BY <2>1 DEF Greater
  <2>3. strict.bill = purse.day + Total(Owing(calls), Len(calls))
    BY <1>9, <2>1
  <2>4. purse.day + Total(EverBilling(calls), Len(calls)) <= Len(calls) * 2 * Dearest
    BY <1>2, <1>3, <1>9, <2>1
  <2>5. purse.day + Total(Billing(calls), Len(calls))
          <= Greater(strict.peak - 1, 0) + AtOnce * 2 * Dearest
    BY <1>9, <1>10, <2>1, <2>2
  <2>6. QED
    BY <2>3, <2>4, <2>5 DEF BillInv
<1>12. MineInv
  BY <1>1 DEF MineInv, NoSpend, NobodyYet
<1>13. RateInv
  BY <1>1, <1>9 DEF RateInv, NoSpend
<1>14. ShareInv
  <2>1. \A p \in People : purse.times[p] = 0
    BY <1>1 DEF NoSpend, NobodyYet
  <2>2. EnvLimits.actorCalls \in Nat
    BY <1>5, LimitsWhole
  <2>3. QED
    BY <1>9, <1>10, <2>1, <2>2 DEF ShareInv
<1>15. QED
  BY <1>4, <1>6, <1>7, <1>8, <1>11, <1>12, <1>13, <1>14 DEF SpendInv

\* Whatever the runtime does, one action after the other.
LEMMA AiStepKeeps ==
  ASSUME SpendInv, AiStep, scene' = scene, asks' \in Seq(Ask)
  PROVE  SpendInv'
<1>1. ASSUME NEW c \in DOMAIN calls, Begin(c) PROVE SpendInv'
  BY <1>1, BeginKeeps
<1>2. ASSUME NEW c \in DOMAIN calls, ReadSpend(c) PROVE SpendInv'
  BY <1>2, ReadSpendKeeps
<1>3. ASSUME NEW c \in DOMAIN calls, TakeSlot(c) PROVE SpendInv'
  BY <1>3, TakeSlotKeeps
<1>4. ASSUME NEW c \in DOMAIN calls, PassesUnchecked(c) PROVE SpendInv'
  BY <1>4, PassesUncheckedKeeps
<1>5. ASSUME NEW c \in DOMAIN calls, NoRoute(c) \/ ProviderFails(c) PROVE SpendInv'
  <2>1. /\ UNCHANGED <<purse, doc, edits, cached, strict>>
        /\ calls[c].at # "paid" /\ Becomes(c, "failed")
    BY <1>5 DEF NoRoute, ProviderFails, Call
  <2>2. QED
    BY <2>1, OverKeeps
<1>6. ASSUME NEW c \in DOMAIN calls, Complete(c) PROVE SpendInv'
  BY <1>6, CompleteKeeps
<1>7. ASSUME NEW c \in DOMAIN calls, Record(c) PROVE SpendInv'
  BY <1>7, RecordKeeps
<1>8. ASSUME NEW n \in Scene.running, CacheExpires(n) PROVE SpendInv'
  BY <1>8, CacheExpiresKeeps
<1>9. ASSUME NEW n \in Scene.running, RuntimeCrash(n) PROVE SpendInv'
  BY <1>9, RuntimeCrashKeeps
<1>10. ASSUME SaveLimits PROVE SpendInv'
  BY <1>10, SaveLimitsKeeps
<1>11. ASSUME NextMinute PROVE SpendInv'
  BY <1>11, NextMinuteKeeps
<1>12. ASSUME NextDay PROVE SpendInv'
  BY <1>12, NextDayKeeps
<1>13. QED
  BY <1>1, <1>2, <1>3, <1>4, <1>5, <1>6, <1>7, <1>8, <1>9, <1>10, <1>11, <1>12 DEF AiStep

\* And whatever the rest of the town does.
LEMMA SpendStep ==
  ASSUME SpendInv, [Next]_vars
  PROVE  SpendInv'
<1>1. asks \in Seq(Ask)
  BY DEF SpendInv, AiTypeOK
<1>2. /\ UNCHANGED aiVars \/ Asking \/ AiStep
      /\ asks' \in Seq(Ask) /\ scene' = scene
  BY <1>1, AiFrame, SceneKept
<1>3. ASSUME UNCHANGED aiVars PROVE SpendInv'
  <2>1. UNCHANGED <<calls, purse, strict>> /\ doc' = doc /\ edits' = edits /\ cached' = cached
    BY <1>3 DEF aiVars
  <2>2. /\ cached \in [Instances -> [limits : LimitSet, fresh : BOOLEAN]]
        /\ edits \in Seq(Bodies) /\ DocInv
    BY Known
  <2>3. Scene' = Scene /\ EnvLimits' = EnvLimits
    BY <1>2, SceneTells
  <2>4. DocInv'
    BY <2>1, <2>2, <2>3 DEF DocInv
  <2>5. QED
    BY <1>2, <2>1, <2>2, <2>4, RestKeeps
<1>4. QED
  BY <1>2, <1>3, AskingKeeps, AiStepKeeps

\* The sums of a state the runtime can be in.
LEMMA SpendSums ==
  ASSUME SpendInv, NEW p
  PROVE  /\ AtOnce \in Nat /\ AtOnce * 2 \in Nat /\ AtOnce * 2 * Dearest \in Nat
         /\ Len(calls) \in Nat
         /\ Total(Owing(calls), Len(calls)) \in Nat
         /\ Total(Billing(calls), Len(calls)) \in Nat
         /\ Total(EverBilling(calls), Len(calls)) \in Nat
         /\ Total(Counting(p, calls), Len(calls)) \in Nat
         /\ Total(Passed(calls), Len(calls)) \in Nat
         /\ Total(Owing(calls), Len(calls)) <= Total(Billing(calls), Len(calls))
         /\ Total(Billing(calls), Len(calls)) <= Total(EverBilling(calls), Len(calls))
         /\ Total(Passed(calls), Len(calls)) <= Len(calls)
<1>1. /\ scene \in DOMAIN Scenes /\ calls \in Seq(CallSet) /\ PlaceInv /\ Dearest \in Nat
      /\ \A c \in DOMAIN calls : CallOK(calls[c], strict)
  BY Known
<1>2. Priced(calls)
  BY <1>1 DEF Priced, CallOK
<1>3. \A n \in Scene.running : Cardinality(Placed(calls, n)) <= Concurrency
  BY <1>1 DEF PlaceInv
<1>4. /\ AtOnce \in Nat
      /\ Total(Owing(calls), Len(calls)) <= Total(Billing(calls), Len(calls))
      /\ Total(Billing(calls), Len(calls)) <= Total(EverBilling(calls), Len(calls))
      /\ Total(Passed(calls), Len(calls)) <= Len(calls)
  BY <1>1, <1>2, <1>3, RoomTotals
<1>5. AtOnce * 2 \in Nat /\ AtOnce * 2 * Dearest \in Nat
  BY <1>1, <1>4, TimesGrows
<1>6. QED
  BY <1>1, <1>2, <1>4, <1>5, RowMeasures

\* The bill stays within the largest limit and what was under way.
LEMMA BillHolds ==
  ASSUME SpendInv
  PROVE  BillBounded
<1> SUFFICES ASSUME ~strict.loose
             PROVE  strict.bill <= Greater(strict.peak - 1, 0) + AtOnce * 2 * Dearest
  BY DEF BillBounded
<1> DEFINE owing == Total(Owing(calls), Len(calls))
           billing == Total(Billing(calls), Len(calls))
           ever == Total(EverBilling(calls), Len(calls))
           atonce == AtOnce * 2 * Dearest
           most == Len(calls) * 2 * Dearest
           all == MaxCalls * 2 * Dearest
           top == Greater(strict.peak - 1, 0)
<1>1. /\ scene \in DOMAIN Scenes /\ calls \in Seq(CallSet) /\ Len(calls) <= MaxCalls
      /\ purse \in Purse /\ strict \in Strict /\ BillInv
      /\ Dearest \in Nat /\ MaxCalls \in Nat /\ Scene.running \subseteq Instances
  BY Known
<1>2. /\ AtOnce \in Nat /\ Len(calls) \in Nat
      /\ owing \in Nat /\ billing \in Nat /\ ever \in Nat
      /\ owing <= billing /\ billing <= ever /\ atonce \in Nat
  BY SpendSums
<1>3. strict.bill \in Nat /\ strict.peak \in Nat /\ purse.day \in Nat
  BY <1>1 DEF Strict, Purse
<1>4. /\ strict.bill = purse.day + owing /\ purse.day + ever <= most
      /\ all <= strict.peak
         \/ purse.day + billing <= top + atonce
  BY <1>1 DEF BillInv
<1>5. most \in Nat /\ all \in Nat /\ most <= all
  BY <1>1, <1>2, TimesGrows
<1>6. top \in Nat /\ strict.peak <= top + 1
  BY <1>3 DEF Greater
<1>7. most = 0 \/ atonce >= 1
  <2>1. CASE Len(calls) = 0 \/ Dearest = 0
    <3>1. CASE Len(calls) = 0
      BY <1>1, <3>1
    <3>2. CASE Dearest = 0
      BY <1>2, <3>2
    <3>3. QED
      BY <2>1, <3>1, <3>2
  <2>2. CASE Len(calls) # 0 /\ Dearest # 0
    <3>1. Scene.running # {}
      <4>1. 1 \in DOMAIN calls /\ calls[1] \in CallSet
        BY <1>1, <1>2, <2>2
      <4>2. QED
        BY <4>1 DEF CallSet
    <3>2. IsFiniteSet(Scene.running)
      BY <1>1, AiAssumption, FS_Subset
    <3>3. Cardinality(Scene.running) \in Nat /\ Cardinality(Scene.running) # 0
      BY <3>1, <3>2, FS_CardinalityType, FS_EmptySet
    <3>4. Concurrency \in Nat /\ Concurrency # 0
      BY AiAssumption
    <3>5. AtOnce >= 1
      BY <3>3, <3>4 DEF AtOnce
    <3>6. 1 * 2 * Dearest <= AtOnce * 2 * Dearest
      BY <1>1, <1>2, <3>5, TimesGrows
    <3>7. 1 * 2 * Dearest >= 1
      BY <1>1, <2>2
    <3>8. QED
      BY <1>1, <1>2, <3>6, <3>7
  <2>3. QED
    BY <2>1, <2>2
<1> HIDE DEF owing, billing, ever, atonce, most, all, top
<1>8. strict.bill <= top + atonce
  <2>1. strict.bill <= purse.day + billing /\ strict.bill <= most
    BY <1>2, <1>3, <1>4, <1>5
  <2>2. CASE all <= strict.peak
    BY <1>2, <1>3, <1>5, <1>6, <1>7, <2>1, <2>2
  <2>3. CASE purse.day + billing <= top + atonce
    BY <1>2, <1>3, <1>6, <2>1, <2>3
  <2>4. QED
    BY <1>4, <2>2, <2>3
<1>9. QED
  BY <1>8 DEF atonce, top

\* The desk refuses what the runtime would bend: what is in range it reads as
\* it stands.
LEMMA InRange ==
  ASSUME NEW d, Partial(d), NEW base, Partial(base), DOMAIN base = Fields,
         Valid(Filled(d, base))
  PROVE  FromJson(d, base) = Filled(d, base)
<1> DEFINE full == Filled(d, base)
           read == FromJson(d, base)
<1>1. /\ Partial(full) /\ DOMAIN full = Fields /\ Valid(full)
  BY FilledType
<1>2. full = [f \in Fields |-> full[f]]
  BY <1>1 DEF Filled
<1>3. DOMAIN read = Fields
  BY AiAssumption DEF FromJson
<1>4. /\ \A f \in Amounts : full[f] \in Int /\ full[f] >= 0
      /\ full["ratio"] \in Int /\ Scale \in Nat
      /\ full["ratio"] * 10 >= Scale /\ full["ratio"] <= Scale
  BY <1>1, AiAssumption DEF Valid, Partial, Fields, Amounts
<1>5. \A f \in Fields :
        read[f] = LET value == full[f]
                  IN  CASE f \in Amounts -> IF value < 0 THEN 0 ELSE value
                        [] f = "ratio" -> IF value * 10 < Scale THEN Scale \div 10
                                          ELSE IF value > Scale THEN Scale ELSE value
                        [] OTHER -> value
  BY FromJsonType
<1> HIDE DEF full
<1>6. ASSUME NEW f \in Fields PROVE read[f] = full[f]
  <2>1. CASE f \in Amounts
    BY <1>4, <1>5, <2>1
  <2>2. CASE f = "ratio"
    <3>1. f \notin Amounts /\ ~(full[f] * 10 < Scale) /\ ~(full[f] > Scale)
      BY <1>4, <2>2 DEF Amounts
    <3>2. QED
      BY <1>5, <2>2, <3>1
  <2>3. CASE f \notin Amounts /\ f # "ratio"
    BY <1>5, <2>3
  <2>4. QED
    BY <2>1, <2>2, <2>3
<1>7. read = [f \in Fields |-> read[f]]
  BY AiAssumption DEF FromJson
<1> HIDE DEF read
<1>8. read = full
  BY <1>2, <1>6, <1>7
<1>9. QED
  BY <1>8 DEF read, full

\* What the editor is shown is what is enforced.
LEMMA ShownHolds ==
  ASSUME SpendInv
  PROVE  ShownIsEnforced
<1> SUFFICES ASSUME Valid(Filled(Scene.limits, BaseLimits))
             PROVE  Shown = Enforced
  BY DEF ShownIsEnforced
<1>1. scene \in DOMAIN Scenes /\ DocInv /\ EnvLimits \in LimitSet
  BY Known
<1>2. Partial(Scene.limits) /\ Partial(BaseLimits) /\ DOMAIN BaseLimits = Fields
  BY <1>1, AiAssumption DEF Scene
<1>3. /\ ShownByDefault = Filled(Scene.limits, BaseLimits)
      /\ EnvLimits = ShownByDefault /\ Valid(ShownByDefault)
  BY <1>2, InRange DEF ShownByDefault, EnvLimits
<1>4. CASE doc = Nothing
  BY <1>3, <1>4 DEF Shown, Enforced
<1>5. CASE doc # Nothing
  <2>1. Partial(doc) /\ DOMAIN doc = Fields /\ Valid(doc)
    BY <1>1, <1>5 DEF DocInv
  <2>2. Partial(EnvLimits) /\ DOMAIN EnvLimits = Fields
    BY <1>1, LimitsWhole
  <2>3. Filled(doc, EnvLimits) = [f \in Fields |-> doc[f]]
    BY <2>1, <2>2 DEF Filled
  <2>4. Valid(Filled(doc, EnvLimits))
    BY <2>1, <2>3 DEF Valid, Fields, Amounts
  <2>5. Enforced = Filled(doc, EnvLimits)
    BY <1>5, <2>1, <2>2, <2>4, InRange DEF Enforced
  <2>6. Shown = Filled(doc, EnvLimits)
    BY <1>3, <1>5, <2>4 DEF Shown
  <2>7. QED
    BY <2>5, <2>6
<1>6. QED
  BY <1>4, <1>5

\* The invariant gives what is promised.
LEMMA SpendKept ==
  ASSUME SpendInv
  PROVE  SpendBounded
<1>1. /\ purse \in Purse /\ strict \in Strict /\ Len(calls) <= MaxCalls
      /\ BillInv /\ MineInv /\ RateInv /\ ShareInv
      /\ EnvLimits \in LimitSet /\ Dearest \in Nat /\ MaxCalls \in Nat
  BY Known
<1>2. /\ strict.bill \in Nat /\ strict.admitted \in Nat /\ strict.most \in Nat
      /\ \A p \in People : purse.times[p] \in Nat
  BY <1>1 DEF Strict, Purse
<1>3. BillIsKnown
  <2>1. [c \in DOMAIN calls |-> Owed(calls[c])] = Owing(calls)
    BY DEF Owing
  <2>2. QED
    BY <1>1, <2>1 DEF BillIsKnown, BillInv, MineInv
<1>4. RateKept
  <2>1. Total(Passed(calls), Len(calls)) \in Nat /\ Len(calls) \in Nat
        /\ Total(Passed(calls), Len(calls)) <= Len(calls)
    BY SpendSums
  <2>2. QED
    BY <1>1, <1>2, <2>1 DEF RateKept, RateInv
<1>5. ShareKept
  <2> SUFFICES ASSUME NEW p \in People, EnvLimits.actorCalls > 0, ~strict.loose,
                      Scene.edits = <<>>
               PROVE  purse.times[p] <= EnvLimits.actorCalls - 1 + AtOnce * 2
    BY DEF ShareKept
  <2>1. purse.times[p] + Total(Counting(p, calls), Len(calls))
          <= EnvLimits.actorCalls - 1 + AtOnce * 2
    BY <1>1 DEF ShareInv
  <2>2. Total(Counting(p, calls), Len(calls)) \in Nat /\ AtOnce * 2 \in Nat
    BY SpendSums
  <2>3. EnvLimits.actorCalls \in Nat
    BY <1>1, LimitsWhole
  <2>4. QED
    BY <1>2, <2>1, <2>2, <2>3
<1>6. QED
  BY <1>3, <1>4, <1>5, BillHolds, ShownHolds DEF SpendBounded

\* The calls, the counters and the limits keep to what SpendInv says of them:
\* each call's place, what it has billed and may bill, and against whom.
THEOREM SpendIsInvariant == Spec => []SpendInv
<1>1. Init => SpendInv
  BY SpendStarts
<1>2. SpendInv /\ [Next]_vars => SpendInv'
  BY SpendStep
<1>3. QED
  BY <1>1, <1>2, PTL DEF Spec

\* For any number of instances, callers, scenes and faults: a day's bill passes
\* the largest limit any call was held to by no more than what was under way
\* when it was reached, the counters are the bill as long as nothing fails, no minute admits
\* more than its limit, nobody's share is exceeded by more than what was under
\* way, and the editor shows what is enforced (budget.py, ai_limits.py).
THEOREM SpendIsBounded == Spec => []SpendBounded
<1>1. SpendInv => SpendBounded
  BY SpendKept
<1>2. QED
  BY <1>1, SpendIsInvariant, PTL

-----------------------------------------------------------------------------
(* The log only grows, and who may write what into it.                       *)

\* A sequence of whatever it holds.
IsSeq(s) == s \in Seq({s[n] : n \in DOMAIN s})

\* t is s and one more.
Grown(s, t, e) ==
  /\ IsSeq(t) /\ Len(t) = Len(s) + 1 /\ t[Len(s) + 1] = e
  /\ \A n \in 1..Len(s) : t[n] = s[n]

LEMMA SeqSize ==
  ASSUME NEW s, IsSeq(s)
  PROVE  Len(s) \in Nat /\ DOMAIN s = 1..Len(s)
BY DEF IsSeq

LEMMA IsSeqOf ==
  ASSUME NEW S, NEW s \in Seq(S)
  PROVE  IsSeq(s)
<1>1. Len(s) \in Nat /\ s \in [1..Len(s) -> S] /\ DOMAIN s = 1..Len(s)
  OBVIOUS
<1> DEFINE T == {s[n] : n \in DOMAIN s}
<1>2. s \in [1..Len(s) -> T]
  BY <1>1
<1> HIDE DEF T
<1>3. s \in Seq(T)
  BY <1>1, <1>2
<1>4. QED
  BY <1>3 DEF IsSeq, T

LEMMA Grows ==
  ASSUME NEW s, IsSeq(s), NEW e
  PROVE  Grown(s, s \o <<e>>, e) /\ Grown(s, Append(s, e), e)
<1> DEFINE S == {s[n] : n \in DOMAIN s} \cup {e}
<1>1. s \in Seq(S) /\ e \in S
  <2>1. s \in Seq({s[n] : n \in DOMAIN s})
    BY DEF IsSeq
  <2>2. Len(s) \in Nat /\ DOMAIN s = 1..Len(s)
    BY SeqSize
  <2>3. \A n \in 1..Len(s) : s[n] \in S
    BY <2>2
  <2>4. s \in [1..Len(s) -> S]
    BY <2>1, <2>2, <2>3
  <2> HIDE DEF S
  <2>5. QED
    BY <2>2, <2>4 DEF S
<1> HIDE DEF S
<1>2. Append(s, e) \in Seq(S) /\ s \o <<e>> \in Seq(S) /\ <<e>> \in Seq(S)
  BY <1>1
<1>3. /\ Len(Append(s, e)) = Len(s) + 1 /\ Append(s, e)[Len(s) + 1] = e
      /\ \A n \in 1..Len(s) : Append(s, e)[n] = s[n]
  BY <1>1
<1>4. /\ Len(s \o <<e>>) = Len(s) + 1 /\ (s \o <<e>>)[Len(s) + 1] = e
      /\ \A n \in 1..Len(s) : (s \o <<e>>)[n] = s[n]
  BY <1>1, <1>2
<1>5. IsSeq(Append(s, e)) /\ IsSeq(s \o <<e>>)
  BY <1>2, IsSeqOf
<1>6. QED
  BY <1>3, <1>4, <1>5 DEF Grown

LEMMA Shrinks ==
  ASSUME NEW s, IsSeq(s), s # <<>>
  PROVE  /\ IsSeq(Tail(s)) /\ Len(Tail(s)) = Len(s) - 1 /\ Len(s) \in Nat \ {0}
         /\ Head(s) = s[1] /\ \A n \in 1..(Len(s) - 1) : Tail(s)[n] = s[n + 1]
<1> DEFINE S == {s[n] : n \in DOMAIN s}
<1>1. s \in Seq(S)
  BY DEF IsSeq
<1> HIDE DEF S
<1>2. Tail(s) \in Seq(S)
  BY <1>1
<1>3. IsSeq(Tail(s))
  BY <1>2, IsSeqOf
<1>4. QED
  BY <1>1, <1>3

\* Events of a kind are places of the log.
LEMMA Earlier ==
  ASSUME NEW S, S \subseteq Nat, S # {}
  PROVE  /\ Earliest(S) \in S /\ \A j \in S : Earliest(S) <= j
<1> DEFINE R == OpToRel(<, Nat)
<1>1. PICK n \in S : \A m \in S : ~ (<<m, n>> \in R)
  BY NatLessThanWellFounded, WFMin
<1>2. n \in S /\ \A m \in S : n <= m
  <2>1. \A m \in S : ~ (m < n)
    BY <1>1 DEF OpToRel
  <2>2. n \in Nat /\ \A m \in S : m \in Nat
    OBVIOUS
  <2>3. QED
    BY <2>1, <2>2
<1>3. QED
  BY <1>2 DEF Earliest

LEMMA Later ==
  ASSUME NEW n \in Nat, NEW S, S \subseteq 1..n, S # {}
  PROVE  /\ Latest(S) \in S /\ \A j \in S : j <= Latest(S)
<1> DEFINE U == {m \in Nat : \A j \in S : j <= m}
<1>1. n \in U
  OBVIOUS
<1>2. U \subseteq Nat /\ U # {}
  BY <1>1
<1> DEFINE m == Earliest(U)
<1>3. m \in U /\ \A j \in U : m <= j
  <2> HIDE DEF U
  <2> QED
    BY <1>2, Earlier
<1> HIDE DEF m
<1>4. m \in S
  <2> SUFFICES ASSUME m \notin S PROVE FALSE
    OBVIOUS
  <2>1. PICK j \in S : TRUE
    OBVIOUS
  <2>2. \A i \in S : i <= m - 1 /\ i \in 1..n
    BY <1>3
  <2>3. m - 1 \in U
    BY <1>3, <2>1, <2>2
  <2>4. QED
    BY <1>3, <2>3
<1>5. QED
  BY <1>3, <1>4 DEF Latest

-----------------------------------------------------------------------------
(* The director: what it remembers after a crash, and what it may write.     *)

Paced ==
  IF Of({"season"}) = {} THEN Blank ELSE WithSeason(Blank, log[Latest(Of({"season"}))])

PlanDays == {log[i].tick \div DayTicks : i \in {j \in Of({"audit"}) : log[j].tool \in Plans}}

\* memory[n] is what the first n events leave.
Recalls(memory) ==
  /\ memory[0] = [Paced EXCEPT !.day = IF PlanDays = {} THEN -1 ELSE Latest(PlanDays)]
  /\ \A n \in 1..Len(log) :
       memory[n] = IF n \in Of({"audit"}) THEN Remembered(memory[n - 1], n) ELSE memory[n - 1]

\* A restarted director is what its audits make of it, one after another.
LEMMA RestoredRecalls ==
  ASSUME IsSeq(log)
  PROVE  \E memory : Recalls(memory) /\ Restored = memory[Len(log)]
<1> DEFINE N == Len(log)
           First == [Paced EXCEPT !.day = IF PlanDays = {} THEN -1 ELSE Latest(PlanDays)]
           Step(v, k) == IF k = 0 THEN First
                         ELSE IF k \in Of({"audit"}) THEN Remembered(v[k - 1], k) ELSE v[k - 1]
           Sum(v, m) == v = [k \in 0..m |-> Step(v, k)]
           Some(m) == \E v : Sum(v, m)
           I == {m \in Nat : Some(m)}
<1>0. N \in Nat
  BY SeqSize
<1>1. Some(0)
  <2> HIDE DEF First
  <2> DEFINE v == [k \in 0..0 |-> First]
  <2>1. \A k \in 0..0 : Step(v, k) = First
    BY DEF Step
  <2>2. v = [k \in 0..0 |-> Step(v, k)]
    <3> HIDE DEF Step
    <3> QED
      BY <2>1
  <2>3. QED
    <3> HIDE DEF Step, v
    <3> QED
      BY <2>2
<1>2. ASSUME NEW m \in Nat, Some(m) PROVE Some(m + 1)
  <2>1. PICK v : Sum(v, m)
    BY <1>2
  <2> DEFINE u == [k \in 0..(m + 1) |-> IF k <= m THEN v[k] ELSE Step(v, k)]
  <2>4. \A k \in 0..(m + 1) : Step(u, k) = Step(v, k)
    <3> SUFFICES ASSUME NEW k \in 0..(m + 1), k # 0 PROVE u[k - 1] = v[k - 1]
      OBVIOUS
    <3>1. k - 1 \in 0..(m + 1) /\ k - 1 <= m
      OBVIOUS
    <3> HIDE DEF Step
    <3>2. QED
      BY <3>1
  <2>5. \A k \in 0..m : v[k] = Step(v, k)
    <3> HIDE DEF Step
    <3> QED
      BY <2>1
  <2>6. \A k \in 0..(m + 1) : u[k] = Step(u, k)
    <3> HIDE DEF Step
    <3>1. \A k \in 0..(m + 1) : u[k] = IF k <= m THEN v[k] ELSE Step(v, k)
      OBVIOUS
    <3>2. \A k \in 0..(m + 1) : k <= m => k \in 0..m
      OBVIOUS
    <3> HIDE DEF u
    <3> QED
      BY <2>4, <2>5, <3>1, <3>2
  <2>7. Sum(u, m + 1)
    <3> HIDE DEF Step
    <3> QED
      BY <2>6
  <2>8. QED
    <3> HIDE DEF Sum, u
    <3> QED
      BY <2>7
<1>3. Some(N)
  <2> HIDE DEF Some, N
  <2>1. 0 \in I /\ \A m \in Nat : m \in I => m + 1 \in I
    BY <1>1, <1>2
  <2>2. Nat \subseteq I
    <3> HIDE DEF I
    <3> QED
      BY <2>1, NatSetInduction
  <2>3. QED
    BY <1>0, <2>2
<1>4. \E v : Sum(v, N) /\ Restored = v[N]
  <2> DEFINE v == CHOOSE v : Sum(v, N)
  <2>1. Restored = v[N]
    BY DEF Restored, Paced, PlanDays
  <2> HIDE DEF Sum, N
  <2>2. Sum(v, N)
    BY <1>3
  <2> HIDE DEF v
  <2>3. QED
    BY <2>1, <2>2
<1>5. PICK v : Sum(v, N) /\ Restored = v[N]
  BY <1>4
<1>6. \A k \in 0..N : v[k] = Step(v, k)
  <2> HIDE DEF Step, N
  <2> QED
    BY <1>5
<1>7. v[0] = First
  <2>1. 0 \in 0..N
    BY <1>0
  <2>2. v[0] = Step(v, 0)
    <3> HIDE DEF Step
    <3> QED
      BY <1>6, <2>1
  <2> HIDE DEF First
  <2>3. QED
    BY <2>2
<1>8. ASSUME NEW n \in 1..N
      PROVE  v[n] = IF n \in Of({"audit"}) THEN Remembered(v[n - 1], n) ELSE v[n - 1]
  <2>1. n \in 0..N /\ n # 0
    BY <1>0
  <2>2. v[n] = Step(v, n)
    <3> HIDE DEF Step
    <3> QED
      BY <1>6, <2>1
  <2>3. QED
    BY <2>1, <2>2
<1>9. Recalls(v)
  BY <1>7, <1>8 DEF Recalls
<1>10. QED
  BY <1>5, <1>9

\* The fields of its memory.
Memory == DOMAIN Blank

LEMMA RememberedMemory ==
  ASSUME NEW d, DOMAIN d = Memory, NEW i
  PROVE  DOMAIN Remembered(d, i) = Memory /\ Remembered(d, i).at = d.at
BY DEF Remembered, Recorded, Memory, Blank

LEMMA RestoredIdle ==
  ASSUME IsSeq(log)
  PROVE  DOMAIN Restored = Memory /\ Restored.at = "idle"
<1>1. PICK memory : Recalls(memory) /\ Restored = memory[Len(log)]
  BY RestoredRecalls
<1> DEFINE Good(d) == DOMAIN d = Memory /\ d.at = "idle"
           I == {n \in Nat : n <= Len(log) => Good(memory[n])}
<1>2. Good(memory[0])
  <2>1. Good(Paced)
    BY DEF Paced, WithSeason, Memory, Blank
  <2> DEFINE day == IF PlanDays = {} THEN -1 ELSE Latest(PlanDays)
  <2>2. memory[0] = [Paced EXCEPT !.day = day]
    BY <1>1 DEF Recalls
  <2> HIDE DEF day
  <2>3. QED
    BY <2>1, <2>2 DEF Memory, Blank
<1>3. ASSUME NEW n \in Nat, n + 1 <= Len(log), Good(memory[n]) PROVE Good(memory[n + 1])
  <2>1. n + 1 \in 1..Len(log) /\ (n + 1) - 1 = n
    BY <1>3, SeqSize
  <2>2. memory[n + 1] = IF n + 1 \in Of({"audit"}) THEN Remembered(memory[n], n + 1)
                        ELSE memory[n]
    BY <1>1, <2>1 DEF Recalls
  <2>3. Good(Remembered(memory[n], n + 1))
    BY <1>3, RememberedMemory
  <2>4. QED
    BY <1>3, <2>2, <2>3
<1> HIDE DEF Good
<1>4. 0 \in I /\ \A n \in Nat : n \in I => n + 1 \in I
  BY <1>2, <1>3, SeqSize
<1>5. Nat \subseteq I
  <2> HIDE DEF I
  <2> QED
    BY <1>4, NatSetInduction
<1>6. Good(memory[Len(log)])
  BY <1>5, SeqSize
<1>7. QED
  BY <1>1, <1>6 DEF Good

-----------------------------------------------------------------------------

\* What it is about to write is one of its own kinds of event.
DirectorOK ==
  /\ DOMAIN dir = Memory
  /\ dir.at \in {"audit", "output"} => dir.act.event.type \in Outputs

LEMMA RulesPlay ==
  ASSUME NEW tension, NEW total, NEW avoid, NEW t
  PROVE  RuleAct(tension, total, avoid, t).event.type \in Outputs
BY DEF RuleAct, Act, SpotlightEvent, BoostEvent, NudgeEvent, IncidentEvent, Outputs

Dramas == Outputs \ Plans

\* What rules and models propose is of now, and is what it is taken for.
IsDrama(act, t) ==
  act.event.tick = t /\ act.tool \notin Plans /\ act.event.type \in Dramas

LEMMA PlansAct ==
  ASSUME NEW plan, NEW tension, NEW capped, NEW t
  PROVE  PlanAct(plan, tension, capped, t) = Nothing
         \/ IsDrama(PlanAct(plan, tension, capped, t), t)
<1>1. PlanIncident(plan, tension, t) = Nothing \/ IsDrama(PlanIncident(plan, tension, t), t)
  BY DEF PlanIncident, Act, IncidentEvent, IsDrama, Dramas, Outputs, Plans
<1>2. PlanNudge(plan, tension, t) = Nothing \/ IsDrama(PlanNudge(plan, tension, t), t)
  BY DEF PlanNudge, Act, NudgeEvent, IsDrama, Dramas, Outputs, Plans
<1>3. PlanPromote(plan, tension, t) = Nothing \/ IsDrama(PlanPromote(plan, tension, t), t)
  BY DEF PlanPromote, Act, SpotlightEvent, IsDrama, Dramas, Outputs, Plans
<1>4. PlanBoost(plan, tension, t) = Nothing \/ IsDrama(PlanBoost(plan, tension, t), t)
  BY DEF PlanBoost, Act, BoostEvent, IsDrama, Dramas, Outputs, Plans
<1>5. QED
  BY <1>1, <1>2, <1>3, <1>4 DEF PlanAct

\* act is what was aimed at.
Aimed(aim, act, t) ==
  /\ act.event.tick = t
  /\ aim \in Plans => act.tool = aim /\ act.event.type = aim
  /\ aim = "season" => act.event.most \in Int
  /\ aim = "drama" => act.tool \notin Plans /\ act.event.type \in Dramas

LEMMA PlansAim ==
  ASSUME NEW plan, NEW t
  PROVE  /\ PlanSeason(plan, t) = Nothing \/ Aimed("season", PlanSeason(plan, t), t)
         /\ PlanArc(plan, t) = Nothing \/ Aimed("arc", PlanArc(plan, t), t)
<1>1. PlanSeason(plan, t) = Nothing \/ Aimed("season", PlanSeason(plan, t), t)
  <2> SUFFICES ASSUME PlanSeason(plan, t) # Nothing PROVE Aimed("season", PlanSeason(plan, t), t)
    OBVIOUS
  <2>1. plan.theme \in DOMAIN Themes
    BY DEF PlanSeason
  <2>2. Themes[plan.theme].most \in Int
    BY <2>1, RulesAssumption
  <2>3. QED
    BY <2>1, <2>2 DEF PlanSeason, Act, Aimed, Plans
<1>2. PlanArc(plan, t) = Nothing \/ Aimed("arc", PlanArc(plan, t), t)
  BY DEF PlanArc, Act, Aimed, Plans
<1>3. QED
  BY <1>1, <1>2

LEMMA PlansPlay ==
  ASSUME NEW plan, NEW tension, NEW capped, NEW t
  PROVE  /\ \/ PlanAct(plan, tension, capped, t) = Nothing
            \/ PlanAct(plan, tension, capped, t).event.type \in Outputs
         /\ \/ PlanSeason(plan, t) = Nothing
            \/ PlanSeason(plan, t).event.type \in Outputs
         /\ \/ PlanArc(plan, t) = Nothing
            \/ PlanArc(plan, t).event.type \in Outputs
BY PlansAct, PlansAim DEF IsDrama, Dramas, Aimed, Plans, Outputs

\* One entry is written, or none, by the director.
DirectorWrites ==
  \/ log' = log
  \/ \E e : e.type \in {"audit"} \cup Outputs /\ Grown(log, log', e)

LEMMA WriteOne ==
  ASSUME IsSeq(log), NEW e, Write(<<e>>)
  PROVE  Grown(log, log', e) /\ Len(log') <= MaxLog
<1>1. log' = log \o <<e>> /\ Len(log) + Len(<<e>>) <= MaxLog
  BY DEF Write
<1>2. Grown(log, log \o <<e>>, e) /\ Len(<<e>>) = 1
  BY Grows
<1>3. Grown(log, log', e)
  BY <1>1, <1>2
<1>4. QED
  BY <1>1, <1>2, <1>3 DEF Grown

LEMMA IdleMemory ==
  ASSUME NEW d, DOMAIN d = Memory
  PROVE  /\ DOMAIN Idle(d) = Memory /\ Idle(d).at = "idle"
         /\ DOMAIN AfterSeason(d) = Memory /\ AfterSeason(d).at = "arcs"
         /\ DOMAIN AfterArcs(d) = Memory /\ AfterArcs(d).at = "judge"
         /\ DOMAIN Onward(d) = Memory /\ Onward(d).at \in {"idle", "arcs", "judge"}
<1>1. DOMAIN AfterSeason(d) = Memory /\ AfterSeason(d).at = "arcs"
  BY DEF AfterSeason, Memory, Blank
<1>2. DOMAIN AfterArcs(d) = Memory /\ AfterArcs(d).at = "judge"
  BY <1>1 DEF AfterArcs, Memory, Blank
<1>3. DOMAIN Idle(d) = Memory /\ Idle(d).at = "idle"
  BY <1>1 DEF Idle, Memory, Blank
<1>4. QED
  BY <1>1, <1>2, <1>3 DEF Onward

LEMMA DirectorStepKeeps ==
  ASSUME IsSeq(log), DirectorOK, DirectorStep
  PROVE  DirectorOK' /\ DirectorWrites /\ UNCHANGED <<scene, script>>
<1> DEFINE Goal == DirectorOK' /\ DirectorWrites /\ UNCHANGED <<scene, script>>
<1>0. DOMAIN dir = Memory
  BY DEF DirectorOK
<1>1. ASSUME Observe PROVE Goal
  <2>1. dir.at = "idle" /\ UNCHANGED logVars
    BY <1>1 DEF Observe, Waiting
  <2>2. DOMAIN dir' = Memory /\ dir'.at = dir.at
    BY <1>0, <1>1 DEF Observe, Memory, Blank
  <2>3. QED
    BY <2>1, <2>2 DEF DirectorOK, DirectorWrites, logVars
<1>2. ASSUME Attend PROVE Goal
  <2>1. dir.at = "idle" /\ UNCHANGED logVars
    BY <1>2 DEF Attend, Waiting
  <2>2. DOMAIN dir' = Memory /\ dir'.at = dir.at
    BY <1>0, <1>2 DEF Attend, Memory, Blank
  <2>3. QED
    BY <2>1, <2>2 DEF DirectorOK, DirectorWrites, logVars
<1>3. ASSUME CloseTick PROVE Goal
  <2>1. UNCHANGED <<scene, log, script>>
    BY <1>3 DEF CloseTick
  <2>2. \A i : DOMAIN Closed(dir, i) = Memory
    BY <1>0 DEF Closed, Memory, Blank
  <2>3. \A d : DOMAIN d = Memory => DOMAIN Reviewed(d) = Memory
    BY DEF Reviewed, Memory, Blank
  <2> DEFINE closed == Closed(dir, Next_("system", Controls))
             day == log[Next_("system", Controls)].tick \div DayTicks
  <2>4. \/ dir' = [closed EXCEPT !.at = "judge"]
        \/ dir' = [Reviewed(closed) EXCEPT !.day = day, !.at = "season"]
        \/ dir' = [closed EXCEPT !.day = day, !.at = "season"]
    BY <1>3 DEF CloseTick
  <2>5. DOMAIN closed = Memory /\ DOMAIN Reviewed(closed) = Memory
    BY <2>2, <2>3
  <2> HIDE DEF closed, day
  <2>6. DOMAIN dir' = Memory /\ dir'.at \in {"judge", "season"}
    BY <2>4, <2>5 DEF Memory, Blank
  <2>7. QED
    BY <2>1, <2>6 DEF DirectorOK, DirectorWrites
<1>4. ASSUME Recall PROVE Goal
  <2>1. dir.at = "idle" /\ UNCHANGED logVars
    BY <1>4 DEF Recall, Waiting
  <2>2. \A e : DOMAIN WithSeason(dir, e) = Memory /\ WithSeason(dir, e).at = dir.at
    BY <1>0 DEF WithSeason, Memory, Blank
  <2>3. \A i : DOMAIN Remembered(dir, i) = Memory /\ Remembered(dir, i).at = dir.at
    BY <1>0, RememberedMemory
  <2>4. DOMAIN dir' = Memory /\ dir'.at = dir.at
    BY <1>0, <1>4, <2>2, <2>3 DEF Recall
  <2>5. QED
    BY <2>1, <2>4 DEF DirectorOK, DirectorWrites, logVars
<1>5. ASSUME SkipPlan PROVE Goal
  <2>1. UNCHANGED logVars /\ (dir' = AfterSeason(dir) \/ dir' = AfterArcs(dir))
    BY <1>5 DEF SkipPlan, Proceed
  <2>2. QED
    BY <1>0, <2>1, IdleMemory DEF DirectorOK, DirectorWrites, logVars
<1>6. ASSUME AppendAudit PROVE Goal
  <2> DEFINE e == [type |-> "audit", tool |-> dir.act.tool, selector |-> dir.act.selector,
                   kind |-> KindOf(dir.act), tick |-> dir.tick]
  <2>1. dir.at = "audit" /\ Write(<<e>>) /\ UNCHANGED <<scene, script>>
        /\ dir' = [dir EXCEPT !.at = "output", !.call = Len(log) + 1]
    BY <1>6 DEF AppendAudit
  <2>2. Grown(log, log', e)
    <3> HIDE DEF e
    <3> QED
      BY <2>1, WriteOne
  <2>3. e.type = "audit"
    OBVIOUS
  <2> HIDE DEF e
  <2>4. DOMAIN dir' = Memory /\ dir'.act = dir.act
    BY <1>0, <2>1 DEF Memory, Blank
  <2>5. QED
    BY <2>1, <2>2, <2>3, <2>4 DEF DirectorOK, DirectorWrites
<1>7. ASSUME AppendOutput PROVE Goal
  <2>1. dir.at = "output" /\ Write(<<dir.act.event>>) /\ UNCHANGED <<scene, script>>
    BY <1>7 DEF AppendOutput
  <2>2. Grown(log, log', dir.act.event) /\ dir.act.event.type \in Outputs
    BY <2>1, WriteOne DEF DirectorOK
  <2> DEFINE known == [dir EXCEPT !.seen = @ \cup {dir.call}]
             paid == [Recorded(known, dir.act.tool, KindOf(dir.act), dir.tick) EXCEPT !.quiet = 0]
  <2>3. DOMAIN known = Memory
    BY <1>0 DEF Memory, Blank
  <2>4. DOMAIN paid = Memory
    <3> HIDE DEF known
    <3> QED
      BY <2>3 DEF Recorded, Memory, Blank
  <2>5. dir' = Idle(paid) \/ dir' = Onward(known)
    BY <1>7 DEF AppendOutput, Proceed
  <2> HIDE DEF known, paid
  <2>6. DOMAIN dir' = Memory /\ dir'.at \in {"idle", "arcs", "judge"}
    BY <2>3, <2>4, <2>5, IdleMemory
  <2>7. QED
    BY <2>1, <2>2, <2>6 DEF DirectorOK, DirectorWrites
<1>8. ASSUME AppendFails PROVE Goal
  <2>1. UNCHANGED <<scene, log, script>> /\ dir' = Idle(dir)
    BY <1>8 DEF AppendFails, Proceed
  <2>2. QED
    BY <1>0, <2>1, IdleMemory DEF DirectorOK, DirectorWrites
<1>9. ASSUME DirectorCrash PROVE Goal
  <2>1. UNCHANGED <<scene, log, script>> /\ dir' = Restored
    BY <1>9 DEF DirectorCrash
  <2>2. QED
    BY <2>1, RestoredIdle DEF DirectorOK, DirectorWrites
<1>10. QED
  BY <1>1, <1>2, <1>3, <1>4, <1>5, <1>6, <1>7, <1>8, <1>9 DEF DirectorStep

\* Whom it looks at when it judges, and what it makes of that.
Judging(recent, tension, hits) ==
  [dir EXCEPT !.aim = "drama", !.tension = tension, !.recent = recent, !.hits = hits]

Judged(c, recent, tension, hits) ==
  LET judging == Judging(recent, tension, hits)
  IN  dir' = CASE ~Fireable -> Idle(judging)
               [] Fireable /\ Scene.ai -> [judging EXCEPT !.at = "asked", !.call = c]
               [] OTHER -> [judging EXCEPT !.at = "audit",
                              !.act = RuleAct(tension, dir.total, LastKind, dir.tick)]

LEMMA JudgeChooses ==
  ASSUME NEW c, Judge(c)
  PROVE  \E tension, hits : Judged(c, Spent(dir.recent, dir.tick), tension, hits)
BY DEF Judge, Proceed, Judged, Judging

LEMMA DirectorTalkKeeps ==
  ASSUME DirectorOK, DirectorAsks \/ DirectorHears
  PROVE  DirectorOK' /\ UNCHANGED <<scene, log, script>>
<1> DEFINE Goal == DirectorOK' /\ UNCHANGED <<scene, log, script>>
<1>0. DOMAIN dir = Memory
  BY DEF DirectorOK
<1>1. ASSUME NEW c, AskPlan(c) PROVE Goal
  <2>1. DOMAIN dir' = Memory /\ dir'.at = "asked" /\ UNCHANGED logVars
    BY <1>0, <1>1 DEF AskPlan, Proceed, Memory, Blank
  <2>2. QED
    BY <2>1 DEF DirectorOK, logVars
<1>2. ASSUME NEW c, Judge(c) PROVE Goal
  <2> DEFINE recent == Spent(dir.recent, dir.tick)
  <2>1. PICK tension, hits : Judged(c, recent, tension, hits)
    BY <1>2, JudgeChooses
  <2> DEFINE judging == Judging(recent, tension, hits)
             act == RuleAct(tension, dir.total, LastKind, dir.tick)
  <2>2. dir' = CASE ~Fireable -> Idle(judging)
                 [] Fireable /\ Scene.ai -> [judging EXCEPT !.at = "asked", !.call = c]
                 [] OTHER -> [judging EXCEPT !.at = "audit", !.act = act]
    BY <2>1 DEF Judged
  <2>3. act.event.type \in Outputs
    BY RulesPlay
  <2> HIDE DEF recent, act
  <2>4. DOMAIN judging = Memory
    BY <1>0 DEF Judging, Memory, Blank
  <2> HIDE DEF judging
  <2>5. DOMAIN dir' = Memory
        /\ (dir'.at \in {"idle", "asked"} \/ (dir'.at = "audit" /\ dir'.act = act))
    <3>1. CASE dir' = Idle(judging)
      <4>1. DOMAIN Idle(judging) = Memory /\ Idle(judging).at = "idle"
        BY <2>4, IdleMemory
      <4>2. QED
        BY <3>1, <4>1
    <3>2. CASE dir' = [judging EXCEPT !.at = "asked", !.call = c]
      <4>1. DOMAIN dir' = Memory /\ dir'.at = "asked"
        BY <2>4, <3>2 DEF Memory, Blank
      <4>2. QED
        BY <4>1
    <3>3. CASE dir' = [judging EXCEPT !.at = "audit", !.act = act]
      BY <2>4, <3>3 DEF Memory, Blank
    <3>4. QED
      BY <2>2, <3>1, <3>2, <3>3
  <2>6. UNCHANGED logVars
    BY <1>2 DEF Judge
  <2>7. QED
    BY <2>3, <2>5, <2>6 DEF DirectorOK, logVars
<1>3. ASSUME NEW plan, Hear(plan) PROVE Goal
  <2> DEFINE proposed ==
               CASE plan = Nothing -> Nothing
                 [] dir.aim = "season" -> PlanSeason(plan, dir.tick)
                 [] dir.aim = "arc" -> PlanArc(plan, dir.tick)
                 [] OTHER -> PlanAct(plan, dir.tension, Capped(dir.tools), dir.tick)
             rule == RuleAct(dir.tension, dir.total, LastKind, dir.tick)
             act == IF proposed = Nothing /\ dir.aim = "drama" THEN rule ELSE proposed
  <2>1. /\ dir' = IF act = Nothing THEN Onward(dir)
                  ELSE [dir EXCEPT !.at = "audit", !.act = act, !.call = Nothing]
        /\ UNCHANGED <<scene, log, script>>
    BY <1>3 DEF Hear, Proceed
  <2>2. rule.event.type \in Outputs
    BY RulesPlay
  <2>3. proposed = Nothing \/ proposed.event.type \in Outputs
    BY PlansPlay
  <2> HIDE DEF proposed, rule
  <2>4. act = Nothing \/ act.event.type \in Outputs
    BY <2>2, <2>3
  <2> HIDE DEF act
  <2>5. DOMAIN dir' = Memory
        /\ (dir'.at \in {"idle", "arcs", "judge"} \/ (act # Nothing /\ dir'.act = act))
    <3>1. CASE act = Nothing
      <4>1. DOMAIN Onward(dir) = Memory /\ Onward(dir).at \in {"idle", "arcs", "judge"}
        BY <1>0, IdleMemory
      <4>2. dir' = Onward(dir)
        BY <2>1, <3>1
      <4>3. QED
        BY <4>1, <4>2
    <3>2. CASE act # Nothing
      <4>1. dir' = [dir EXCEPT !.at = "audit", !.act = act, !.call = Nothing]
        BY <2>1, <3>2
      <4>2. QED
        BY <1>0, <3>2, <4>1 DEF Memory, Blank
    <3>3. QED
      BY <3>1, <3>2
  <2>6. QED
    BY <2>1, <2>4, <2>5 DEF DirectorOK
<1>4. QED
  BY <1>1, <1>2, <1>3 DEF DirectorAsks, DirectorHears

\* Its entries are bounded, as everybody's are.
LEMMA DirectorBounded ==
  ASSUME IsSeq(log), DirectorStep, log' # log
  PROVE  Len(log') <= MaxLog
<1>1. \E e : Write(<<e>>)
  BY DEF DirectorStep, Observe, Attend, CloseTick, Recall, SkipPlan, AppendAudit, AppendOutput,
         AppendFails, DirectorCrash, logVars
<1>2. QED
  BY <1>1, WriteOne

-----------------------------------------------------------------------------
(* The log: what is in it and what the world has still to write.             *)

\* The log or a longer one.
Extended == IsSeq(log') /\ Len(log) <= Len(log') /\ \A n \in 1..Len(log) : log'[n] = log[n]

LEMMA GrownExtends ==
  ASSUME IsSeq(log), NEW e, log' = log \/ Grown(log, log', e)
  PROVE  Extended
BY SeqSize DEF Extended, Grown

\* What was in the log before is there still.
LEMMA OldEntries ==
  ASSUME IsSeq(log), Extended, NEW types
  PROVE  {j \in Of(types)' : j <= Len(log)} = Of(types)
<1>1. Len(log) \in Nat /\ Len(log') \in Nat
  BY SeqSize DEF Extended
<1>2. \A j \in Ids : j \in Ids' /\ log'[j] = log[j] /\ j <= Len(log)
  BY <1>1 DEF Ids, Extended
<1>3. \A j \in Ids' : j <= Len(log) => j \in Ids
  BY <1>1 DEF Ids
<1>4. QED
  BY <1>2, <1>3 DEF Of

\* A chapter's predecessor is settled when it is written.
LEMMA StageStays ==
  ASSUME IsSeq(log), Extended, NEW i \in 1..Len(log)
  PROVE  PreviousStage(i)' = PreviousStage(i)
<1> DEFINE earlier == {j \in Of({"arc"}) : j < i /\ log[j].who = log[i].who}
<1>1. Len(log) \in Nat /\ Len(log') \in Nat /\ \A n \in 1..Len(log) : log'[n] = log[n]
  BY SeqSize DEF Extended
<1>2. earlier' = earlier
  BY <1>1 DEF Of, Ids, Extended
<1>3. earlier \subseteq 1..Len(log)
  BY DEF Of, Ids
<1>4. PreviousStage(i) = IF earlier = {} THEN Nothing ELSE log[Latest(earlier)].stage
  BY DEF PreviousStage
<1>5. PreviousStage(i)' = IF earlier' = {} THEN Nothing ELSE log'[Latest(earlier')].stage
  BY DEF PreviousStage
<1> HIDE DEF earlier
<1>6. CASE earlier = {}
  BY <1>2, <1>4, <1>5, <1>6
<1>7. CASE earlier # {}
  <2>1. Latest(earlier) \in 1..Len(log)
    BY <1>1, <1>3, <1>7, Later
  <2>2. log'[Latest(earlier')] = log[Latest(earlier)]
    BY <1>1, <1>2, <2>1
  <2>3. QED
    BY <1>2, <1>4, <1>5, <2>2
<1>8. QED
  BY <1>6, <1>7

\* A deed is somebody's.
DeedOK(e) ==
  e.type = "action" => e.who \in People /\ e.kind \in DOMAIN BaseDrama /\ e.tick \in Nat

\* A post of this entry may follow the log, as the first of its source.
PostOK(e) ==
  e.type = "post" =>
    /\ e.src \in 1..Len(log)
    /\ e.of = "arc" => \A s \in Ids : e.src = s => PreviousStage(s) # e.kind
    /\ \A i \in Of({"post"}) : log[i].src # e.src

\* The posts of the log.
PostsOK ==
  \A j \in Of({"post"}) :
    /\ log[j].src \in 1..(j - 1)
    /\ log[j].of = "arc" =>
         \A s \in 1..(j - 1) : log[j].src = s => PreviousStage(s) # log[j].kind
    /\ \A i \in Of({"post"}) : log[i].src = log[j].src => i = j

\* What the world has still to write, in the order it will.
Expected(n) ==
  LET e == script[n]
  IN  /\ e.type # "player" /\ DeedOK(e)
      /\ e.type = "post" =>
           /\ Scene.crew = {} /\ e.of # "arc" /\ e.src \in 1..(Len(log) + n - 1)
           /\ \A m \in 1..(n - 1) : script[m].type = "post" => script[m].src # e.src
           /\ \A i \in Of({"post"}) : log[i].src # e.src

LogOK ==
  /\ scene \in DOMAIN Scenes /\ IsSeq(log) /\ Len(log) <= MaxLog /\ IsSeq(script)
  /\ PostsOK /\ \A i \in Ids : DeedOK(log[i])
  /\ \A n \in 1..Len(script) : Expected(n)

LEMMA LogStarts ==
  ASSUME Init
  PROVE  LogOK
<1>1. /\ scene \in DOMAIN Scenes /\ log = <<>> /\ script = Scene.script
      /\ Ids = {} /\ Len(log) = 0
  BY DEF Init, LogInit, Ids
<1>2. IsSeq(log)
  BY <1>1 DEF IsSeq
<1>3. Scenes[scene] = Scene
  BY DEF Scene
<1>4. IsSeq(script)
  BY <1>1, <1>3, ScriptAssumption DEF IsSeq
<1>5. Len(log) <= MaxLog
  BY <1>1, LogAssumption
<1>6. PostsOK /\ \A i \in Ids : DeedOK(log[i])
  BY <1>1 DEF PostsOK, Of
<1>7. ASSUME NEW n \in 1..Len(script) PROVE Expected(n)
  <2>1. n \in DOMAIN Scene.script
    BY <1>1, <1>4, SeqSize
  <2>2. Scripted(Scene, n)
    BY <1>1, <1>3, <2>1, ScriptAssumption
  <2>3. n \in Nat /\ 0 + n - 1 = n - 1 /\ Of({"post"}) = {}
    BY <1>1, <1>4, SeqSize DEF Of
  <2>4. QED
    BY <1>1, <2>2, <2>3 DEF Scripted, Expected, DeedOK
<1>8. QED
  BY <1>1, <1>2, <1>4, <1>5, <1>6, <1>7 DEF LogOK

\* The log goes on with an entry that may follow it.
LEMMA PostsGrow ==
  ASSUME LogOK, NEW e, Grown(log, log', e), PostOK(e), DeedOK(e)
  PROVE  PostsOK' /\ \A i \in Ids' : DeedOK(log'[i])
<1> DEFINE N == Len(log)
<1>1. /\ IsSeq(log) /\ N \in Nat /\ Len(log') = N + 1 /\ log'[N + 1] = e
      /\ \A n \in 1..N : log'[n] = log[n]
  BY SeqSize DEF LogOK, Grown
<1>2. Extended
  BY <1>1, GrownExtends
<1>3. Ids = 1..N /\ Ids' = 1..(N + 1)
  BY <1>1 DEF Ids
<1>4. \A i \in Ids' : DeedOK(log'[i])
  BY <1>1, <1>3 DEF LogOK
<1>5. \A i \in 1..N : PreviousStage(i)' = PreviousStage(i)
  BY <1>1, <1>2, StageStays
<1> DEFINE New == Of({"post"})'
           Old == Of({"post"})
<1>6. \A j \in New : j \in Old \/ (j = N + 1 /\ e.type = "post")
  BY <1>1, <1>3 DEF Of
<1>7. \A j \in Old : j \in 1..N /\ log'[j] = log[j]
  BY <1>1, <1>3 DEF Of
<1> HIDE DEF Old
<1>8. \A j \in Old :
        /\ log[j].src \in 1..(j - 1)
        /\ log[j].of = "arc" =>
             \A s \in 1..(j - 1) : log[j].src = s => PreviousStage(s) # log[j].kind
        /\ \A i \in Old : log[i].src = log[j].src => i = j
  BY DEF LogOK, PostsOK, Old
<1>9. e.type = "post" =>
        /\ e.src \in 1..N
        /\ e.of = "arc" => \A s \in 1..N : e.src = s => PreviousStage(s) # e.kind
        /\ \A i \in Old : log[i].src # e.src
  BY <1>3 DEF PostOK, Old
<1> HIDE DEF New, N
<1>10. \A j \in New :
        /\ log'[j].src \in 1..(j - 1)
        /\ log'[j].of = "arc" =>
             \A s \in 1..(j - 1) : log'[j].src = s => PreviousStage(s)' # log'[j].kind
        /\ \A i \in New : log'[i].src = log'[j].src => i = j
  <2> TAKE j \in New
  <2>1. CASE j \in Old
    <3>1. log'[j] = log[j] /\ j \in 1..N /\ log[j].src \in 1..(j - 1)
      BY <1>7, <1>8, <2>1
    <3>2. ASSUME NEW i \in New, log'[i].src = log'[j].src PROVE i = j
      BY <1>1, <1>6, <1>7, <1>8, <1>9, <2>1, <3>1, <3>2
    <3>3. ASSUME NEW s \in 1..(j - 1), log'[j].of = "arc", log'[j].src = s
          PROVE  PreviousStage(s)' # log'[j].kind
      <4>1. s \in 1..N
        BY <1>1, <3>1
      <4>2. PreviousStage(s) # log[j].kind
        BY <1>8, <2>1, <3>1, <3>3
      <4>3. PreviousStage(s)' = PreviousStage(s)
        BY <1>5, <4>1
      <4>4. QED
        BY <3>1, <4>2, <4>3
    <3>4. QED
      BY <3>1, <3>2, <3>3
  <2>2. CASE j = N + 1 /\ e.type = "post"
    <3>1. log'[j] = e /\ e.src \in 1..N
      BY <1>1, <1>9, <2>2
    <3>2. ASSUME NEW i \in New, log'[i].src = log'[j].src PROVE i = j
      BY <1>6, <1>7, <1>9, <2>2, <3>1, <3>2
    <3>3. ASSUME NEW s \in 1..(j - 1), log'[j].of = "arc", log'[j].src = s
          PROVE  PreviousStage(s)' # log'[j].kind
      <4>1. s \in 1..N /\ e.src = s
        BY <1>1, <2>2, <3>1, <3>3
      <4>2. PreviousStage(s) # e.kind
        BY <1>9, <2>2, <3>1, <3>3, <4>1
      <4>3. PreviousStage(s)' = PreviousStage(s)
        BY <1>5, <4>1
      <4>4. QED
        BY <3>1, <4>2, <4>3
    <3>4. log'[j].src \in 1..(j - 1)
      BY <1>1, <2>2, <3>1
    <3>5. QED
      BY <3>2, <3>3, <3>4
  <2>3. QED
    BY <1>6, <2>1, <2>2
<1>11. PostsOK'
  BY <1>10 DEF PostsOK, New
<1>12. QED
  BY <1>4, <1>11

\* Somebody other than the world writes one entry, or nobody does.
Enters(e) ==
  /\ Grown(log, log', e) /\ Len(log') <= MaxLog /\ PostOK(e) /\ DeedOK(e)
  /\ e.type = "post" => Scene.crew # {}

LEMMA LogGoesOn ==
  ASSUME LogOK, UNCHANGED <<scene, script>>, log' = log \/ \E e : Enters(e)
  PROVE  LogOK' /\ Extended
<1>1. IsSeq(log) /\ Len(log) \in Nat /\ DOMAIN log = 1..Len(log)
  BY SeqSize DEF LogOK
<1>2. CASE log' = log
  <2>1. Of({"post"})' = Of({"post"}) /\ Ids' = Ids /\ Of({"arc"})' = Of({"arc"})
    BY <1>2 DEF Of, Ids
  <2>2. \A s : PreviousStage(s)' = PreviousStage(s)
    BY <1>2 DEF PreviousStage, Of, Ids
  <2>3. PostsOK' /\ \A i \in Ids' : DeedOK(log'[i])
    BY <1>2, <2>1, <2>2 DEF LogOK, PostsOK
  <2>4. Extended
    BY <1>1, <1>2 DEF Extended
  <2>5. \A n \in 1..Len(script) : Expected(n)'
    BY <1>2, <2>1 DEF LogOK, Expected, Scene
  <2>6. QED
    BY <1>2, <2>3, <2>4, <2>5 DEF LogOK
<1>3. ASSUME NEW e, Enters(e) PROVE LogOK' /\ Extended
  <2>1. Grown(log, log', e) /\ PostOK(e) /\ DeedOK(e) /\ Len(log') <= MaxLog
    BY <1>3 DEF Enters
  <2>2. PostsOK' /\ \A i \in Ids' : DeedOK(log'[i])
    BY <2>1, PostsGrow
  <2>3. Extended /\ IsSeq(log')
    BY <1>1, <2>1, GrownExtends DEF Grown
  <2>4. Len(log') = Len(log) + 1 /\ log'[Len(log) + 1] = e
        /\ \A n \in 1..Len(log) : log'[n] = log[n]
    BY <2>1 DEF Grown
  <2>5. \A i \in Of({"post"})' : \/ i \in Of({"post"}) /\ log'[i] = log[i]
                                 \/ Scene.crew # {}
    BY <1>1, <1>3, <2>4 DEF Of, Ids, Enters
  <2>6. Scene' = Scene /\ Len(script) \in Nat
    BY SeqSize DEF Scene, LogOK
  <2>7. ASSUME NEW n \in 1..Len(script) PROVE Expected(n)'
    <3>1. Expected(n) /\ script' = script
      BY DEF LogOK
    <3>2. 1..(Len(log) + n - 1) \subseteq 1..(Len(log') + n - 1)
      BY <1>1, <2>4, <2>6
    <3>3. QED
      BY <2>5, <2>6, <3>1, <3>2 DEF Expected
  <2>8. QED
    BY <2>1, <2>2, <2>3, <2>7 DEF LogOK
<1>4. QED
  BY <1>2, <1>3

LEMMA WorldGoesOn ==
  ASSUME LogOK, World
  PROVE  /\ LogOK' /\ Extended
         /\ Grown(log, log', script[1]) /\ PostOK(script[1]) /\ DeedOK(script[1])
         /\ script[1].type # "player" /\ (script[1].type = "post" => Scene.crew = {})
<1> DEFINE e == script[1]
<1>1. IsSeq(log) /\ Len(log) \in Nat /\ IsSeq(script) /\ Len(script) \in Nat
  BY SeqSize DEF LogOK
<1>2. /\ script # <<>> /\ Write(<<Head(script)>>) /\ script' = Tail(script) /\ scene' = scene
  BY DEF World, WorldWrites
<1>3. /\ Head(script) = script[1] /\ Len(script) \in Nat \ {0}
      /\ IsSeq(script') /\ Len(script') = Len(script) - 1
      /\ \A n \in 1..(Len(script) - 1) : script'[n] = script[n + 1]
  BY <1>1, <1>2, Shrinks
<1>4. Grown(log, log', e) /\ Len(log') <= MaxLog
  BY <1>1, <1>2, <1>3, WriteOne
<1>5. 1 \in 1..Len(script) /\ Expected(1)
  BY <1>3 DEF LogOK
<1>6. e.type # "player" /\ DeedOK(e) /\ (e.type = "post" => Scene.crew = {})
  BY <1>5 DEF Expected
<1>7. PostOK(e)
  BY <1>1, <1>5 DEF Expected, PostOK
<1>8. PostsOK' /\ \A i \in Ids' : DeedOK(log'[i])
  BY <1>4, <1>6, <1>7, PostsGrow
<1>9. /\ Len(log') = Len(log) + 1 /\ log'[Len(log) + 1] = e
      /\ \A n \in 1..Len(log) : log'[n] = log[n]
  BY <1>4 DEF Grown
<1>10. \A i \in Of({"post"})' : \/ i \in Of({"post"}) /\ log'[i] = log[i]
                                \/ log'[i] = e /\ e.type = "post"
  BY <1>1, <1>9 DEF Of, Ids
<1>11. Scene' = Scene
  BY <1>2 DEF Scene
<1>12. ASSUME NEW n \in 1..Len(script') PROVE Expected(n)'
  <2>1. n \in 1..(Len(script) - 1) /\ n + 1 \in 1..Len(script) /\ script'[n] = script[n + 1]
    BY <1>1, <1>3
  <2>2. Expected(n + 1)
    BY <2>1 DEF LogOK
  <2> DEFINE q == script[n + 1]
  <2>3. q.type # "player" /\ DeedOK(q)
    BY <2>2 DEF Expected
  <2>4. ASSUME q.type = "post"
        PROVE  /\ Scene.crew = {} /\ q.of # "arc" /\ q.src \in 1..(Len(log') + n - 1)
               /\ \A m \in 1..(n - 1) : script'[m].type = "post" => script'[m].src # q.src
               /\ \A i \in Of({"post"})' : log'[i].src # q.src
    <3>1. /\ Scene.crew = {} /\ q.of # "arc" /\ q.src \in 1..(Len(log) + (n + 1) - 1)
          /\ \A m \in 1..((n + 1) - 1) : script[m].type = "post" => script[m].src # q.src
          /\ \A i \in Of({"post"}) : log[i].src # q.src
      BY <2>2, <2>4 DEF Expected
    <3>2. q.src \in 1..(Len(log') + n - 1)
      BY <1>1, <1>9, <2>1, <3>1
    <3>3. ASSUME NEW m \in 1..(n - 1), script'[m].type = "post"
          PROVE  script'[m].src # q.src
      <4>1. m \in 1..(Len(script) - 1) /\ m + 1 \in 1..((n + 1) - 1) /\ script'[m] = script[m + 1]
        BY <1>3, <2>1
      <4>2. QED
        BY <3>1, <3>3, <4>1
    <3>4. e.type = "post" => e.src # q.src
      <4>1. 1 \in 1..((n + 1) - 1)
        BY <2>1
      <4>2. QED
        BY <3>1, <4>1
    <3>5. QED
      BY <1>10, <3>1, <3>2, <3>3, <3>4
  <2>5. QED
    <3> HIDE DEF q
    <3>1. script'[n] = q
      BY <2>1 DEF q
    <3>2. QED
      BY <1>11, <2>3, <2>4, <3>1 DEF Expected
<1>13. Extended
  BY <1>1, <1>4, GrownExtends
<1>14. IsSeq(log') /\ scene' \in DOMAIN Scenes
  BY <1>2, <1>13 DEF Extended, LogOK
<1>15. LogOK'
  BY <1>3, <1>4, <1>8, <1>12, <1>14 DEF LogOK
<1>16. QED
  BY <1>4, <1>6, <1>7, <1>13, <1>15

-----------------------------------------------------------------------------
(* The composers: what each holds, and what it has settled.                  *)

Hands == DOMAIN Fresh

Writing == {"narrate", "narrating", "append"}

\* p says what is to be said of the source i.
PostFor(p, i) ==
  /\ p.type = "post" /\ p.src = i /\ p.of = log[i].type
  /\ p.of = "arc" => PreviousStage(i) # p.kind
  /\ p.of = "action" => p.who = log[i].who /\ p.kind = log[i].kind /\ p.tick = log[i].tick

\* A node of a life: a chapter is one if it differs from the one before it.
MustPost(i) ==
  /\ log[i].type \in {"goal", "debut", "arc"}
  /\ log[i].type = "arc" => PreviousStage(i) # log[i].stage

HoldsOK(k) ==
  LET c == composers[k]
  IN  /\ DOMAIN c = Hands
      /\ c.at \in Writing \cup {"idle", "ack"}
      /\ c.at = "idle" => c.msg = 0
      /\ c.at # "idle" => c.msg \in Of(Sources)
      /\ c.at \in Writing => c.post = <<c.post[1]>>
      /\ \A i \in Of(Sources) : c.msg = i =>
           /\ c.at \in Writing => PostFor(c.post[1], i)
           /\ c.at = "ack" /\ MustPost(i) => Posts(i) # {}

FeedOK ==
  /\ DOMAIN composers = Composers /\ \A k \in Composers : HoldsOK(k)
  /\ DOMAIN settled = 1..MaxLog /\ tries \in [1..MaxLog -> Nat]
  /\ \A i \in 1..MaxLog :
       /\ settled[i] # "open" \/ tries[i] > 0 => i <= Len(log)
       /\ settled[i] = "acked" /\ i \in Ids /\ MustPost(i) => Posts(i) # {}

\* Of a source, nothing but what is written of it changes.
LEMMA SourceStays ==
  ASSUME IsSeq(log), Extended, NEW i \in Ids
  PROVE  /\ i \in Ids' /\ log'[i] = log[i] /\ (MustPost(i)' <=> MustPost(i))
         /\ \A p : PostFor(p, i) => PostFor(p, i)'
         /\ Posts(i) # {} => Posts(i)' # {}
<1>1. /\ Len(log) \in Nat /\ Len(log') \in Nat /\ i \in 1..Len(log)
      /\ \A n \in 1..Len(log) : n \in 1..Len(log') /\ log'[n] = log[n]
  BY SeqSize DEF Extended, Ids
<1>2. PreviousStage(i)' = PreviousStage(i)
  BY <1>1, StageStays
<1>3. i \in Ids' /\ log'[i] = log[i]
  BY <1>1 DEF Ids
<1>4. MustPost(i)' <=> MustPost(i)
  BY <1>2, <1>3 DEF MustPost
<1>5. \A p : PostFor(p, i) => PostFor(p, i)'
  BY <1>2, <1>3 DEF PostFor
<1>6. \A j \in Posts(i) : j \in Posts(i)'
  BY <1>1 DEF Posts, Of, Ids
<1>7. QED
  BY <1>3, <1>4, <1>5, <1>6

\* Whoever holds nothing new holds what it held.
LEMMA HoldingStays ==
  ASSUME IsSeq(log), Extended, NEW k, HoldsOK(k), composers'[k] = composers[k]
  PROVE  HoldsOK(k)'
<1> DEFINE c == composers[k]
<1>1. \A i \in Of(Sources)' : i \in Ids => i \in Of(Sources)
  BY SourceStays DEF Of
<1>2. \A i \in Of(Sources) : i \in Of(Sources)'
  BY SourceStays DEF Of
<1>3. \A i \in Of(Sources) : i \in Ids
  BY DEF Of
<1>4. c.at = "idle" => ~ (c.at = "ack") /\ ~ (c.at \in Writing)
  BY DEF Writing
<1>5. ASSUME NEW i \in Of(Sources)', c.msg = i
      PROVE  /\ c.at \in Writing => PostFor(c.post[1], i)'
             /\ c.at = "ack" /\ MustPost(i)' => Posts(i)' # {}
  <2>1. CASE c.at = "idle"
    BY <1>4, <2>1
  <2>2. CASE c.at # "idle"
    <3>1. i \in Of(Sources) /\ i \in Ids
      BY <1>3, <1>5, <2>2 DEF HoldsOK
    <3>2. QED
      BY <1>5, <3>1, SourceStays DEF HoldsOK
  <2>3. QED
    BY <2>1, <2>2
<1>6. QED
  BY <1>2, <1>5 DEF HoldsOK

\* The composers do not move while others do.
LEMMA FeedStays ==
  ASSUME LogOK, FeedOK, Extended, UNCHANGED feedVars
  PROVE  FeedOK'
<1>1. /\ IsSeq(log) /\ Len(log) \in Nat /\ Len(log') \in Nat /\ Len(log) <= Len(log')
      /\ composers' = composers /\ settled' = settled /\ tries' = tries
  BY SeqSize DEF LogOK, Extended, feedVars
<1>2. \A k \in Composers : HoldsOK(k)'
  BY <1>1, HoldingStays DEF FeedOK
<1>3. ASSUME NEW i \in 1..MaxLog
      PROVE  /\ settled'[i] # "open" \/ tries'[i] > 0 => i <= Len(log')
             /\ settled'[i] = "acked" /\ i \in Ids' /\ MustPost(i)' => Posts(i)' # {}
  <2>1. i \in Nat /\ MaxLog \in Nat
    BY LogAssumption
  <2>2. settled[i] # "open" \/ tries[i] > 0 => i <= Len(log)
    BY DEF FeedOK
  <2>3. ASSUME settled[i] = "acked", MustPost(i)' PROVE Posts(i)' # {}
    <3>1. i \in Ids
      BY <1>1, <2>1, <2>2, <2>3 DEF Ids
    <3>2. MustPost(i) /\ (Posts(i) # {} => Posts(i)' # {})
      BY <1>1, <2>3, <3>1, SourceStays
    <3>3. QED
      BY <2>3, <3>1, <3>2 DEF FeedOK
  <2>4. QED
    BY <1>1, <2>1, <2>2, <2>3
<1>4. QED
  BY <1>1, <1>2, <1>3 DEF FeedOK

\* A verdict keeps the fields of what is remembered, and is none or one post.
LEMMA VerdictGiven ==
  ASSUME NEW c, DOMAIN c = Hands, NEW i \in Of(Sources)
  PROVE  /\ DOMAIN Verdict(c, i)[1] = Hands
         /\ \/ Verdict(c, i)[2] = <<>> /\ ~MustPost(i)
            \/ \E p : Verdict(c, i)[2] = <<p>> /\ PostFor(p, i)
<1> DEFINE e == log[i]
           Goal(v) == /\ DOMAIN v[1] = Hands
                      /\ \/ v[2] = <<>> /\ ~MustPost(i)
                         \/ \E p : v[2] = <<p>> /\ PostFor(p, i)
<1>0. /\ \A who, kind, drama : PostOf(i, who, kind, drama).of = log[i].type
      /\ \A who, kind, drama :
           /\ PostOf(i, who, kind, drama).type = "post"
           /\ PostOf(i, who, kind, drama).src = i
           /\ PostOf(i, who, kind, drama).who = who
           /\ PostOf(i, who, kind, drama).kind = kind
           /\ PostOf(i, who, kind, drama).tick = log[i].tick
  BY DEF PostOf
<1>1. CASE e.type = "boost"
  <2>1. Verdict(c, i) = <<[c EXCEPT !.lights[log[i].who] = log[i].until], <<>>>>
    BY <1>1 DEF Verdict
  <2>2. DOMAIN Verdict(c, i)[1] = Hands /\ Verdict(c, i)[2] = <<>>
    BY <2>1 DEF Hands, Fresh
  <2>3. QED
    BY <1>1, <2>2 DEF MustPost
<1>2. CASE e.type = "incident"
  <2> DEFINE worthy == Worthy(e.drama, Unit, <<Nothing, e.kind>>, c.rarity, 0)
             post == PostOf(i, Nothing, e.kind, e.drama)
  <2>1. Verdict(c, i) = IncidentVerdict(c, i)
    BY <1>2 DEF Verdict
  <2>2. Verdict(c, i)[2] = IF worthy THEN <<post>> ELSE <<>>
    BY <2>1 DEF IncidentVerdict, Perhaps
  <2>3. DOMAIN Verdict(c, i)[1] = Hands
    BY <2>1 DEF IncidentVerdict, Hands, Fresh
  <2>4. PostFor(post, i)
    BY <1>0, <1>2 DEF PostFor
  <2> HIDE DEF worthy, post
  <2>5. QED
    BY <1>2, <2>2, <2>3, <2>4 DEF MustPost
<1>3. CASE e.type = "arc"
  <2> DEFINE turns == PreviousStage(i) # log[i].stage
             post == PostOf(i, log[i].who, log[i].stage, ArcDrama)
  <2>1. Verdict(c, i) = <<c, Perhaps(turns, post)>>
    BY <1>3 DEF Verdict, ArcVerdict
  <2>2. Verdict(c, i)[2] = (IF turns THEN <<post>> ELSE <<>>) /\ Verdict(c, i)[1] = c
    BY <2>1 DEF Perhaps
  <2>3. turns => PostFor(post, i)
    BY <1>0, <1>3 DEF PostFor
  <2>4. ~turns => ~MustPost(i)
    BY <1>3 DEF MustPost
  <2> HIDE DEF turns, post
  <2>5. QED
    BY <2>2, <2>3, <2>4
<1>4. CASE e.type = "goal"
  <2> DEFINE post == PostOf(i, log[i].who, Nothing, GoalDrama)
  <2>1. Verdict(c, i) = <<c, <<post>>>>
    BY <1>4 DEF Verdict, GoalVerdict
  <2>2. PostFor(post, i)
    BY <1>0, <1>4 DEF PostFor
  <2> HIDE DEF post
  <2>3. QED
    BY <2>1, <2>2
<1>5. CASE e.type = "debut"
  <2> DEFINE post == PostOf(i, log[i].who, Nothing, DebutDrama)
  <2>1. Verdict(c, i) = <<c, <<post>>>>
    BY <1>5 DEF Verdict, DebutVerdict
  <2>2. PostFor(post, i)
    BY <1>0, <1>5 DEF PostFor
  <2> HIDE DEF post
  <2>3. QED
    BY <2>1, <2>2
<1>6. CASE e.type = "action"
  <2> DEFINE boost == IF e.tick >= c.lights[e.who] THEN 0 ELSE Lit
             worthy == Worthy(DramaScore(e), boost, <<e.who, e.kind>>, c.rarity,
                              Streak(c.repeat[e.who], e))
             post == PostOf(i, e.who, e.kind, DramaScore(e))
  <2>1. Verdict(c, i) = ActionVerdict(c, i)
    BY <1>6 DEF Verdict
  <2>2. Verdict(c, i)[2] = IF worthy THEN <<post>> ELSE <<>>
    BY <2>1 DEF ActionVerdict, Perhaps
  <2>3. DOMAIN Verdict(c, i)[1] = Hands
    BY <2>1 DEF ActionVerdict, Hands, Fresh
  <2>4. PostFor(post, i)
    BY <1>0, <1>6 DEF PostFor
  <2> HIDE DEF worthy, post
  <2>5. QED
    BY <1>6, <2>2, <2>3, <2>4 DEF MustPost
<1>7. QED
  BY <1>1, <1>2, <1>3, <1>4, <1>5, <1>6 DEF Of, Sources

\* One composer moves, the others hold what they held; the log stays or grows.
LEMMA OneHand ==
  ASSUME IsSeq(log), Extended, FeedOK, NEW k \in Composers, NEW d,
         composers' = [composers EXCEPT ![k] = d], HoldsOK(k)'
  PROVE  DOMAIN composers' = Composers /\ \A j \in Composers : HoldsOK(j)'
<1>1. DOMAIN composers' = Composers /\ \A j \in Composers : j # k => composers'[j] = composers[j]
  BY DEF FeedOK
<1>2. ASSUME NEW j \in Composers, j # k PROVE HoldsOK(j)'
  <2>1. HoldsOK(j) /\ composers'[j] = composers[j]
    BY <1>1, <1>2 DEF FeedOK
  <2>2. QED
    BY <2>1, HoldingStays
<1>3. QED
  BY <1>1, <1>2

\* A message is judged.
LEMMA ComposeKeeps ==
  ASSUME LogOK, FeedOK, NEW k \in Composers, Compose(k)
  PROVE  FeedOK' /\ UNCHANGED <<scene, log, script>>
<1>1. /\ UNCHANGED <<scene, log, script, settled>> /\ IsSeq(log)
      /\ HoldsOK(k) /\ composers[k].at = "idle"
  BY DEF Compose, FeedOK, LogOK
<1>2. PICK i \in Of(Sources) :
        /\ tries' = [tries EXCEPT ![i] = @ + 1]
        /\ LET v == Verdict(composers[k], i)
               post == v[2]
           IN  composers' = [composers EXCEPT ![k] =
                 [v[1] EXCEPT !.msg = i, !.post = post,
                    !.at = CASE post = <<>> -> "ack"
                             [] post # <<>> /\ Scene.narrate
                                  /\ post[1].drama >= NarrateThreshold -> "narrate"
                             [] OTHER -> "append"]]
  BY DEF Compose
<1> DEFINE mind == Verdict(composers[k], i)[1]
           post == Verdict(composers[k], i)[2]
           at == CASE post = <<>> -> "ack"
                   [] post # <<>> /\ Scene.narrate
                        /\ post[1].drama >= NarrateThreshold -> "narrate"
                   [] OTHER -> "append"
           d == [mind EXCEPT !.msg = i, !.post = post, !.at = at]
<1>3. composers' = [composers EXCEPT ![k] = d]
  BY <1>2
<1>4. DOMAIN mind = Hands
      /\ \/ post = <<>> /\ ~MustPost(i)
         \/ \E p : post = <<p>> /\ PostFor(p, i)
  BY <1>1, VerdictGiven DEF HoldsOK
<1> HIDE DEF mind, post
<1>5. /\ at \in {"ack", "narrate", "append"}
      /\ at = "ack" <=> post = <<>>
  OBVIOUS
<1> HIDE DEF at
<1>6. DOMAIN d = Hands /\ d.msg = i /\ d.post = post /\ d.at = at
  BY <1>4 DEF Hands, Fresh
<1> HIDE DEF d
<1>7. composers'[k] = d
  BY <1>3 DEF FeedOK
<1>8. Extended /\ Of(Sources)' = Of(Sources) /\ Ids' = Ids
  BY <1>1, SeqSize DEF Extended, Of, Ids
<1>9. (MustPost(i)' <=> MustPost(i)) /\ \A p : PostFor(p, i) => PostFor(p, i)'
  BY <1>1, <1>8, SourceStays DEF Of
<1>10. HoldsOK(k)'
  <2>0. composers'[k].at = at /\ composers'[k].post = post /\ composers'[k].msg = i
        /\ DOMAIN composers'[k] = Hands
    BY <1>6, <1>7
  <2>1. CASE at = "ack"
    <3>1. ~MustPost(i)'
      <4>1. \A p : <<p>> # <<>>
        OBVIOUS
      <4>2. QED
        BY <1>4, <1>5, <1>9, <2>1, <4>1
    <3>2. "ack" \notin Writing
      BY DEF Writing
    <3>3. QED
      BY <1>8, <2>0, <2>1, <3>1, <3>2 DEF HoldsOK
  <2>2. CASE at # "ack"
    <3>1. PICK p : post = <<p>> /\ PostFor(p, i)
      BY <1>4, <1>5, <2>2
    <3>2. PostFor(p, i)' /\ composers'[k].post = <<p>> /\ composers'[k].post[1] = p
      BY <1>9, <2>0, <3>1
    <3>3. ASSUME NEW j \in Of(Sources)', composers'[k].msg = j
          PROVE  PostFor(composers[k].post[1], j)'
      BY <2>0, <3>2, <3>3 DEF PostFor
    <3>4. at \in Writing
      BY <1>5, <2>2 DEF Writing
    <3>5. QED
      BY <1>8, <2>0, <2>2, <3>2, <3>3, <3>4 DEF HoldsOK, Writing
  <2>3. QED
    BY <2>1, <2>2
<1>11. DOMAIN composers' = Composers /\ \A j \in Composers : HoldsOK(j)'
  BY <1>1, <1>3, <1>8, <1>10, OneHand
<1>12. i \in 1..MaxLog /\ i <= Len(log)
  BY <1>1, SeqSize, LogAssumption DEF Of, Ids, LogOK
<1>13. tries' \in [1..MaxLog -> Nat] /\ \A j \in 1..MaxLog : tries'[j] > 0 => tries[j] > 0 \/ j = i
  BY <1>2, <1>12 DEF FeedOK
<1>14. \A j \in Ids : (MustPost(j)' <=> MustPost(j)) /\ (Posts(j) # {} => Posts(j)' # {})
  BY <1>1, <1>8, SourceStays
<1>15. QED
  BY <1>1, <1>8, <1>11, <1>12, <1>13, <1>14 DEF FeedOK

\* A step of a composer that does not write, and settles nothing.
LEMMA HandKeeps ==
  ASSUME LogOK, FeedOK, NEW k \in Composers, NEW d, UNCHANGED <<scene, log, tries>>,
         composers' = [composers EXCEPT ![k] = d], HoldsOK(k)',
         DOMAIN settled' = 1..MaxLog,
         \A i \in 1..MaxLog : settled'[i] = settled[i]
           \/ (i \in Ids /\ (settled'[i] = "acked" /\ MustPost(i) => Posts(i) # {}))
  PROVE  FeedOK'
<1>1. IsSeq(log) /\ Extended /\ Ids' = Ids
  BY SeqSize DEF LogOK, Extended, Ids
<1>2. DOMAIN composers' = Composers /\ \A j \in Composers : HoldsOK(j)'
  BY <1>1, OneHand
<1>3. \A j \in Ids : (MustPost(j)' <=> MustPost(j)) /\ (Posts(j) # {} => Posts(j)' # {})
                     /\ j <= Len(log)
  BY <1>1, SourceStays, SeqSize DEF Ids
<1>4. QED
  BY <1>1, <1>2, <1>3 DEF FeedOK

LEMMA RestIdle ==
  ASSUME NEW k, DOMAIN composers[k] = Hands, composers'[k] = Rest(composers[k])
  PROVE  HoldsOK(k)'
<1>1. DOMAIN composers'[k] = Hands /\ composers'[k].at = "idle" /\ composers'[k].msg = 0
  BY DEF Rest, Hands, Fresh
<1>2. \A i \in Of(Sources)' : i # 0
  BY DEF Of, Ids
<1>3. QED
  BY <1>1, <1>2 DEF HoldsOK, Writing

LEMMA HandsKeep ==
  ASSUME LogOK, FeedOK, NEW k \in Composers,
         \/ AckSource(k) \/ ComposeFails(k) \/ Poison(k) \/ ComposerCrash(k)
         \/ HearNarration(k) \/ \E c : AskNarration(k, c)
  PROVE  FeedOK' /\ UNCHANGED <<scene, log, script>>
<1> DEFINE Goal == FeedOK' /\ UNCHANGED <<scene, log, script>>
           c == composers[k]
<1>1. /\ HoldsOK(k) /\ k \in DOMAIN composers /\ DOMAIN c = Hands /\ DOMAIN settled = 1..MaxLog
  BY DEF FeedOK, HoldsOK
<1>2. c.at # "idle" => c.msg \in Of(Sources) /\ c.msg \in Ids /\ c.msg \in 1..MaxLog
  <2>1. Ids \subseteq 1..MaxLog
    BY SeqSize, LogAssumption DEF Ids, LogOK
  <2>2. QED
    BY <1>1, <2>1 DEF HoldsOK, Of
<1>3. ASSUME AckSource(k) PROVE Goal
  <2>1. /\ c.at = "ack" /\ UNCHANGED <<scene, log, script, tries>>
        /\ settled' = [settled EXCEPT ![c.msg] = Settle(k)]
        /\ composers' = [composers EXCEPT ![k] = Rest(c)]
    BY <1>3 DEF AckSource, logVars
  <2>2. HoldsOK(k)'
    BY <1>1, <2>1, RestIdle
  <2>3. ASSUME NEW i \in 1..MaxLog, i = c.msg PROVE MustPost(i) => Posts(i) # {}
    BY <1>1, <1>2, <2>1, <2>3 DEF HoldsOK
  <2>4. QED
    BY <1>1, <1>2, <2>1, <2>2, <2>3, HandKeeps
<1>4. ASSUME ComposeFails(k) \/ Poison(k) PROVE Goal
  <2>1. /\ c.at = "append" /\ UNCHANGED <<scene, log, script, tries>>
        /\ settled' = [settled EXCEPT ![c.msg] = "dlq"] \/ settled' = settled
        /\ composers' = [composers EXCEPT ![k] = Rest(c)]
    BY <1>4 DEF ComposeFails, Poison
  <2>2. HoldsOK(k)'
    BY <1>1, <2>1, RestIdle
  <2>3. QED
    BY <1>1, <1>2, <2>1, <2>2, HandKeeps
<1>5. ASSUME ComposerCrash(k) PROVE Goal
  <2>1. /\ UNCHANGED <<scene, log, script, tries, settled>>
        /\ composers' = [composers EXCEPT ![k] = Fresh]
    BY <1>5 DEF ComposerCrash
  <2>2. DOMAIN Fresh = Hands /\ Fresh.at = "idle" /\ Fresh.msg = 0
    BY DEF Hands, Fresh
  <2>3. \A i \in Of(Sources)' : i # 0
    BY DEF Of, Ids
  <2>4. HoldsOK(k)'
    BY <1>1, <2>1, <2>2, <2>3 DEF HoldsOK, Writing
  <2>5. QED
    BY <1>1, <2>1, <2>4, HandKeeps
<1>6. ASSUME HearNarration(k) \/ \E call : AskNarration(k, call) PROVE Goal
  <2>1. \E at \in {"append", "narrating"} : \E call :
          composers' = [composers EXCEPT ![k].at = at, ![k].call = call]
    <3>1. CASE HearNarration(k)
      BY <3>1 DEF HearNarration
    <3>2. CASE \E call : AskNarration(k, call)
      BY <3>2 DEF AskNarration
    <3>3. QED
      BY <1>6, <3>1, <3>2
  <2>2. PICK at \in {"append", "narrating"} : \E call :
          composers' = [composers EXCEPT ![k].at = at, ![k].call = call]
    BY <2>1
  <2>20. PICK call : composers' = [composers EXCEPT ![k].at = at, ![k].call = call]
    BY <2>2
  <2>3. c.at \in Writing /\ UNCHANGED <<scene, log, script, tries, settled>>
    BY <1>6 DEF HearNarration, AskNarration, logVars, Writing
  <2> DEFINE d == [c EXCEPT !.at = at, !.call = call]
  <2>4. composers' = [composers EXCEPT ![k] = d]
    BY <1>1, <2>20
  <2>5. DOMAIN d = Hands /\ d.at = at /\ d.msg = c.msg /\ d.post = c.post
    BY <1>1 DEF Hands, Fresh
  <2> HIDE DEF d
  <2>6. composers'[k] = d
    BY <1>1, <2>4
  <2>7. Extended /\ IsSeq(log) /\ Of(Sources)' = Of(Sources) /\ \A i \in Of(Sources) : i \in Ids
    BY <2>3, SeqSize DEF Extended, LogOK, Of, Ids
  <2>8. HoldsOK(k)'
    <3>1. at \in Writing /\ at # "idle" /\ at # "ack" /\ c.at # "idle"
      BY <2>3 DEF Writing
    <3>2. PICK p : p = c.post[1]
      OBVIOUS
    <3>3. ASSUME NEW i \in Of(Sources), c.msg = i PROVE PostFor(p, i)'
      <4>1. PostFor(p, i) /\ i \in Ids
        BY <1>1, <2>3, <2>7, <3>2, <3>3 DEF HoldsOK
      <4>2. QED
        BY <2>7, <4>1, SourceStays
    <3>4. composers'[k].post[1] = p /\ composers'[k].msg = c.msg
      BY <2>5, <2>6, <3>2
    <3>5. ASSUME NEW i \in Of(Sources)', composers'[k].msg = i
          PROVE  PostFor(composers[k].post[1], i)'
      <4>1. PostFor(p, i)'
        BY <2>7, <3>3, <3>4, <3>5
      <4>2. QED
        BY <3>4, <4>1 DEF PostFor
    <3>6. c.post = <<c.post[1]>> /\ c.msg \in Of(Sources)
      BY <1>1, <2>3, <3>1 DEF HoldsOK
    <3>7. QED
      BY <2>5, <2>6, <2>7, <3>1, <3>5, <3>6 DEF HoldsOK
  <2>9. QED
    BY <1>1, <2>3, <2>4, <2>8, HandKeeps
<1>7. QED
  BY <1>3, <1>4, <1>5, <1>6

\* A post is appended, unless there is one of its source.
LEMMA AppendKeeps ==
  ASSUME LogOK, FeedOK, NEW k \in Composers, k \in Scene.crew, AppendPost(k)
  PROVE  /\ FeedOK' /\ LogOK' /\ Extended
         /\ \/ log' = log /\ Posts(composers[k].msg) # {}
            \/ /\ Grown(log, log', composers[k].post[1]) /\ Posts(composers[k].msg) = {}
               /\ composers[k].post[1].type = "post"
<1> DEFINE c == composers[k]
<1>1. /\ c.at = "append" /\ UNCHANGED <<scene, script, faults, settled, tries>>
      /\ composers' = [composers EXCEPT ![k].at = "ack"]
      /\ IF Posts(c.msg) = {} THEN Write(c.post) ELSE log' = log
  BY DEF AppendPost
<1>2. HoldsOK(k) /\ DOMAIN c = Hands /\ k \in DOMAIN composers /\ IsSeq(log)
  BY DEF FeedOK, HoldsOK, LogOK
<1>3. PICK i : i = c.msg
  OBVIOUS
<1>4. PICK p : p = c.post[1]
  OBVIOUS
<1>5. i \in Of(Sources) /\ i \in Ids /\ c.post = <<p>> /\ PostFor(p, i)
  BY <1>1, <1>2, <1>3, <1>4 DEF HoldsOK, Writing, Of
<1>6. Ids = 1..Len(log) /\ Len(log) \in Nat
  BY <1>2, SeqSize DEF Ids
<1>7. ASSUME Posts(i) = {} PROVE Enters(p) /\ p.type = "post"
  <2>1. Grown(log, log', p) /\ Len(log') <= MaxLog
    BY <1>1, <1>2, <1>3, <1>5, <1>7, WriteOne
  <2>2. p.type = "post" /\ p.src = i /\ DeedOK(p)
    BY <1>5 DEF PostFor, DeedOK
  <2>3. \A j \in Of({"post"}) : log[j].src # i
    BY <1>7 DEF Posts
  <2>4. PostOK(p)
    BY <1>5, <1>6, <2>2, <2>3 DEF PostFor, PostOK
  <2>5. QED
    BY <2>1, <2>2, <2>4 DEF Enters
<1>8. log' = log \/ \E e : Enters(e)
  BY <1>1, <1>3, <1>7
<1>9. LogOK' /\ Extended
  BY <1>1, <1>8, LogGoesOn
<1>10. i \in Ids' /\ Posts(i)' # {}
  <2>1. i \in Ids'
    BY <1>2, <1>5, <1>9, SourceStays
  <2>2. CASE Posts(i) # {}
    BY <1>2, <1>5, <1>9, <2>1, <2>2, SourceStays
  <2>3. CASE Posts(i) = {}
    <3>1. /\ Len(log') = Len(log) + 1 /\ log'[Len(log) + 1] = p
          /\ p.type = "post" /\ p.src = i
      BY <1>5, <1>7, <2>3 DEF Enters, Grown, PostFor
    <3>2. PICK n : n = Len(log) + 1
      OBVIOUS
    <3>3. n \in Posts(i)'
      BY <1>6, <3>1, <3>2 DEF Posts, Of, Ids
    <3>4. QED
      BY <2>1, <3>3
  <2>4. QED
    BY <2>1, <2>2, <2>3
<1> DEFINE d == [c EXCEPT !.at = "ack"]
<1>11. composers' = [composers EXCEPT ![k] = d] /\ DOMAIN d = Hands /\ d.at = "ack" /\ d.msg = i
  BY <1>1, <1>2, <1>3 DEF Hands, Fresh
<1> HIDE DEF d
<1>12. composers'[k] = d
  BY <1>2, <1>11
<1>13. i \in Of(Sources)'
  BY <1>2, <1>5, <1>9, SourceStays DEF Of
<1>14. HoldsOK(k)'
  <2>1. \A j \in Of(Sources)' : composers'[k].msg = j => Posts(j)' # {}
    BY <1>10, <1>11, <1>12
  <2>2. "ack" \notin Writing
    BY DEF Writing
  <2>3. QED
    BY <1>11, <1>12, <1>13, <2>1, <2>2 DEF HoldsOK
<1>15. DOMAIN composers' = Composers /\ \A j \in Composers : HoldsOK(j)'
  BY <1>2, <1>9, <1>11, <1>14, OneHand
<1>16. ASSUME NEW j \in 1..MaxLog
       PROVE  /\ settled'[j] # "open" \/ tries'[j] > 0 => j <= Len(log')
              /\ settled'[j] = "acked" /\ j \in Ids' /\ MustPost(j)' => Posts(j)' # {}
  <2>1. j \in Nat /\ MaxLog \in Nat /\ Len(log) <= Len(log') /\ Len(log') \in Nat
    BY <1>9, LogAssumption, SeqSize DEF Extended
  <2>2. settled[j] # "open" \/ tries[j] > 0 => j <= Len(log)
    BY DEF FeedOK
  <2>3. ASSUME settled[j] = "acked", MustPost(j)' PROVE Posts(j)' # {}
    <3>1. j \in Ids
      BY <1>6, <2>1, <2>2, <2>3
    <3>2. MustPost(j) /\ (Posts(j) # {} => Posts(j)' # {})
      BY <1>2, <1>9, <2>3, <3>1, SourceStays
    <3>3. QED
      BY <2>3, <3>1, <3>2 DEF FeedOK
  <2>4. QED
    BY <1>1, <1>6, <2>1, <2>2, <2>3
<1>17. FeedOK'
  BY <1>1, <1>15, <1>16 DEF FeedOK
<1>18. QED
  BY <1>1, <1>3, <1>4, <1>7, <1>9, <1>17 DEF Enters

\* Everybody's step, as far as the log and the composers go.
FeedInv == LogOK /\ DirectorOK /\ FeedOK

\* Asking, thinking and projecting write nothing into the log.
LEMMA OthersWriteNothing ==
  ASSUME ActorAsks \/ Thinking \/ Projecting \/ UNCHANGED vars
  PROVE  UNCHANGED <<scene, log, script, directorVars, feedVars, gatewayVars>>
<1>1. CASE ActorAsks
  BY <1>1 DEF ActorAsks, logVars
<1>2. CASE Thinking
  BY <1>2 DEF Thinking, AiStep, Begin, ReadSpend, TakeSlot, PassesUnchecked, NoRoute,
              Complete, ProviderFails, Record, CacheExpires, RuntimeCrash, SaveLimits,
              NextMinute, NextDay, logVars
<1>3. CASE Projecting
  BY <1>3 DEF Projecting, TablesStep, PgTake, PgDo, PgAck, PgFails, PgCrash, PgRebuild,
              PgReplay, logVars
<1>4. CASE UNCHANGED vars
  BY <1>4 DEF vars, logVars
<1>5. QED
  BY <1>1, <1>2, <1>3, <1>4

\* Someone else's step leaves the composers alone.
LEMMA OthersKeep ==
  ASSUME FeedInv, World \/ Directing \/ ActorAsks \/ Thinking \/ Projecting \/ UNCHANGED vars
  PROVE  /\ LogOK' /\ DirectorOK' /\ Extended /\ UNCHANGED <<feedVars, gatewayVars>>
         /\ \/ log' = log
            \/ \E e : /\ Grown(log, log', e) /\ PostOK(e) /\ DeedOK(e)
                      /\ e.type # "player" /\ (e.type = "post" => Scene.crew = {})
<1> DEFINE New == \/ log' = log
                  \/ \E e : /\ Grown(log, log', e) /\ PostOK(e) /\ DeedOK(e)
                            /\ e.type # "player" /\ (e.type = "post" => Scene.crew = {})
           Goal == LogOK' /\ DirectorOK' /\ Extended /\ UNCHANGED <<feedVars, gatewayVars>> /\ New
<1>0. LogOK /\ DirectorOK /\ FeedOK /\ IsSeq(log)
  BY DEF FeedInv, LogOK
<1>1. ASSUME World PROVE Goal
  <2>1. UNCHANGED <<directorVars, feedVars, gatewayVars>>
    BY <1>1 DEF World
  <2>2. DirectorOK'
    BY <1>0, <2>1 DEF DirectorOK, directorVars
  <2>3. /\ LogOK' /\ Extended
        /\ Grown(log, log', script[1]) /\ PostOK(script[1]) /\ DeedOK(script[1])
        /\ script[1].type # "player" /\ (script[1].type = "post" => Scene.crew = {})
    BY <1>0, <1>1, WorldGoesOn
  <2>4. QED
    BY <2>1, <2>2, <2>3
<1>2. ASSUME Directing PROVE Goal
  <2>1. UNCHANGED <<feedVars, gatewayVars>>
    BY <1>2 DEF Directing
  <2>2. DirectorOK' /\ UNCHANGED <<scene, script>> /\ DirectorWrites
        /\ (log' = log \/ DirectorStep)
    <3>1. CASE DirectorStep
      BY <1>0, <3>1, DirectorStepKeeps
    <3>2. CASE DirectorAsks \/ DirectorHears
      BY <1>0, <3>2, DirectorTalkKeeps DEF DirectorWrites
    <3>3. QED
      BY <1>2, <3>1, <3>2 DEF Directing
  <2>3. ASSUME log' # log
        PROVE  \E e : Enters(e) /\ e.type \in {"audit"} \cup Outputs
    <3>1. PICK e : e.type \in {"audit"} \cup Outputs /\ Grown(log, log', e)
      BY <2>2, <2>3 DEF DirectorWrites
    <3>2. e.type # "post" /\ e.type # "action" /\ e.type # "player"
      BY <3>1 DEF Outputs
    <3>3. Len(log') <= MaxLog
      BY <1>0, <2>2, <2>3, DirectorBounded
    <3>4. QED
      BY <3>1, <3>2, <3>3 DEF Enters, PostOK, DeedOK
  <2>4. LogOK' /\ Extended
    BY <1>0, <2>2, <2>3, LogGoesOn
  <2>5. New
    <3>1. CASE log' = log
      BY <3>1
    <3>2. CASE log' # log
      BY <2>3, <3>2 DEF Enters, Outputs
    <3>3. QED
      BY <3>1, <3>2
  <2>6. QED
    BY <2>1, <2>2, <2>4, <2>5
<1>3. ASSUME ActorAsks \/ Thinking \/ Projecting \/ UNCHANGED vars PROVE Goal
  <2>1. /\ UNCHANGED <<scene, log, script, directorVars, feedVars, gatewayVars>>
    BY <1>3, OthersWriteNothing
  <2>2. LogOK' /\ Extended
    BY <1>0, <2>1, LogGoesOn
  <2>3. DirectorOK'
    BY <1>0, <2>1 DEF DirectorOK, directorVars
  <2>4. QED
    BY <2>1, <2>2, <2>3
<1>4. QED
  BY <1>1, <1>2, <1>3

-----------------------------------------------------------------------------
(* Faults are counted, and never taken back.                                 *)

LEMMA FaultsGrow ==
  ASSUME faults \in Nat, [Next]_vars
  PROVE  faults' \in Nat /\ (faults' = 0 => faults = 0)
<1> SUFFICES faults' = faults \/ faults' = faults + 1
  OBVIOUS
<1>1. CASE World
  BY <1>1 DEF World, WorldWrites
<1>2. CASE Directing
  <2>1. CASE DirectorStep
    BY <2>1 DEF DirectorStep, Observe, Attend, CloseTick, Recall, SkipPlan, AppendAudit,
                AppendOutput, AppendFails, DirectorCrash, logVars, Fault
  <2>2. CASE DirectorAsks
    BY <2>2 DEF DirectorAsks, AskPlan, Judge, logVars
  <2>3. CASE DirectorHears
    BY <2>3 DEF DirectorHears, Replied, Fault
  <2>4. QED
    BY <1>2, <2>1, <2>2, <2>3 DEF Directing
<1>3. CASE Composing
  <2> PICK k \in Scene.crew : FeedStep(k) \/ ComposerAsks(k) \/ ComposerHears(k)
    BY <1>3 DEF Composing
  <2>1. CASE FeedStep(k)
    BY <2>1 DEF FeedStep, Compose, AppendPost, AckSource, ComposeFails, Poison,
                ComposerCrash, logVars, Fault
  <2>2. CASE ComposerAsks(k)
    BY <2>2 DEF ComposerAsks, AskNarration, logVars
  <2>3. CASE ComposerHears(k)
    BY <2>3 DEF ComposerHears, Replied, Fault
  <2>4. QED
    BY <2>1, <2>2, <2>3
<1>4. CASE ActorAsks
  BY <1>4 DEF ActorAsks, logVars
<1>5. CASE Thinking
  BY <1>5 DEF Thinking, AiStep, Begin, ReadSpend, TakeSlot, PassesUnchecked, NoRoute, Complete,
              ProviderFails, Record, CacheExpires, RuntimeCrash, SaveLimits, NextMinute,
              NextDay, logVars, Fault
<1>6. CASE Playing
  BY <1>6 DEF Playing, GatewayStep, OpenSession, ReadHead, AppendCommand, CommandFails,
              ShowReply, CloseSession, Subscribe, Receive, Leave, PresenceExpires, PickLetter,
              PushCrash, PushTo, ChangeSubscription, logVars, Fault
<1>7. CASE Projecting
  BY <1>7 DEF Projecting, TablesStep, PgTake, PgDo, PgAck, PgFails, PgCrash, PgRebuild,
              PgReplay, logVars, Fault
<1>8. CASE UNCHANGED vars
  BY <1>8 DEF vars, logVars
<1>9. QED
  BY <1>1, <1>2, <1>3, <1>4, <1>5, <1>6, <1>7, <1>8 DEF Next

-----------------------------------------------------------------------------
(* The sessions of the player.                                               *)

Deeds(s) == {i \in PlayerStream : log[i].by = s}

Handled(s) == Len(Scene.commands[s]) - Len(sessions[s].todo)

SessionFields == {"on", "todo", "step", "told"}

\* What a session has done, failed at or been told of adds up.
SessionOK(s) ==
  LET x == sessions[s]
  IN  /\ DOMAIN x = SessionFields /\ DOMAIN x.told = DOMAIN Empty
      /\ IsSeq(x.todo)
      /\ x.step.at = "append" => x.todo # <<>> /\ (faults = 0 => x.on)
      /\ IsFiniteSet(Deeds(s)) /\ x.told.acks \subseteq Deeds(s)
      /\ x.told.refused \in Nat /\ Len(Scene.commands[s]) \in Nat
      /\ Cardinality(Deeds(s)) <= Handled(s)
      /\ faults = 0 =>
           /\ Cardinality(Deeds(s)) + x.told.refused = Handled(s)
           /\ x.told.acks = Deeds(s)

SessionsOK ==
  /\ faults \in Nat /\ DOMAIN sessions = Sessions
  /\ \A s \in Sessions : SessionOK(s)

LEMMA SessionsStart ==
  ASSUME Init
  PROVE  SessionsOK
<1>1. /\ faults = 0 /\ log = <<>> /\ scene \in DOMAIN Scenes /\ Scenes[scene] = Scene
      /\ sessions = [s \in Sessions |-> [on |-> FALSE, todo |-> Scene.commands[s],
                                         step |-> Quiet_, told |-> Empty]]
  BY DEF Init, LogInit, GatewayInit, Scene
<1>2. ASSUME NEW s \in Sessions PROVE SessionOK(s)
  <2>1. IsSeq(Scene.commands[s])
    BY <1>1, ScriptAssumption DEF IsSeq
  <2>2. Deeds(s) = {}
    BY <1>1 DEF Deeds, PlayerStream, Of, Ids
  <2>3. /\ sessions[s].todo = Scene.commands[s] /\ sessions[s].step.at = "idle"
        /\ sessions[s].told = Empty /\ DOMAIN sessions[s] = SessionFields
    BY <1>1 DEF Quiet_, SessionFields
  <2>4. Empty.acks = {} /\ Empty.refused = 0
    BY DEF Empty
  <2>5. Len(Scene.commands[s]) \in Nat
    BY <2>1, SeqSize
  <2>6. Cardinality(Deeds(s)) = 0 /\ IsFiniteSet(Deeds(s)) /\ Handled(s) = 0
    BY <2>2, <2>3, <2>5, FS_EmptySet DEF Handled
  <2>7. QED
    BY <2>1, <2>2, <2>3, <2>4, <2>5, <2>6 DEF SessionOK
<1>3. QED
  BY <1>1, <1>2 DEF SessionsOK

\* Entries of others are nobody's deeds here.
LEMMA DeedsStay ==
  ASSUME IsSeq(log),
         log' = log \/ \E e : Grown(log, log', e) /\ e.type # "player", NEW s
  PROVE  Deeds(s)' = Deeds(s)
<1>1. CASE log' = log
  BY <1>1 DEF Deeds, PlayerStream, Of, Ids
<1>2. ASSUME NEW e, Grown(log, log', e), e.type # "player" PROVE Deeds(s)' = Deeds(s)
  <2>1. /\ Len(log) \in Nat /\ Len(log') = Len(log) + 1 /\ log'[Len(log) + 1] = e
        /\ \A n \in 1..Len(log) : log'[n] = log[n]
    BY <1>2, SeqSize DEF Grown
  <2>2. QED
    BY <1>2, <2>1 DEF Deeds, PlayerStream, Of, Ids
<1>3. QED
  BY <1>1, <1>2

\* A deed by s is one of its own.
LEMMA DeedsGrow ==
  ASSUME IsSeq(log), NEW s, NEW e, Grown(log, log', e), e.type = "player", e.by = s
  PROVE  /\ Deeds(s)' = Deeds(s) \cup {Len(log) + 1} /\ Len(log) + 1 \notin Deeds(s)
         /\ \A t : t # s => Deeds(t)' = Deeds(t)
<1>1. /\ Len(log) \in Nat /\ Len(log') = Len(log) + 1 /\ log'[Len(log) + 1] = e
      /\ \A n \in 1..Len(log) : log'[n] = log[n]
  BY SeqSize DEF Grown
<1>2. QED
  BY <1>1 DEF Deeds, PlayerStream, Of, Ids

\* Whoever else moves leaves what a session has done as it is.
LEMMA SessionStays ==
  ASSUME NEW s, SessionOK(s), sessions'[s] = sessions[s], Deeds(s)' = Deeds(s),
         faults' = 0 => faults = 0, scene' = scene
  PROVE  SessionOK(s)'
BY DEF SessionOK, Handled, Scene

LEMMA SessionsStay ==
  ASSUME IsSeq(log), SessionsOK, UNCHANGED <<scene, gatewayVars>>, [Next]_vars,
         log' = log \/ \E e : Grown(log, log', e) /\ e.type # "player"
  PROVE  SessionsOK'
<1>1. faults' \in Nat /\ (faults' = 0 => faults = 0)
  BY FaultsGrow DEF SessionsOK
<1>2. \A s \in Sessions : SessionOK(s)'
  BY <1>1, DeedsStay, SessionStays DEF SessionsOK, gatewayVars
<1>3. QED
  BY <1>1, <1>2 DEF SessionsOK, gatewayVars

\* Others' sessions stay while s moves.
LEMMA OneSession ==
  ASSUME IsSeq(log), SessionsOK, NEW s \in Sessions, scene' = scene,
         faults' \in Nat, faults' = 0 => faults = 0,
         DOMAIN sessions' = Sessions, \A t \in Sessions : t # s => sessions'[t] = sessions[t],
         \A t \in Sessions : t # s => Deeds(t)' = Deeds(t),
         SessionOK(s)'
  PROVE  SessionsOK'
<1>1. ASSUME NEW t \in Sessions, t # s PROVE SessionOK(t)'
  BY <1>1, SessionStays DEF SessionsOK
<1>2. QED
  BY <1>1 DEF SessionsOK

\* A step of a session that commits nothing.
LEMMA SessionTalks ==
  ASSUME LogOK, SessionsOK, NEW s \in Sessions,
         OpenSession(s) \/ ReadHead(s) \/ ShowReply(s) \/ CloseSession(s)
  PROVE  SessionsOK' /\ UNCHANGED <<scene, log, script, readers>>
<1> DEFINE Goal == SessionsOK' /\ UNCHANGED <<scene, log, script, readers>>
           x == sessions[s]
<1>0. /\ SessionOK(s) /\ faults \in Nat /\ DOMAIN sessions = Sessions /\ IsSeq(log)
      /\ DOMAIN x = SessionFields /\ DOMAIN x.told = DOMAIN Empty
  BY DEF SessionsOK, SessionOK, LogOK
<1>1. ASSUME UNCHANGED <<scene, log, script, readers>>, NEW y,
             faults' \in Nat, faults' = 0 => faults = 0,
             sessions' = [sessions EXCEPT ![s] = y],
             DOMAIN y = SessionFields, DOMAIN y.told = DOMAIN Empty, y.todo = x.todo,
             y.step.at = "append" => x.todo # <<>> /\ (faults' = 0 => y.on),
             y.told.acks = x.told.acks, y.told.refused = x.told.refused
      PROVE  Goal
  <2>1. sessions'[s] = y /\ DOMAIN sessions' = Sessions
        /\ \A t \in Sessions : t # s => sessions'[t] = sessions[t]
    BY <1>0, <1>1
  <2>2. \A t : Deeds(t)' = Deeds(t)
    BY <1>1 DEF Deeds, PlayerStream, Of, Ids
  <2>3. Handled(s)' = Handled(s) /\ Scene' = Scene
    BY <1>1, <2>1 DEF Handled, Scene
  <2>4. SessionOK(s)'
    BY <1>0, <1>1, <2>1, <2>2, <2>3 DEF SessionOK
  <2>5. QED
    BY <1>0, <1>1, <2>1, <2>2, <2>4, OneSession
<1>2. CASE OpenSession(s)
  <2> DEFINE y == [x EXCEPT !.on = TRUE, !.told.from = Len(log)]
  <2>1. /\ UNCHANGED <<scene, log, script, readers, faults>>
        /\ sessions' = [sessions EXCEPT ![s].on = TRUE, ![s].told.from = Len(log)]
    BY <1>2 DEF OpenSession, logVars
  <2>2. sessions' = [sessions EXCEPT ![s] = y]
    BY <1>0, <2>1 DEF SessionFields
  <2>3. /\ DOMAIN y = SessionFields /\ DOMAIN y.told = DOMAIN Empty /\ y.todo = x.todo
        /\ y.step = x.step /\ y.on /\ y.told.acks = x.told.acks
        /\ y.told.refused = x.told.refused
    BY <1>0 DEF SessionFields, Empty
  <2> HIDE DEF y
  <2>4. QED
    BY <1>0, <1>1, <2>1, <2>2, <2>3 DEF SessionOK
<1>3. CASE ReadHead(s)
  <2> DEFINE y == [x EXCEPT !.step = [at |-> "append", head |-> HeadOf, tried |-> 1]]
  <2>1. /\ UNCHANGED <<scene, log, script, readers, faults>> /\ x.on /\ x.todo # <<>>
        /\ sessions' = [sessions EXCEPT ![s] = y]
    BY <1>0, <1>3 DEF ReadHead, logVars
  <2>2. /\ DOMAIN y = SessionFields /\ y.told = x.told /\ y.todo = x.todo /\ y.on = x.on
    BY <1>0 DEF SessionFields
  <2> HIDE DEF y
  <2>3. QED
    BY <1>0, <1>1, <2>1, <2>2
<1>4. CASE ShowReply(s)
  <2>1. PICK from : \E shown :
          sessions' = [sessions EXCEPT ![s].told.from = from, ![s].told.shown = shown]
    <3> DEFINE i == Earliest({j \in Letters : j > sessions[s].told.from})
               more == IF log[i].mine \/ log[i].open
                       THEN sessions[s].told.shown \cup {i} ELSE sessions[s].told.shown
    <3>1. sessions' = [sessions EXCEPT ![s].told.from = i,
              ![s].told.shown = IF log[i].mine \/ log[i].open THEN @ \cup {i} ELSE @]
      BY <1>4 DEF ShowReply
    <3>2. sessions' = [sessions EXCEPT ![s].told.from = i, ![s].told.shown = more]
      <4> HIDE DEF i
      <4> QED
        BY <1>0, <3>1 DEF SessionFields, Empty
    <3> HIDE DEF i, more
    <3>3. QED
      BY <3>2
  <2>2. PICK shown :
          sessions' = [sessions EXCEPT ![s].told.from = from, ![s].told.shown = shown]
    BY <2>1
  <2> DEFINE y == [x EXCEPT !.told.from = from, !.told.shown = shown]
  <2>3. UNCHANGED <<scene, log, script, readers, faults>> /\ x.on
    BY <1>4 DEF ShowReply, logVars
  <2>4. sessions' = [sessions EXCEPT ![s] = y]
    BY <1>0, <2>2 DEF SessionFields
  <2>5. /\ DOMAIN y = SessionFields /\ DOMAIN y.told = DOMAIN Empty /\ y.todo = x.todo
        /\ y.step = x.step /\ y.on = x.on /\ y.told.acks = x.told.acks
        /\ y.told.refused = x.told.refused
    BY <1>0 DEF SessionFields, Empty
  <2> HIDE DEF y
  <2>6. QED
    BY <1>0, <1>1, <2>3, <2>4, <2>5 DEF SessionOK
<1>5. CASE CloseSession(s)
  <2> DEFINE y == [x EXCEPT !.on = FALSE]
  <2>1. /\ UNCHANGED <<scene, log, script, readers>> /\ faults' = faults + 1
        /\ sessions' = [sessions EXCEPT ![s] = y]
    BY <1>0, <1>5 DEF CloseSession, Fault
  <2>2. /\ DOMAIN y = SessionFields /\ y.told = x.told /\ y.todo = x.todo /\ y.step = x.step
    BY <1>0 DEF SessionFields
  <2>3. faults' \in Nat /\ faults' # 0
    BY <1>0, <2>1
  <2> HIDE DEF y
  <2>4. QED
    BY <1>0, <1>1, <2>1, <2>2, <2>3 DEF SessionOK
<1>6. QED
  BY <1>2, <1>3, <1>4, <1>5

LEMMA DoneSession ==
  ASSUME SessionsOK, NEW s \in Sessions, NEW told, sessions[s].step.at = "append",
         sessions' = Done(s, told)
  PROVE  /\ DOMAIN sessions' = Sessions
         /\ \A t \in Sessions : t # s => sessions'[t] = sessions[t]
         /\ DOMAIN sessions'[s] = SessionFields /\ sessions'[s].on = sessions[s].on
         /\ sessions'[s].step.at = "idle" /\ sessions'[s].told = told
         /\ IsSeq(sessions'[s].todo)
         /\ Len(sessions[s].todo) \in Nat \ {0}
         /\ Len(sessions'[s].todo) = Len(sessions[s].todo) - 1
<1> DEFINE x == sessions[s]
           y == [x EXCEPT !.todo = Tail(x.todo), !.step = Quiet_, !.told = told]
<1>1. /\ DOMAIN sessions = Sessions /\ DOMAIN x = SessionFields /\ IsSeq(x.todo)
      /\ x.todo # <<>>
  BY DEF SessionsOK, SessionOK
<1>2. sessions' = [sessions EXCEPT ![s] = y]
  BY <1>1 DEF Done, SessionFields
<1>3. /\ DOMAIN y = SessionFields /\ y.on = x.on /\ y.step = Quiet_ /\ y.told = told
      /\ y.todo = Tail(x.todo)
  BY <1>1 DEF SessionFields
<1> HIDE DEF y
<1>4. /\ IsSeq(Tail(x.todo)) /\ Len(Tail(x.todo)) = Len(x.todo) - 1
      /\ Len(x.todo) \in Nat \ {0}
  BY <1>1, Shrinks
<1>5. Quiet_.at = "idle"
  BY DEF Quiet_
<1>6. QED
  BY <1>1, <1>2, <1>3, <1>4, <1>5

\* What was on its way is over, and its session is told: it was committed, ...
LEMMA DeedDone ==
  ASSUME LogOK, SessionsOK, NEW s \in Sessions, NEW told, sessions[s].step.at = "append",
         sessions' = Done(s, told), scene' = scene, faults' \in Nat, faults' = 0 => faults = 0,
         NEW e, Grown(log, log', e), e.type = "player", e.by = s,
         DOMAIN told = DOMAIN Empty,
         \/ told = sessions[s].told /\ (faults' = 0 => ~sessions[s].on)
         \/ /\ told.acks = sessions[s].told.acks \cup {Len(log) + 1}
            /\ told.refused = sessions[s].told.refused
         \/ /\ told.acks = sessions[s].told.acks /\ faults' # 0
            /\ told.refused = sessions[s].told.refused + 1
  PROVE  SessionsOK'
<1> DEFINE x == sessions[s]
           deeds == Deeds(s)
           n == Len(log) + 1
<1>1. /\ SessionOK(s) /\ IsSeq(log) /\ faults \in Nat
  BY DEF SessionsOK, LogOK
<1>2. /\ Deeds(s)' = deeds \cup {n} /\ n \notin deeds
      /\ \A t \in Sessions : t # s => Deeds(t)' = Deeds(t)
  BY <1>1, DeedsGrow
<1>3. /\ DOMAIN sessions' = Sessions
      /\ \A t \in Sessions : t # s => sessions'[t] = sessions[t]
      /\ DOMAIN sessions'[s] = SessionFields /\ sessions'[s].on = x.on
      /\ sessions'[s].step.at = "idle" /\ sessions'[s].told = told
      /\ IsSeq(sessions'[s].todo) /\ Len(x.todo) \in Nat \ {0}
      /\ Len(sessions'[s].todo) = Len(x.todo) - 1
  BY DoneSession
<1>4. /\ IsFiniteSet(deeds) /\ x.told.acks \subseteq deeds /\ x.told.refused \in Nat
      /\ Len(Scene.commands[s]) \in Nat /\ Cardinality(deeds) <= Handled(s)
      /\ x.step.at = "append" => x.todo # <<>> /\ (faults = 0 => x.on)
      /\ faults = 0 =>
           /\ Cardinality(deeds) + x.told.refused = Handled(s)
           /\ x.told.acks = deeds
  BY <1>1 DEF SessionOK
<1> HIDE DEF n, deeds
<1>5. /\ IsFiniteSet(deeds \cup {n}) /\ Cardinality(deeds \cup {n}) = Cardinality(deeds) + 1
      /\ Cardinality(deeds) \in Nat
  BY <1>2, <1>4, FS_AddElement, FS_CardinalityType
<1>6. Handled(s)' = Handled(s) + 1 /\ Handled(s) \in Int /\ Scene' = Scene
  BY <1>3, <1>4 DEF Handled, Scene
<1>7. IsFiniteSet(Deeds(s)') /\ Cardinality(Deeds(s)') = Cardinality(deeds) + 1
  BY <1>2, <1>5
<1>8. told.acks \subseteq Deeds(s)' /\ told.refused \in Nat
  BY <1>2, <1>4 DEF n
<1>9. faults' = 0 => told.acks = Deeds(s)' /\ told.refused = x.told.refused
  BY <1>2, <1>4 DEF n
<1>10. SessionOK(s)'
  BY <1>3, <1>4, <1>5, <1>6, <1>7, <1>8, <1>9 DEF SessionOK
<1>11. QED
  BY <1>1, <1>2, <1>3, <1>10, OneSession

\* ... or it was not.
LEMMA DeedRefused ==
  ASSUME LogOK, SessionsOK, NEW s \in Sessions, NEW told, sessions[s].step.at = "append",
         sessions' = Done(s, told), UNCHANGED <<scene, log>>,
         faults' \in Nat, faults' = 0 => faults = 0, DOMAIN told = DOMAIN Empty,
         told.acks = sessions[s].told.acks, told.refused = sessions[s].told.refused + 1
  PROVE  SessionsOK'
<1> DEFINE x == sessions[s]
<1>1. /\ SessionOK(s) /\ IsSeq(log) /\ faults \in Nat
  BY DEF SessionsOK, LogOK
<1>2. \A t : Deeds(t)' = Deeds(t)
  BY DEF Deeds, PlayerStream, Of, Ids
<1>3. /\ DOMAIN sessions' = Sessions
      /\ \A t \in Sessions : t # s => sessions'[t] = sessions[t]
      /\ DOMAIN sessions'[s] = SessionFields /\ sessions'[s].on = x.on
      /\ sessions'[s].step.at = "idle" /\ sessions'[s].told = told
      /\ IsSeq(sessions'[s].todo) /\ Len(x.todo) \in Nat \ {0}
      /\ Len(sessions'[s].todo) = Len(x.todo) - 1
  BY DoneSession
<1>4. /\ IsFiniteSet(Deeds(s)) /\ x.told.acks \subseteq Deeds(s) /\ x.told.refused \in Nat
      /\ Len(Scene.commands[s]) \in Nat /\ Cardinality(Deeds(s)) <= Handled(s)
      /\ faults = 0 =>
           /\ Cardinality(Deeds(s)) + x.told.refused = Handled(s)
           /\ x.told.acks = Deeds(s)
  BY <1>1 DEF SessionOK
<1>5. Handled(s)' = Handled(s) + 1 /\ Handled(s) \in Int /\ Scene' = Scene
  BY <1>3, <1>4 DEF Handled, Scene
<1>6. Cardinality(Deeds(s)) \in Nat /\ Deeds(s)' = Deeds(s)
  BY <1>2, <1>4, FS_CardinalityType
<1> DEFINE c == Cardinality(Deeds(s))
           h == Handled(s)
           refused == x.told.refused
<1>7. /\ c \in Nat /\ h \in Int /\ refused \in Nat /\ c <= h /\ told.refused = refused + 1
      /\ faults' = 0 => c + refused = h /\ told.acks = Deeds(s)
  BY <1>4, <1>5, <1>6
<1> HIDE DEF c, h, refused
<1>8. /\ c <= h + 1 /\ told.refused \in Nat
       /\ faults' = 0 => c + told.refused = h + 1 /\ told.acks = Deeds(s)
  BY <1>7
<1>9. SessionOK(s)'
  <2>1. told.acks \subseteq Deeds(s)
    BY <1>4
  <2>2. /\ Cardinality(Deeds(s)') = c /\ IsFiniteSet(Deeds(s)') /\ Handled(s)' = h + 1
    BY <1>4, <1>5, <1>6 DEF c, h
  <2>3. QED
    BY <1>3, <1>4, <1>5, <1>6, <1>8, <2>1, <2>2 DEF SessionOK
<1>10. QED
  BY <1>1, <1>2, <1>3, <1>9, OneSession

\* A session's deed.
LEMMA DeedOfSession ==
  ASSUME NEW s
  PROVE  Deed(s).type = "player" /\ Deed(s).by = s
BY DEF Deed

LEMMA SessionCommits ==
  ASSUME LogOK, SessionsOK, NEW s \in Sessions, AppendCommand(s) \/ CommandFails(s)
  PROVE  /\ SessionsOK' /\ UNCHANGED <<scene, script, readers>>
         /\ log' = log \/ (Grown(log, log', Deed(s)) /\ Len(log') <= MaxLog)
<1> DEFINE Goal == /\ SessionsOK' /\ UNCHANGED <<scene, script, readers>>
                   /\ log' = log \/ (Grown(log, log', Deed(s)) /\ Len(log') <= MaxLog)
           x == sessions[s]
           told == x.told
<1>0. /\ SessionOK(s) /\ faults \in Nat /\ DOMAIN sessions = Sessions /\ IsSeq(log)
      /\ DOMAIN x = SessionFields /\ DOMAIN told = DOMAIN Empty
  BY DEF SessionsOK, SessionOK, LogOK
<1>1. ASSUME Write(<<Deed(s)>>) PROVE Grown(log, log', Deed(s)) /\ Len(log') <= MaxLog
  BY <1>0, <1>1, WriteOne
<1> DEFINE acked_ == [told EXCEPT !.acks = @ \cup {Len(log) + 1}]
           refused == [told EXCEPT !.refused = @ + 1]
<1>2. /\ DOMAIN acked_ = DOMAIN Empty /\ acked_.acks = told.acks \cup {Len(log) + 1}
      /\ acked_.refused = told.refused
      /\ DOMAIN refused = DOMAIN Empty /\ refused.acks = told.acks
      /\ refused.refused = told.refused + 1
  BY <1>0 DEF Empty
<1>3. CASE AppendCommand(s)
  <2>1. x.step.at = "append" /\ UNCHANGED <<scene, script, faults, readers>>
    BY <1>3 DEF AppendCommand
  <2>2. CASE x.step.head = HeadOf
    <3>1. Write(<<Deed(s)>>) /\ sessions' = Done(s, IF x.on THEN acked_ ELSE told)
      BY <1>3, <2>2 DEF AppendCommand
    <3> HIDE DEF acked_
    <3>2. Grown(log, log', Deed(s)) /\ Len(log') <= MaxLog
      BY <1>1, <3>1
    <3>3. Deed(s).type = "player" /\ Deed(s).by = s
      BY DeedOfSession
    <3>4. CASE x.on
      <4>1. sessions' = Done(s, acked_)
        BY <3>1, <3>4
      <4>2. SessionsOK'
        BY <1>0, <1>2, <2>1, <3>2, <3>3, <4>1, DeedDone
      <4>3. QED
        BY <2>1, <3>2, <4>2
    <3>5. CASE ~x.on
      <4>1. sessions' = Done(s, told)
        BY <3>1, <3>5
      <4>2. SessionsOK'
        BY <1>0, <2>1, <3>2, <3>3, <3>5, <4>1, DeedDone
      <4>3. QED
        BY <2>1, <3>2, <4>2
    <3>6. QED
      BY <3>4, <3>5
  <2>3. CASE x.step.head # HeadOf
    <3> HIDE DEF refused
    <3>1. log' = log
      BY <1>3, <2>3 DEF AppendCommand
    <3>2. CASE x.step.tried = 1
      <4> DEFINE step == [at |-> "append", head |-> HeadOf, tried |-> 2]
                 y == [x EXCEPT !.step = step]
      <4>1. sessions' = [sessions EXCEPT ![s].step = step]
        BY <1>3, <2>3, <3>2 DEF AppendCommand
      <4>2. sessions' = [sessions EXCEPT ![s] = y]
        BY <1>0, <4>1 DEF SessionFields
      <4>3. /\ DOMAIN y = SessionFields /\ y.told = told /\ y.todo = x.todo /\ y.on = x.on
        BY <1>0 DEF SessionFields
      <4>4. x.todo # <<>> /\ (faults = 0 => x.on)
        BY <1>0, <2>1 DEF SessionOK
      <4> HIDE DEF y, step
      <4>5. sessions'[s] = y /\ DOMAIN sessions' = Sessions
            /\ \A t \in Sessions : t # s => sessions'[t] = sessions[t]
        BY <1>0, <4>2
      <4>6. \A t : Deeds(t)' = Deeds(t)
        BY <3>1 DEF Deeds, PlayerStream, Of, Ids
      <4>7. Handled(s)' = Handled(s) /\ Scene' = Scene
        BY <2>1, <4>3, <4>5 DEF Handled, Scene
      <4>8. SessionOK(s)'
        BY <1>0, <2>1, <4>3, <4>4, <4>5, <4>6, <4>7 DEF SessionOK
      <4>9. SessionsOK'
        BY <1>0, <2>1, <4>5, <4>6, <4>8, OneSession
      <4>10. QED
        BY <2>1, <3>1, <4>9
    <3>3. CASE x.step.tried # 1
      <4>1. sessions' = Done(s, refused)
        BY <1>3, <2>3, <3>3 DEF AppendCommand, refused
      <4>2. SessionsOK'
        BY <1>0, <1>2, <2>1, <3>1, <4>1, DeedRefused
      <4>3. QED
        BY <2>1, <3>1, <4>2
    <3>4. QED
      BY <3>2, <3>3
  <2>4. QED
    BY <2>2, <2>3
<1>4. CASE CommandFails(s)
  <2>1. /\ x.step.at = "append" /\ UNCHANGED <<scene, script, readers>>
        /\ faults' = faults + 1 /\ sessions' = Done(s, refused)
        /\ log' = log \/ Write(<<Deed(s)>>)
    BY <1>4 DEF CommandFails, Fault
  <2>2. faults' \in Nat /\ faults' # 0
    BY <1>0, <2>1
  <2> HIDE DEF refused
  <2>3. CASE log' = log
    <3>1. SessionsOK'
      BY <1>0, <1>2, <2>1, <2>2, <2>3, DeedRefused
    <3>2. QED
      BY <2>1, <2>3, <3>1
  <2>4. CASE Write(<<Deed(s)>>)
    <3>1. Grown(log, log', Deed(s)) /\ Len(log') <= MaxLog
      BY <1>1, <2>4
    <3>2. Deed(s).type = "player" /\ Deed(s).by = s
      BY DeedOfSession
    <3>3. SessionsOK'
      BY <1>0, <1>2, <2>1, <2>2, <3>1, <3>2, DeedDone
    <3>4. QED
      BY <2>1, <3>1, <3>3
  <2>5. QED
    BY <2>1, <2>3, <2>4
<1>5. QED
  BY <1>3, <1>4

-----------------------------------------------------------------------------
(* The readers of the feed.                                                  *)

\* A reader has all that is new to it, up to where it is.
ReaderOK(r) ==
  LET x == readers[r]
  IN  /\ DOMAIN x = DOMAIN Reader
      /\ x.pos \in Nat /\ x.cursor \in Nat /\ x.asked \in Nat /\ x.since \in Nat /\ x.cut \in Nat
      /\ x.pos <= Len(log) /\ x.cursor <= Len(log)
      /\ x.on => x.asked = 0 \/ x.asked <= x.cut
      /\ x.on => \A i \in Feed : x.since < i /\ i <= x.pos /\ log[i].src > x.cut => i \in x.got

ReadersOK == DOMAIN readers = Readers /\ \A r \in Readers : ReaderOK(r)

LEMMA ReadersStart ==
  ASSUME Init
  PROVE  ReadersOK
<1>1. readers = [r \in Readers |-> Reader] /\ Len(log) = 0
  BY DEF Init, GatewayInit, LogInit
<1>2. /\ Reader.pos = 0 /\ Reader.cursor = 0 /\ Reader.asked = 0 /\ Reader.since = 0
      /\ Reader.cut = 0 /\ Reader.on = FALSE
  BY DEF Reader
<1>3. ASSUME NEW r \in Readers PROVE ReaderOK(r)
  <2>1. readers[r] = Reader
    BY <1>1
  <2>2. QED
    BY <1>1, <1>2, <2>1 DEF ReaderOK
<1>4. QED
  BY <1>1, <1>3 DEF ReadersOK

\* Where nobody reads further, what is added to the log is ahead of it.
LEMMA ReaderStays ==
  ASSUME IsSeq(log), Extended, NEW r, ReaderOK(r), readers'[r] = readers[r]
  PROVE  ReaderOK(r)'
<1>1. /\ Len(log) \in Nat /\ Len(log') \in Nat /\ Len(log) <= Len(log')
      /\ \A n \in 1..Len(log) : log'[n] = log[n]
  BY SeqSize DEF Extended
<1> DEFINE x == readers[r]
<1>2. ASSUME NEW i \in Feed', x.pos \in Nat, x.pos <= Len(log), i <= x.pos
      PROVE  i \in Feed /\ log'[i] = log[i]
  <2>1. i \in 1..Len(log)
    BY <1>1, <1>2 DEF Feed, Of, Ids
  <2>2. QED
    BY <1>1, <1>2, <2>1 DEF Feed, Of, Ids
<1>3. QED
  BY <1>1, <1>2 DEF ReaderOK

LEMMA OneReader ==
  ASSUME IsSeq(log), Extended, ReadersOK, NEW r, NEW d,
         readers' = [readers EXCEPT ![r] = d], r \in Readers => ReaderOK(r)'
  PROVE  ReadersOK'
<1>1. DOMAIN readers' = Readers /\ \A q \in Readers : q # r => readers'[q] = readers[q]
  BY DEF ReadersOK
<1>2. ASSUME NEW q \in Readers, q # r PROVE ReaderOK(q)'
  <2>1. ReaderOK(q) /\ readers'[q] = readers[q]
    BY <1>1, <1>2 DEF ReadersOK
  <2>2. QED
    BY <2>1, ReaderStays
<1>3. QED
  BY <1>1, <1>2 DEF ReadersOK

\* What has a post before it is older than it.
LEMMA PostIsLater ==
  ASSUME LogOK, NEW i \in Feed
  PROVE  i \in 1..Len(log) /\ log[i].src \in Nat /\ log[i].src < i
<1>1. i \in 1..Len(log) /\ Len(log) \in Nat
  BY SeqSize DEF LogOK, Feed, Of, Ids
<1>2. log[i].src \in 1..(i - 1)
  BY DEF LogOK, PostsOK, Feed
<1>3. QED
  BY <1>1, <1>2

\* A reader starts at the end, or a little before the last it has seen.
LEMMA SubscribeKeeps ==
  ASSUME LogOK, ReadersOK, NEW r, NEW poll, Subscribe(r, poll)
  PROVE  ReadersOK'
<1> DEFINE x == readers[r]
           cursor == x.cursor
           start == IF cursor = 0 THEN Len(log)
                    ELSE IF cursor > Slack THEN cursor - Slack - 1 ELSE 0
           since == IF cursor = 0 THEN Len(log) ELSE x.since
           cut == IF cursor > x.cut THEN cursor ELSE x.cut
           joins == x.joins + 1
           d == [x EXCEPT !.on = TRUE, !.poll = poll, !.pos = start, !.asked = cursor,
                          !.since = since, !.batch = 0, !.cut = cut, !.joins = joins]
<1>1. /\ readers' = [readers EXCEPT ![r] = d] /\ log' = log
      /\ IsSeq(log) /\ Len(log) \in Nat
  BY SeqSize DEF Subscribe, logVars, LogOK
<1>2. Extended
  BY <1>1, SeqSize DEF Extended
<1>3. ASSUME r \in Readers PROVE ReaderOK(r)'
  <2>1. /\ DOMAIN x = DOMAIN Reader /\ cursor \in Nat /\ x.cut \in Nat /\ x.since \in Nat
        /\ cursor <= Len(log)
    BY <1>3 DEF ReadersOK, ReaderOK
  <2> HIDE DEF start, since, cut, joins
  <2>2. /\ DOMAIN d = DOMAIN Reader /\ d.pos = start /\ d.asked = cursor /\ d.since = since
        /\ d.cut = cut /\ d.cursor = cursor /\ d.on = TRUE
    BY <2>1 DEF Reader
  <2> HIDE DEF d
  <2>3. readers'[r] = d
    BY <1>1, <1>3 DEF ReadersOK
  <2>4. /\ start \in Nat /\ start <= Len(log) /\ since \in Nat /\ cut \in Nat /\ cursor <= cut
        /\ cursor = 0 => start = since
        /\ cursor # 0 => start < cursor
    BY <1>1, <2>1, GatewayAssumption DEF start, since, cut
  <2>5. ASSUME NEW i \in Feed, since < i, i <= start, log[i].src > cut PROVE FALSE
    <3>1. i \in Nat /\ log[i].src \in Nat /\ log[i].src < i
      BY PostIsLater
    <3>2. QED
      BY <2>1, <2>4, <2>5, <3>1
  <2>6. Feed' = Feed
    BY <1>1 DEF Feed, Of, Ids
  <2>7. QED
    BY <1>1, <2>1, <2>2, <2>3, <2>4, <2>5, <2>6 DEF ReaderOK
<1> HIDE DEF d
<1>4. QED
  BY <1>1, <1>2, <1>3, OneReader

\* The next event is taken, or passed over because the reader has seen it.
LEMMA ReceiveKeeps ==
  ASSUME LogOK, ReadersOK, NEW r, Receive(r)
  PROVE  ReadersOK'
<1> DEFINE x == readers[r]
           waiting == {j \in Feed : j > x.pos}
<1>1. /\ x.on /\ waiting # {} /\ log' = log /\ IsSeq(log) /\ Len(log) \in Nat
  BY SeqSize DEF Receive, logVars, LogOK
<1>2. PICK i : i = Earliest(waiting)
  OBVIOUS
<1> DEFINE got == x.got \cup {i}
           src == log[i].src
           batch == x.batch + 1
           took == [x EXCEPT !.pos = i, !.got = got, !.cursor = src, !.batch = batch]
           skipped == [x EXCEPT !.pos = i]
           d == IF Accepts(r, i) THEN took ELSE skipped
<1>3. readers' = [readers EXCEPT ![r] = d]
  BY <1>2 DEF Receive
<1>4. Extended /\ Feed' = Feed
  BY <1>1, SeqSize DEF Extended, Feed, Of, Ids
<1>5. ASSUME r \in Readers PROVE ReaderOK(r)'
  <2>1. /\ DOMAIN x = DOMAIN Reader
        /\ x.pos \in Nat /\ x.cursor \in Nat /\ x.asked \in Nat /\ x.since \in Nat /\ x.cut \in Nat
        /\ x.pos <= Len(log) /\ x.cursor <= Len(log)
        /\ x.asked = 0 \/ x.asked <= x.cut
        /\ \A j \in Feed : x.since < j /\ j <= x.pos /\ log[j].src > x.cut => j \in x.got
    BY <1>1, <1>5 DEF ReadersOK, ReaderOK
  <2>2. i \in waiting /\ \A j \in waiting : i <= j
    <3>1. waiting \subseteq Nat
      BY DEF Feed, Of, Ids
    <3> HIDE DEF waiting
    <3>2. QED
      BY <1>1, <1>2, <3>1, Earlier
  <2>3. i \in Feed /\ i > x.pos /\ i \in 1..Len(log) /\ src \in Nat /\ src < i
    BY <2>2, PostIsLater
  <2> HIDE DEF got, src, batch
  <2>4. /\ DOMAIN took = DOMAIN Reader /\ took.pos = i /\ took.asked = x.asked
        /\ took.since = x.since /\ took.cut = x.cut /\ took.cursor = src
        /\ took.got = got /\ took.on = x.on
    BY <2>1 DEF Reader
  <2>5. /\ DOMAIN skipped = DOMAIN Reader /\ skipped.pos = i /\ skipped.asked = x.asked
        /\ skipped.since = x.since /\ skipped.cut = x.cut /\ skipped.cursor = x.cursor
        /\ skipped.got = x.got /\ skipped.on = x.on
    BY <2>1 DEF Reader
  <2> HIDE DEF took, skipped
  <2>6. readers'[r] = d
    BY <1>3, <1>5 DEF ReadersOK
  <2>7. \A j \in Feed : j <= i => j <= x.pos \/ j = i
    <3> TAKE j \in Feed
    <3>1. j \in Nat
      BY PostIsLater
    <3>2. QED
      BY <2>1, <2>2, <2>3, <3>1
  <2>8. CASE Accepts(r, i)
    <3>1. readers'[r] = took
      BY <2>6, <2>8
    <3>2. src <= Len(log)
      BY <1>1, <2>3
    <3>3. \A j \in Feed : x.since < j /\ j <= i /\ log[j].src > x.cut => j \in got
      BY <2>1, <2>7 DEF got
    <3>4. QED
      BY <1>1, <1>4, <2>1, <2>3, <2>4, <3>1, <3>2, <3>3 DEF ReaderOK
  <2>9. CASE ~Accepts(r, i)
    <3>1. readers'[r] = skipped
      BY <2>6, <2>9
    <3>2. x.asked # 0 /\ ~ (src > x.asked)
      BY <2>9 DEF Accepts, src
    <3>3. ~ (src > x.cut)
      BY <2>1, <2>3, <3>2
    <3>4. \A j \in Feed : x.since < j /\ j <= i /\ log[j].src > x.cut => j \in x.got
      BY <2>1, <2>7, <3>3 DEF src
    <3>5. QED
      BY <1>1, <1>4, <2>1, <2>3, <2>5, <3>1, <3>4 DEF ReaderOK
  <2>10. QED
    BY <2>8, <2>9
<1> HIDE DEF d
<1>6. QED
  BY <1>1, <1>3, <1>4, <1>5, OneReader

LEMMA LeaveKeeps ==
  ASSUME LogOK, ReadersOK, NEW r, Leave(r)
  PROVE  ReadersOK'
<1> DEFINE x == readers[r]
           d == [x EXCEPT !.on = FALSE]
<1>1. readers' = [readers EXCEPT ![r].on = FALSE] /\ log' = log /\ IsSeq(log)
  BY DEF Leave, logVars, LogOK
<1>2. Extended
  BY <1>1, SeqSize DEF Extended
<1>3. readers' = [readers EXCEPT ![r] = d]
  BY <1>1
<1>4. ASSUME r \in Readers PROVE ReaderOK(r)'
  <2>1. ReaderOK(r) /\ readers'[r] = d
    BY <1>3, <1>4 DEF ReadersOK
  <2>2. /\ DOMAIN d = DOMAIN Reader /\ d.pos = x.pos /\ d.asked = x.asked /\ d.since = x.since
        /\ d.cut = x.cut /\ d.cursor = x.cursor /\ d.on = FALSE
    BY <2>1 DEF ReaderOK, Reader
  <2> HIDE DEF d
  <2>3. QED
    BY <1>1, <2>1, <2>2 DEF ReaderOK
<1> HIDE DEF d
<1>5. QED
  BY <1>1, <1>2, <1>3, <1>4, OneReader

LEMMA ReadersStay ==
  ASSUME IsSeq(log), Extended, ReadersOK, UNCHANGED readers
  PROVE  ReadersOK'
<1>1. ASSUME NEW r \in Readers PROVE ReaderOK(r)'
  BY <1>1, ReaderStays DEF ReadersOK
<1>2. QED
  BY <1>1 DEF ReadersOK

-----------------------------------------------------------------------------
(* Everybody's steps, as far as posts, commands and readers go.              *)

AllOK == FeedInv /\ SessionsOK /\ ReadersOK

\* What one entry, or none, does to those who only look on.
LEMMA OnlookersStay ==
  ASSUME AllOK, [Next]_vars, UNCHANGED <<scene, gatewayVars>>, Extended,
         log' = log \/ \E e : Grown(log, log', e) /\ e.type # "player"
  PROVE  SessionsOK' /\ ReadersOK'
<1>1. IsSeq(log) /\ SessionsOK /\ ReadersOK /\ readers' = readers
  BY DEF AllOK, FeedInv, LogOK, gatewayVars
<1>2. QED
  BY <1>1, SessionsStay, ReadersStay

\* The players' steps.
LEMMA PlayingKeeps ==
  ASSUME AllOK, [Next]_vars, Playing
  PROVE  /\ AllOK' /\ Extended /\ UNCHANGED <<scene, feedVars>>
         /\ log' = log \/ \E e : Grown(log, log', e) /\ e.type = "player"
<1> DEFINE Goal == /\ SessionsOK' /\ ReadersOK' /\ UNCHANGED <<scene, script>>
                   /\ \/ log' = log
                      \/ \E s : Grown(log, log', Deed(s)) /\ Len(log') <= MaxLog
<1>0. /\ LogOK /\ DirectorOK /\ FeedOK /\ SessionsOK /\ ReadersOK /\ IsSeq(log)
      /\ UNCHANGED <<directorVars, feedVars>>
  BY DEF AllOK, FeedInv, LogOK, Playing
<1>1. ASSUME NEW s \in Sessions,
             OpenSession(s) \/ ReadHead(s) \/ ShowReply(s) \/ CloseSession(s)
      PROVE  Goal
  <2>1. SessionsOK' /\ UNCHANGED <<scene, log, script, readers>>
    BY <1>0, <1>1, SessionTalks
  <2>2. Extended
    BY <1>0, <2>1, SeqSize DEF Extended
  <2>3. ReadersOK'
    BY <1>0, <2>1, <2>2, ReadersStay
  <2>4. QED
    BY <2>1, <2>3
<1>2. ASSUME NEW s \in Sessions, AppendCommand(s) \/ CommandFails(s) PROVE Goal
  <2>1. /\ SessionsOK' /\ UNCHANGED <<scene, script, readers>>
        /\ log' = log \/ (Grown(log, log', Deed(s)) /\ Len(log') <= MaxLog)
    BY <1>0, <1>2, SessionCommits
  <2>2. Extended
    BY <1>0, <2>1, GrownExtends
  <2>3. ReadersOK'
    BY <1>0, <2>1, <2>2, ReadersStay
  <2>4. QED
    BY <2>1, <2>3
<1>3. ASSUME NEW r, (\E poll \in BOOLEAN : Subscribe(r, poll)) \/ Receive(r) \/ Leave(r)
      PROVE  Goal
  <2>1. ReadersOK'
    <3>1. ASSUME NEW poll, Subscribe(r, poll) PROVE ReadersOK'
      BY <1>0, <3>1, SubscribeKeeps
    <3>2. ASSUME Receive(r) PROVE ReadersOK'
      BY <1>0, <3>2, ReceiveKeeps
    <3>3. ASSUME Leave(r) PROVE ReadersOK'
      BY <1>0, <3>3, LeaveKeeps
    <3>4. QED
      BY <1>3, <3>1, <3>2, <3>3
  <2>2. UNCHANGED <<scene, log, script, faults, sessions>>
    BY <1>3 DEF Subscribe, Receive, Leave, logVars
  <2>3. \A s : Deeds(s)' = Deeds(s)
    BY <2>2 DEF Deeds, PlayerStream, Of, Ids
  <2>4. SessionsOK'
    <3>1. \A s \in Sessions : SessionOK(s)'
      BY <1>0, <2>2, <2>3, SessionStays DEF SessionsOK
    <3>2. QED
      BY <1>0, <2>2, <3>1 DEF SessionsOK
  <2>5. QED
    BY <2>1, <2>2, <2>4
<1>4. ASSUME \/ PresenceExpires \/ PickLetter \/ PushCrash
             \/ \E e \in Scene.endpoints : PushTo(e) \/ ChangeSubscription(e)
      PROVE  Goal
  <2>1. UNCHANGED <<scene, log, script, sessions, readers>>
    BY <1>4 DEF PresenceExpires, PickLetter, PushCrash, PushTo, ChangeSubscription, logVars
  <2>2. Extended /\ faults' \in Nat /\ (faults' = 0 => faults = 0)
    BY <1>0, <2>1, SeqSize, FaultsGrow DEF Extended, SessionsOK
  <2>3. ReadersOK'
    BY <1>0, <2>1, <2>2, ReadersStay
  <2>4. \A s : Deeds(s)' = Deeds(s)
    BY <2>1 DEF Deeds, PlayerStream, Of, Ids
  <2>5. \A s \in Sessions : SessionOK(s)'
    BY <1>0, <2>1, <2>2, <2>4, SessionStays DEF SessionsOK
  <2>6. QED
    BY <1>0, <2>1, <2>2, <2>3, <2>5 DEF SessionsOK
<1>5. Goal
  BY <1>1, <1>2, <1>3, <1>4 DEF Playing, GatewayStep
<1>6. \A s : Grown(log, log', Deed(s)) /\ Len(log') <= MaxLog
        => Enters(Deed(s)) /\ Deed(s).type = "player"
  BY DeedOfSession DEF Enters, PostOK, DeedOK
<1>7. log' = log \/ \E e : Enters(e) /\ Grown(log, log', e) /\ e.type = "player"
  BY <1>5, <1>6
<1>8. LogOK' /\ Extended
  BY <1>0, <1>5, <1>7, LogGoesOn
<1>9. FeedOK' /\ DirectorOK'
  <2>1. FeedOK'
    BY <1>0, <1>8, FeedStays
  <2>2. DirectorOK'
    BY <1>0 DEF DirectorOK, directorVars
  <2>3. QED
    BY <2>1, <2>2
<1>10. QED
  BY <1>0, <1>5, <1>7, <1>8, <1>9 DEF AllOK, FeedInv

\* A composer's steps.
ComposerStep(k) ==
  \/ Compose(k) \/ AppendPost(k) \/ AckSource(k) \/ ComposeFails(k) \/ Poison(k)
  \/ ComposerCrash(k) \/ HearNarration(k) \/ \E c : AskNarration(k, c)

LEMMA ComposingSteps ==
  ASSUME LogOK, Composing
  PROVE  /\ \E k \in Scene.crew : k \in Composers /\ ComposerStep(k)
         /\ UNCHANGED <<directorVars, gatewayVars>>
<1>1. PICK k \in Scene.crew : FeedStep(k) \/ ComposerAsks(k) \/ ComposerHears(k)
  BY DEF Composing
<1>2. k \in Composers
  BY FeedAssumption DEF LogOK, Scene
<1>3. ComposerStep(k)
  BY <1>1 DEF FeedStep, ComposerAsks, ComposerHears, ComposerStep
<1>4. QED
  BY <1>2, <1>3 DEF Composing

LEMMA ComposingKeeps ==
  ASSUME AllOK, [Next]_vars, Composing
  PROVE  AllOK' /\ Extended /\ scene' = scene
<1>0. /\ LogOK /\ DirectorOK /\ FeedOK /\ IsSeq(log)
  BY DEF AllOK, FeedInv, LogOK
<1>1. PICK k \in Scene.crew : k \in Composers /\ ComposerStep(k)
  BY <1>0, ComposingSteps
<1>2. UNCHANGED <<directorVars, gatewayVars>>
  BY <1>0, ComposingSteps
<1> DEFINE Goal == /\ LogOK' /\ FeedOK' /\ Extended /\ scene' = scene
                   /\ log' = log \/ \E e : Grown(log, log', e) /\ e.type # "player"
<1>3. ASSUME FeedOK', UNCHANGED <<scene, log, script>> PROVE Goal
  BY <1>0, <1>3, LogGoesOn
<1>4. ASSUME Compose(k) PROVE Goal
  BY <1>0, <1>1, <1>3, <1>4, ComposeKeeps
<1>5. ASSUME AppendPost(k) PROVE Goal
  <2>1. /\ FeedOK' /\ LogOK' /\ Extended
        /\ \/ log' = log
           \/ \E e : Grown(log, log', e) /\ e.type = "post"
    BY <1>0, <1>1, <1>5, AppendKeeps
  <2>2. scene' = scene
    BY <1>5 DEF AppendPost
  <2>3. QED
    BY <2>1, <2>2
<1>6. ASSUME \/ AckSource(k) \/ ComposeFails(k) \/ Poison(k) \/ ComposerCrash(k)
             \/ HearNarration(k) \/ \E c : AskNarration(k, c)
      PROVE  Goal
  <2>1. FeedOK' /\ UNCHANGED <<scene, log, script>>
    BY <1>0, <1>1, <1>6, HandsKeep
  <2>2. QED
    BY <1>3, <2>1
<1>7. Goal
  BY <1>1, <1>4, <1>5, <1>6 DEF ComposerStep
<1>8. DirectorOK'
  BY <1>0, <1>2 DEF DirectorOK, directorVars
<1>9. SessionsOK' /\ ReadersOK'
  BY <1>2, <1>7, OnlookersStay
<1>10. QED
  BY <1>7, <1>8, <1>9 DEF AllOK, FeedInv

LEMMA AllKeep ==
  ASSUME AllOK, [Next]_vars
  PROVE  AllOK' /\ Extended
<1>1. CASE World \/ Directing \/ ActorAsks \/ Thinking \/ Projecting \/ UNCHANGED vars
  <2>1. FeedInv /\ IsSeq(log)
    BY DEF AllOK, FeedInv, LogOK
  <2>2. /\ LogOK' /\ DirectorOK' /\ Extended /\ UNCHANGED <<feedVars, gatewayVars>>
        /\ log' = log \/ \E e : Grown(log, log', e) /\ e.type # "player"
    BY <1>1, <2>1, OthersKeep
  <2>3. FeedOK'
    BY <2>1, <2>2, FeedStays DEF FeedInv
  <2>4. SessionsOK' /\ ReadersOK'
    BY <2>2, SceneKept, OnlookersStay
  <2>5. QED
    BY <2>2, <2>3, <2>4 DEF AllOK, FeedInv
<1>2. CASE Playing
  BY <1>2, PlayingKeeps
<1>3. CASE Composing
  BY <1>3, ComposingKeeps
<1>4. QED
  BY <1>1, <1>2, <1>3 DEF Next

-----------------------------------------------------------------------------

LEMMA AllStart ==
  ASSUME Init
  PROVE  AllOK
<1>1. LogOK /\ SessionsOK /\ ReadersOK
  BY LogStarts, SessionsStart, ReadersStart
<1>2. DirectorOK
  <2>1. dir = Blank
    BY DEF Init, DirectorInit
  <2>2. DOMAIN Blank = Memory /\ Blank.at = "idle"
    BY DEF Memory, Blank
  <2>3. QED
    BY <2>1, <2>2 DEF DirectorOK
<1>3. FeedOK
  <2>1. /\ composers = [k \in Composers |-> Fresh]
        /\ settled = [i \in 1..MaxLog |-> "open"] /\ tries = [i \in 1..MaxLog |-> 0]
    BY DEF Init, FeedInit
  <2>2. DOMAIN Fresh = Hands /\ Fresh.at = "idle" /\ Fresh.msg = 0
    BY DEF Hands, Fresh
  <2>3. \A i \in Of(Sources) : i # 0
    BY DEF Of, Ids
  <2>4. \A k \in Composers : HoldsOK(k)
    BY <2>1, <2>2, <2>3 DEF HoldsOK, Writing
  <2>5. QED
    BY <2>1, <2>4 DEF FeedOK
<1>4. QED
  BY <1>1, <1>2, <1>3 DEF AllOK, FeedInv

\* What follows from all that.
LEMMA AllTells ==
  ASSUME AllOK
  PROVE  PostedOnce /\ NodesArePosted /\ ChaptersTurn /\ GatewayInv
<1>0. /\ LogOK /\ FeedOK /\ SessionsOK /\ ReadersOK /\ PostsOK
      /\ Len(log) \in Nat /\ Len(log) <= MaxLog /\ Ids = 1..Len(log)
  BY SeqSize DEF AllOK, FeedInv, LogOK, Ids
<1>1. PostedOnce
  <2> SUFFICES ASSUME NEW i \in Of(Sources) PROVE Cardinality(Posts(i)) <= 1
    BY DEF PostedOnce
  <2>1. \A j, m \in Posts(i) : j = m
    BY <1>0 DEF PostsOK, Posts
  <2>2. CASE Posts(i) = {}
    BY <2>2, FS_EmptySet
  <2>3. CASE Posts(i) # {}
    <3>1. PICK j : {j} = Posts(i)
      BY <2>1, <2>3
    <3>2. Cardinality({j}) = 1
      BY FS_Singleton
    <3>3. QED
      BY <3>1, <3>2
  <2>4. QED
    BY <2>2, <2>3
<1>2. NodesArePosted
  <2> SUFFICES ASSUME NEW i \in Of({"goal", "debut", "arc"}), settled[i] = "acked",
                      log[i].type = "arc" => PreviousStage(i) # log[i].stage
               PROVE  Posts(i) # {}
    BY DEF NodesArePosted
  <2>1. i \in Ids /\ i \in 1..MaxLog
    BY <1>0, LogAssumption DEF Of
  <2>2. MustPost(i)
    BY DEF MustPost, Of
  <2>3. QED
    BY <1>0, <2>1, <2>2 DEF FeedOK
<1>3. ChaptersTurn
  <2> SUFFICES ASSUME NEW i \in Of({"post"}), log[i].of = "arc"
               PROVE  PreviousStage(log[i].src) # log[i].kind
    BY DEF ChaptersTurn
  <2>1. PICK s : s = log[i].src
    OBVIOUS
  <2>2. PreviousStage(s) # log[i].kind
    BY <1>0, <2>1 DEF PostsOK
  <2>3. QED
    BY <2>1, <2>2
<1>4. NothingMissed
  <2> SUFFICES ASSUME NEW r \in Readers, readers[r].on, NEW i \in Feed,
                      readers[r].since < i, i <= readers[r].pos, log[i].src > readers[r].cut
               PROVE  i \in readers[r].got
    BY DEF NothingMissed
  <2>1. ReaderOK(r)
    BY <1>0 DEF ReadersOK
  <2>2. QED
    BY <2>1 DEF ReaderOK
<1>5. AcksAreDeeds
  <2> SUFFICES ASSUME NEW s \in Sessions
               PROVE  /\ sessions[s].told.acks \subseteq Deeds(s)
                      /\ Cardinality(Deeds(s)) <= Handled(s)
                      /\ faults = 0 =>
                           /\ Cardinality(Deeds(s)) + sessions[s].told.refused = Handled(s)
                           /\ sessions[s].told.acks = Deeds(s)
    BY DEF AcksAreDeeds, Deeds, Handled
  <2>1. SessionOK(s)
    BY <1>0 DEF SessionsOK
  <2>2. QED
    BY <2>1 DEF SessionOK
<1>6. QED
  BY <1>1, <1>2, <1>3, <1>4, <1>5 DEF GatewayInv

-----------------------------------------------------------------------------
(* One composer alone, without faults: nobody floods the feed.               *)

\* Halved twice, nothing is worth a post.
LEMMA TwiceSinks ==
  ASSUME NEW drama \in Nat, drama <= Unit, NEW boost \in {0, Lit}, NEW key,
         NEW seen, IsSeq(seen)
  PROVE  ~Worthy(drama, boost, key, seen, 2)
<1> DEFINE n == IF seen = <<>> THEN 1 ELSE Len(seen)
           same == {j \in DOMAIN seen : seen[j] = key}
           count == Cardinality(same)
<1>1. Len(seen) \in Nat /\ DOMAIN seen = 1..Len(seen) /\ (seen # <<>> => Len(seen) # 0)
  BY SeqSize, Shrinks
<1>2. n \in Nat \ {0}
  BY <1>1
<1>3. count \in Nat
  <2>1. IsFiniteSet(1..Len(seen)) /\ same \subseteq 1..Len(seen)
    BY <1>1, FS_Interval
  <2> HIDE DEF same
  <2>2. QED
    BY <2>1, FS_Subset, FS_CardinalityType
<1>4. Doubled(2) = 4
  <2> DEFINE d == [k \in 0..2 |-> IF k = 0 THEN 1 ELSE IF k = 1 THEN 2 ELSE 4]
             Good(f) == f = [k \in 0..2 |-> IF k = 0 THEN 1 ELSE 2 * f[k - 1]]
  <2>1. Good(d)
    <3>1. \A k \in 0..2 : d[k] = IF k = 0 THEN 1 ELSE 2 * d[k - 1]
      <4> TAKE k \in 0..2
      <4>1. k = 0 \/ k = 1 \/ k = 2
        OBVIOUS
      <4>2. d[0] = 1 /\ d[1] = 2 /\ d[2] = 4
        OBVIOUS
      <4>3. QED
        BY <4>1, <4>2
    <3>2. d = [k \in 0..2 |-> d[k]]
      OBVIOUS
    <3> HIDE DEF d
    <3>3. QED
      BY <3>1, <3>2
  <2>2. Good(CHOOSE f : Good(f))
    <3> HIDE DEF Good, d
    <3> QED
      BY <2>1
  <2>3. PICK f : Good(f) /\ f = CHOOSE h : Good(h)
    BY <2>2
  <2>4. f[0] = 1 /\ f[1] = 2 * f[1 - 1] /\ f[2] = 2 * f[2 - 1]
    BY <2>3
  <2>5. f[2] = 4
    BY <2>4
  <2>6. Doubled(2) = f[2]
    BY <2>3 DEF Doubled
  <2>7. QED
    BY <2>5, <2>6
<1> DEFINE whole == WDrama * Unit + WRarity * Unit + WBoost * Lit
<1>5. /\ WDrama \in Nat /\ WRarity \in Nat /\ WBoost \in Nat /\ Threshold \in Nat
      /\ Unit \in Nat /\ Lit \in Nat /\ whole < 4 * Threshold
  BY FeedAssumption
<1>6. /\ WDrama * drama <= WDrama * Unit /\ WBoost * boost <= WBoost * Lit
      /\ WDrama * drama \in Nat /\ WBoost * boost \in Nat /\ WRarity * Unit \in Nat
      /\ WDrama * Unit \in Nat /\ WBoost * Lit \in Nat
  <2>1. \A w, a, b \in Nat : a <= b => w * a <= w * b
    OBVIOUS
  <2>2. \A a, b \in Nat : a * b \in Nat
    OBVIOUS
  <2>3. boost \in Nat /\ boost <= Lit
    BY <1>5
  <2>4. QED
    BY <1>5, <2>1, <2>2, <2>3
<1> DEFINE a == WDrama * drama + WBoost * boost
           b == WRarity * Unit
<1>7. a \in Nat /\ b \in Nat /\ a + b < 4 * Threshold
  BY <1>5, <1>6
<1> HIDE DEF a, b, n, count
<1>8. a * n + b * (n - count) < 4 * Threshold * n
  <2>1. b * (n - count) <= b * n
    BY <1>2, <1>3, <1>7
  <2>2. (a + b) * n < (4 * Threshold) * n
    BY <1>2, <1>5, <1>7
  <2>3. (a + b) * n = a * n + b * n /\ a * n \in Nat /\ b * n \in Nat /\ b * (n - count) \in Int
    BY <1>2, <1>3, <1>7
  <2>4. QED
    BY <1>2, <1>5, <2>1, <2>2, <2>3
<1>9. Threshold * n * 4 = (4 * Threshold) * n
  BY <1>2, <1>5
<1>10. Worthy(drama, boost, key, seen, 2) <=> a * n + b * (n - count) >= Threshold * n * 4
  BY <1>4 DEF Worthy, a, b, n, count
<1>11. QED
  <2>1. a * n + b * (n - count) \in Int /\ Threshold * n * 4 \in Int
    BY <1>2, <1>3, <1>5, <1>7
  <2>2. QED
    BY <1>8, <1>9, <1>10, <2>1

\* What is remembered can be counted with.
MindOK(c) ==
  /\ DOMAIN c = Hands /\ IsSeq(c.rarity) /\ c.repeat = [p \in People |-> c.repeat[p]]
  /\ \A p \in People : c.repeat[p].tick \in Nat /\ c.repeat[p].streak \in 0..2

LEMMA ObservedSeq ==
  ASSUME NEW seen, IsSeq(seen), NEW key
  PROVE  IsSeq(Observed(seen, key))
<1>1. Grown(seen, Append(seen, key), key) /\ Len(seen) \in Nat
  BY Grows, SeqSize
<1>2. IsSeq(Append(seen, key)) /\ Append(seen, key) # <<>>
  <2>1. Len(Append(seen, key)) = Len(seen) + 1
    BY <1>1 DEF Grown
  <2>2. QED
    BY <1>1, <2>1 DEF Grown
<1>3. IsSeq(Tail(Append(seen, key)))
  BY <1>2, Shrinks
<1>4. QED
  BY <1>2, <1>3 DEF Observed

\* A deed is worth a post at most twice running.
LEMMA ActionRemembered ==
  ASSUME NEW c, MindOK(c), NEW i \in Of(Sources), log[i].type = "action", DeedOK(log[i])
  PROVE  LET e == log[i]
             v == Verdict(c, i)
         IN  /\ IsSeq(v[1].rarity)
             /\ \/ v[2] = <<>> /\ v[1].repeat = c.repeat
                \/ /\ \E p : v[2] = <<p>>
                   /\ v[1].repeat = [c.repeat EXCEPT ![e.who] = Promoted(c.repeat[e.who], e)]
                   /\ Streak(c.repeat[e.who], e) # 2
<1> DEFINE e == log[i]
           key == <<e.who, e.kind>>
           boost == IF e.tick >= c.lights[e.who] THEN 0 ELSE Lit
           streak == Streak(c.repeat[e.who], e)
           worthy == Worthy(DramaScore(e), boost, key, c.rarity, streak)
           post == PostOf(i, e.who, e.kind, DramaScore(e))
           rarity == Observed(c.rarity, key)
           v == Verdict(c, i)
<1>1. e.who \in People /\ e.kind \in DOMAIN BaseDrama /\ e.tick \in Nat
  BY DEF DeedOK
<1>2. v = ActionVerdict(c, i)
  BY DEF Verdict
<1>3. v[2] = IF worthy THEN <<post>> ELSE <<>>
  BY <1>2 DEF ActionVerdict, Perhaps
<1>4. v[1] = [c EXCEPT !.rarity = Observed(@, key),
                  !.repeat[e.who] = IF worthy THEN Promoted(@, e) ELSE @,
                  !.lights[e.who] = IF boost = 0 THEN 0 ELSE @]
  BY <1>2 DEF ActionVerdict
<1>5. DramaScore(e) \in Nat /\ DramaScore(e) <= Unit
  BY <1>1, FeedAssumption DEF DramaScore
<1>6. worthy => streak # 2
  <2>1. boost \in {0, Lit} /\ IsSeq(c.rarity)
    BY DEF MindOK
  <2> HIDE DEF boost, key, streak
  <2>2. QED
    BY <1>5, <2>1, TwiceSinks
<1> HIDE DEF worthy, post, boost, key, streak
<1>7. v[1].rarity = rarity
  BY <1>4 DEF MindOK, Hands, Fresh
<1>8. v[1].repeat = IF worthy THEN [c.repeat EXCEPT ![e.who] = Promoted(c.repeat[e.who], e)]
                    ELSE [c.repeat EXCEPT ![e.who] = c.repeat[e.who]]
  BY <1>4 DEF MindOK, Hands, Fresh
<1>9. IsSeq(rarity)
  BY ObservedSeq DEF MindOK
<1> HIDE DEF v, rarity
<1>10. CASE worthy
  BY <1>3, <1>6, <1>7, <1>8, <1>9, <1>10 DEF v, streak
<1>11. CASE ~worthy
  <2>1. c.repeat = [c.repeat EXCEPT ![e.who] = c.repeat[e.who]]
    <3>1. PICK f : f = c.repeat
      OBVIOUS
    <3>2. f = [p \in People |-> f[p]]
      BY <3>1 DEF MindOK
    <3>3. f = [f EXCEPT ![e.who] = f[e.who]]
      BY <3>2
    <3>4. QED
      BY <3>1, <3>3
  <2>2. v[1].repeat = c.repeat
    BY <1>8, <1>11, <2>1
  <2>3. QED
    BY <1>3, <1>7, <1>9, <1>11, <2>2 DEF v
<1>12. QED
  BY <1>10, <1>11

\* Whatever is judged, the memory stays one, and only deeds are remembered.
LEMMA OtherRemembered ==
  ASSUME NEW c, MindOK(c), NEW i \in Of(Sources), log[i].type # "action"
  PROVE  LET v == Verdict(c, i) IN IsSeq(v[1].rarity) /\ v[1].repeat = c.repeat
<1> DEFINE e == log[i]
           v == Verdict(c, i)
<1>1. IsSeq(c.rarity) /\ DOMAIN c = Hands
  BY DEF MindOK
<1>2. CASE e.type = "boost"
  <2>1. v[1] = [c EXCEPT !.lights[log[i].who] = log[i].until]
    BY <1>2 DEF Verdict
  <2>2. v[1].rarity = c.rarity /\ v[1].repeat = c.repeat
    BY <1>1, <2>1 DEF Hands, Fresh
  <2>3. QED
    BY <1>1, <2>2
<1>3. CASE e.type = "incident"
  <2> DEFINE rarity == Observed(c.rarity, <<Nothing, e.kind>>)
  <2>1. v[1] = [c EXCEPT !.rarity = rarity]
    BY <1>3 DEF Verdict, IncidentVerdict
  <2>2. IsSeq(rarity)
    BY <1>1, ObservedSeq
  <2> HIDE DEF rarity
  <2>3. v[1].rarity = rarity /\ v[1].repeat = c.repeat
    BY <1>1, <2>1 DEF Hands, Fresh
  <2>4. QED
    BY <2>2, <2>3
<1>4. CASE e.type \in {"arc", "goal", "debut"}
  <2>1. v[1] = c
    <3>1. CASE e.type = "arc"
      BY <3>1 DEF Verdict, ArcVerdict
    <3>2. CASE e.type = "goal"
      BY <3>2 DEF Verdict, GoalVerdict
    <3>3. CASE e.type = "debut"
      BY <3>3 DEF Verdict, DebutVerdict
    <3>4. QED
      BY <1>4, <3>1, <3>2, <3>3
  <2>2. QED
    BY <1>1, <2>1
<1>5. QED
  BY <1>2, <1>3, <1>4 DEF Of, Sources

LEMMA VerdictRemembered ==
  ASSUME NEW c, MindOK(c), NEW i \in Of(Sources), DeedOK(log[i])
  PROVE  LET e == log[i]
             v == Verdict(c, i)
         IN  /\ MindOK(v[1])
             /\ \/ v[2] = <<>> /\ v[1].repeat = c.repeat
                \/ /\ e.type # "action" /\ v[1].repeat = c.repeat
                   /\ \E p : v[2] = <<p>> /\ p.of # "action"
                \/ /\ e.type = "action" /\ e.who \in People
                   /\ \E p : v[2] = <<p>> /\ PostFor(p, i) /\ p.of = "action"
                   /\ v[1].repeat = [c.repeat EXCEPT ![e.who] = Promoted(c.repeat[e.who], e)]
                   /\ Streak(c.repeat[e.who], e) \in {0, 1}
<1> DEFINE e == log[i]
           v == Verdict(c, i)
           last == c.repeat[e.who]
<1>1. DOMAIN c = Hands /\ DOMAIN v[1] = Hands
      /\ (v[2] = <<>> \/ \E p : v[2] = <<p>> /\ PostFor(p, i))
  BY VerdictGiven DEF MindOK
<1>2. CASE e.type # "action"
  <2>1. IsSeq(v[1].rarity) /\ v[1].repeat = c.repeat
    BY <1>2, OtherRemembered
  <2>2. v[2] = <<>> \/ \E p : v[2] = <<p>> /\ p.of # "action"
    BY <1>1, <1>2 DEF PostFor
  <2> HIDE DEF v
  <2>3. MindOK(v[1])
    BY <1>1, <2>1 DEF MindOK
  <2>4. QED
    BY <1>2, <2>1, <2>2, <2>3 DEF v
<1>3. CASE e.type = "action"
  <2>1. /\ IsSeq(v[1].rarity)
        /\ \/ v[2] = <<>> /\ v[1].repeat = c.repeat
           \/ /\ \E p : v[2] = <<p>>
              /\ v[1].repeat = [c.repeat EXCEPT ![e.who] = Promoted(last, e)]
              /\ Streak(last, e) # 2
    BY <1>3, ActionRemembered
  <2>2. e.who \in People /\ e.tick \in Nat
    BY <1>3 DEF DeedOK
  <2>3. last.tick \in Nat /\ last.streak \in 0..2
    BY <2>2 DEF MindOK
  <2>4. Streak(last, e) \in {0, last.streak}
    BY DEF Streak
  <2> HIDE DEF v, last
  <2>5. CASE v[2] = <<>> /\ v[1].repeat = c.repeat
    <3>1. MindOK(v[1])
      BY <1>1, <2>1, <2>5 DEF MindOK
    <3>2. QED
      BY <2>5, <3>1 DEF v
  <2>6. CASE /\ \E p : v[2] = <<p>>
             /\ v[1].repeat = [c.repeat EXCEPT ![e.who] = Promoted(last, e)]
             /\ Streak(last, e) # 2
    <3>1. Streak(last, e) \in {0, 1}
      BY <2>3, <2>4, <2>6
    <3>2. Promoted(last, e).tick = e.tick /\ Promoted(last, e).streak \in 1..2
      BY <3>1 DEF Promoted
    <3> DEFINE q == Promoted(last, e)
               repeat == [c.repeat EXCEPT ![e.who] = q]
    <3> HIDE DEF q
    <3>3. repeat = [p \in People |-> repeat[p]]
      <4>1. c.repeat = [p \in People |-> c.repeat[p]]
        BY DEF MindOK
      <4>2. PICK f : f = c.repeat
        OBVIOUS
      <4>3. [f EXCEPT ![e.who] = q] = [p \in People |-> [f EXCEPT ![e.who] = q][p]]
        BY <4>1, <4>2
      <4>4. QED
        BY <4>2, <4>3
    <3>4. \A p \in People : repeat[p].tick \in Nat /\ repeat[p].streak \in 0..2
      <4>1. DOMAIN c.repeat = People
        BY DEF MindOK
      <4>2. q.tick \in Nat /\ q.streak \in 0..2
        BY <2>2, <3>2 DEF q
      <4>3. \A p \in People : repeat[p] = q \/ repeat[p] = c.repeat[p]
        BY <4>1
      <4> HIDE DEF repeat
      <4>4. QED
        BY <4>2, <4>3 DEF MindOK
    <3>5. v[1].repeat = repeat
      BY <2>6 DEF q
    <3> HIDE DEF repeat
    <3>6. MindOK(v[1])
      BY <1>1, <2>1, <3>3, <3>4, <3>5 DEF MindOK
    <3>7. \E p : v[2] = <<p>> /\ PostFor(p, i) /\ p.of = "action"
      <4>1. v[2] # <<>>
        BY <2>6
      <4>2. QED
        BY <1>1, <1>3, <4>1 DEF v, PostFor
    <3>8. QED
      BY <1>3, <2>2, <2>6, <3>1, <3>6, <3>7 DEF v, last
  <2>7. QED
    BY <2>1, <2>5, <2>6
<1>4. QED
  BY <1>2, <1>3

-----------------------------------------------------------------------------

\* The deeds of p that were posted, and the last of them.
Said(p) == {j \in Of({"post"}) : log[j].of = "action" /\ log[j].who = p}

Final(j, p) == j \in Said(p) /\ \A m \in Said(p) : m <= j

NoRunTo(j) == \A i \in Of({"post"}) : ~Run(i, j)

NoThree == \A j \in Of({"post"}) : NoRunTo(j) \/ \A m \in Of({"post"}) : ~Run(j, m)

\* b would go on with what a began.
RunsOn(a, b) == a.kind = b.kind /\ b.tick - a.tick < RepeatWindow

\* k has a deed of p to post.
Pending_(k, p) ==
  LET c == composers[k]
  IN  c.at \in Writing /\ c.post[1].of = "action" /\ c.post[1].who = p

\* k remembers the last deed of p that it posted, or will post, and how many
\* there were of it.
Recalled(k, p) ==
  LET r == composers[k].repeat[p]
      q == composers[k].post[1]
  IN  /\ Pending_(k, p) =>
           /\ r.kind = q.kind /\ r.tick = q.tick /\ r.streak \in {1, 2}
           /\ \A j : Final(j, p) =>
                /\ r.streak = 1 => ~RunsOn(log[j], q)
                /\ r.streak = 2 => NoRunTo(j)
      /\ ~Pending_(k, p) =>
           \A j : Final(j, p) =>
             /\ r.kind = log[j].kind /\ r.tick = log[j].tick /\ r.streak \in {1, 2}
             /\ r.streak = 1 => NoRunTo(j)

\* What k took up it has settled, or has in hand and has not posted.
InHand(k) ==
  LET c == composers[k]
  IN  /\ MindOK(c)
      /\ c.at # "idle" => tries[c.msg] > 0
      /\ \A i \in 1..MaxLog :
           /\ c.at \in Writing /\ c.msg = i => Posts(i) = {}
           /\ tries[i] > 0 => settled[i] # "open" \/ (c.at # "idle" /\ c.msg = i)
           /\ tries[i] = 0 => Posts(i) = {}

Alone(k) == InHand(k) /\ (\A p \in People : Recalled(k, p)) /\ NoThree

FloodOK == \A k : Scene.crew = {k} /\ faults = 0 => Alone(k)

\* No post is added.
NoPost ==
  /\ Of({"post"})' = Of({"post"})
  /\ \A j \in Of({"post"}) : log'[j] = log[j]

LEMMA PostsSame ==
  ASSUME IsSeq(log), log' = log \/ \E e : Grown(log, log', e) /\ e.type # "post"
  PROVE  NoPost
<1>1. CASE log' = log
  BY <1>1 DEF NoPost, Of, Ids
<1>2. ASSUME NEW e, Grown(log, log', e), e.type # "post" PROVE NoPost
  <2>1. /\ Len(log) \in Nat /\ Len(log') = Len(log) + 1 /\ log'[Len(log) + 1] = e
        /\ \A n \in 1..Len(log) : log'[n] = log[n]
    BY <1>2, SeqSize DEF Grown
  <2>2. QED
    BY <1>2, <2>1 DEF NoPost, Of, Ids
<1>3. QED
  BY <1>1, <1>2

LEMMA SaidSame ==
  ASSUME NoPost
  PROVE  /\ \A p : Said(p)' = Said(p)
         /\ \A j, p : (Final(j, p)' <=> Final(j, p)) /\ (Final(j, p) => j \in Of({"post"}))
         /\ \A i : Posts(i)' = Posts(i)
         /\ \A j \in Of({"post"}) : NoRunTo(j)' <=> NoRunTo(j)
         /\ NoThree => NoThree'
<1>1. \A p : Said(p)' = Said(p)
  BY DEF NoPost, Said
<1>2. \A j, p : (Final(j, p)' <=> Final(j, p)) /\ (Final(j, p) => j \in Of({"post"}))
  BY <1>1 DEF Final, Said
<1>3. \A i : Posts(i)' = Posts(i)
  BY DEF NoPost, Posts
<1>4. \A i, j \in Of({"post"}) : Run(i, j)' <=> Run(i, j)
  BY DEF NoPost, Run
<1>5. \A j \in Of({"post"}) : NoRunTo(j)' <=> NoRunTo(j)
  BY <1>4 DEF NoPost, NoRunTo
<1>6. NoThree => NoThree'
  BY <1>4, <1>5 DEF NoPost, NoThree
<1>7. QED
  BY <1>1, <1>2, <1>3, <1>5, <1>6

\* Where the composer does not move and nothing is posted, nothing changes.
LEMMA AloneStays ==
  ASSUME NEW k, Alone(k), NoPost, UNCHANGED feedVars
  PROVE  Alone(k)'
<1>1. composers' = composers /\ settled' = settled /\ tries' = tries
  BY DEF feedVars
<1>2. InHand(k)'
  BY <1>1, SaidSame DEF Alone, InHand, MindOK
<1>3. ASSUME NEW p \in People PROVE Recalled(k, p)'
  <2>1. Recalled(k, p)
    BY DEF Alone
  <2>2. Pending_(k, p)' <=> Pending_(k, p)
    BY <1>1 DEF Pending_
  <2>3. \A j \in Of({"post"}) : log'[j] = log[j]
    BY DEF NoPost
  <2>4. \A j : /\ Final(j, p)' <=> Final(j, p)
               /\ Final(j, p) => log'[j] = log[j] /\ (NoRunTo(j)' <=> NoRunTo(j))
    BY <2>3, SaidSame
  <2>5. \A j, q : Final(j, p) => (RunsOn(log[j], q)' <=> RunsOn(log[j], q))
    BY <2>4 DEF RunsOn
  <2>6. QED
    BY <1>1, <2>1, <2>2, <2>4, <2>5 DEF Recalled, RunsOn
<1>4. NoThree'
  BY SaidSame DEF Alone
<1>5. QED
  BY <1>2, <1>3, <1>4 DEF Alone

\* A composer between a verdict and its post.
LEMMA AloneTalks ==
  ASSUME LogOK, FeedOK, NEW k \in Composers, Alone(k),
         HearNarration(k) \/ \E c : AskNarration(k, c)
  PROVE  Alone(k)'
<1>1. UNCHANGED <<scene, log, settled, tries>> /\ composers[k].at \in Writing
  BY DEF HearNarration, AskNarration, logVars, Writing
<1> DEFINE c == composers[k]
<1>2. \E at \in {"append", "narrating"}, call \in {composers'[k].call} :
        composers' = [composers EXCEPT ![k] = [c EXCEPT !.at = at, !.call = call]]
  <2>1. HoldsOK(k) /\ DOMAIN composers = Composers
    BY DEF FeedOK
  <2>2. DOMAIN c = Hands
    BY <2>1 DEF HoldsOK
  <2>3. CASE HearNarration(k)
    <3> DEFINE d == [c EXCEPT !.at = "append", !.call = Nothing]
    <3>1. composers' = [composers EXCEPT ![k] = d]
      BY <2>1, <2>3 DEF HearNarration
    <3>2. d.call = Nothing
      BY <2>2 DEF Hands, Fresh
    <3>3. composers'[k].call = Nothing
      <4> HIDE DEF d
      <4> QED
        BY <2>1, <3>1, <3>2
    <3>4. QED
      BY <3>1, <3>3
  <2>4. ASSUME NEW call, AskNarration(k, call)
        PROVE  \E at \in {"append", "narrating"}, x \in {composers'[k].call} :
                 composers' = [composers EXCEPT ![k] = [c EXCEPT !.at = at, !.call = x]]
    <3> DEFINE d == [c EXCEPT !.at = "narrating", !.call = call]
    <3>1. composers' = [composers EXCEPT ![k] = d]
      BY <2>1, <2>4 DEF AskNarration
    <3>2. d.call = call
      BY <2>2 DEF Hands, Fresh
    <3>3. composers'[k].call = call
      <4> HIDE DEF d
      <4> QED
        BY <2>1, <3>1, <3>2
    <3>4. QED
      BY <3>1, <3>3
  <2>5. QED
    BY <2>3, <2>4
<1>3. PICK at \in {"append", "narrating"}, call \in {composers'[k].call} :
        composers' = [composers EXCEPT ![k] = [c EXCEPT !.at = at, !.call = call]]
  BY <1>2
<1> DEFINE d == [c EXCEPT !.at = at, !.call = call]
<1>4. /\ d.at = at /\ d.msg = c.msg /\ d.post = c.post /\ d.rarity = c.rarity
      /\ d.repeat = c.repeat /\ DOMAIN d = Hands
  BY DEF Alone, InHand, MindOK, Hands, Fresh
<1>5. composers'[k] = d
  BY <1>3 DEF FeedOK
<1> HIDE DEF d
<1>6. at \in Writing /\ at # "idle" /\ c.at # "idle"
  BY <1>1 DEF Writing
<1>7. NoPost
  BY <1>1, PostsSame DEF LogOK
<1>8. InHand(k)'
  <2>1. MindOK(c) => MindOK(d)
    BY <1>4 DEF MindOK
  <2>2. InHand(k)
    BY DEF Alone
  <2>3. MindOK(composers[k])'
    BY <1>5, <2>1, <2>2 DEF InHand, MindOK
  <2>4. QED
    BY <1>1, <1>4, <1>5, <1>6, <1>7, <2>2, <2>3, SaidSame DEF InHand
<1>9. ASSUME NEW p \in People PROVE Recalled(k, p)'
  <2>1. Recalled(k, p)
    BY DEF Alone
  <2>2. Pending_(k, p)' <=> Pending_(k, p)
    BY <1>1, <1>4, <1>5, <1>6 DEF Pending_
  <2>3. \A j : (Final(j, p)' <=> Final(j, p))
               /\ (Final(j, p) => (NoRunTo(j)' <=> NoRunTo(j)))
    BY <1>7, SaidSame
  <2>4. QED
    BY <1>1, <1>4, <1>5, <2>1, <2>2, <2>3 DEF Recalled, RunsOn
<1>10. NoThree'
  BY <1>7, SaidSame DEF Alone
<1>11. QED
  BY <1>8, <1>9, <1>10 DEF Alone

\* A source is settled when it has its post, or needs none.
LEMMA AloneAcks ==
  ASSUME LogOK, FeedOK, NEW k \in Composers, Alone(k), AckSource(k)
  PROVE  Alone(k)'
<1> DEFINE c == composers[k]
           d == Rest(c)
<1>1. /\ c.at = "ack" /\ UNCHANGED <<scene, log, tries>>
      /\ settled' = [settled EXCEPT ![c.msg] = Settle(k)]
      /\ composers' = [composers EXCEPT ![k] = d]
  BY DEF AckSource, logVars
<1>2. /\ d.at = "idle" /\ d.rarity = c.rarity /\ d.repeat = c.repeat /\ DOMAIN d = Hands
  BY DEF Alone, InHand, MindOK, Rest, Hands, Fresh
<1>3. composers'[k] = d
  BY <1>1 DEF FeedOK
<1> HIDE DEF d
<1>4. NoPost
  BY <1>1, PostsSame DEF LogOK
<1>5. Settle(k) # "open"
  BY DEF Settle
<1>6. InHand(k)'
  <2>1. InHand(k) /\ DOMAIN settled = 1..MaxLog
    BY DEF Alone, FeedOK
  <2>2. MindOK(d)
    BY <1>2, <2>1 DEF MindOK, InHand
  <2>3. MindOK(composers[k])'
    BY <1>3, <2>2 DEF MindOK
  <2>4. \A i \in 1..MaxLog : tries[i] > 0 => settled'[i] # "open"
    <3> HIDE DEF c
    <3>1. \A i \in 1..MaxLog : tries[i] > 0 => settled[i] # "open" \/ c.msg = i
      BY <2>1 DEF InHand, c
    <3>2. \A i \in 1..MaxLog : settled'[i] = IF i = c.msg THEN Settle(k) ELSE settled[i]
      BY <1>1, <2>1
    <3>3. QED
      BY <1>5, <3>1, <3>2
  <2>5. \A i \in 1..MaxLog : tries[i] = 0 => Posts(i)' = {}
    BY <1>4, <2>1, SaidSame DEF InHand
  <2>6. "idle" \notin Writing
    BY DEF Writing
  <2>7. QED
    BY <1>1, <1>2, <1>3, <2>3, <2>4, <2>5, <2>6 DEF InHand
<1>7. ASSUME NEW p \in People PROVE Recalled(k, p)'
  <2>1. Recalled(k, p)
    BY DEF Alone
  <2>2. ~Pending_(k, p)' /\ ~Pending_(k, p)
    BY <1>1, <1>2, <1>3 DEF Pending_, Writing
  <2>3. \A j : (Final(j, p)' <=> Final(j, p))
               /\ (Final(j, p) => (NoRunTo(j)' <=> NoRunTo(j)))
    BY <1>4, SaidSame
  <2>4. QED
    BY <1>1, <1>2, <1>3, <2>1, <2>2, <2>3 DEF Recalled
<1>8. NoThree'
  BY <1>4, SaidSame DEF Alone
<1>9. QED
  BY <1>6, <1>7, <1>8 DEF Alone

\* A deed that is promoted goes on with the last one at most once.
LEMMA DeedPromoted ==
  ASSUME NEW r, NEW e, NEW q, NEW last, Streak(r, e) \in {0, 1},
         r.tick \in Nat, e.tick \in Nat, q.kind = e.kind, q.tick = e.tick,
         r.kind = last.kind, r.tick = last.tick, r.streak \in {1, 2}
  PROVE  /\ Promoted(r, e).streak = 1 => ~RunsOn(last, q)
         /\ Promoted(r, e).streak = 2 => r.streak = 1
<1>1. Promoted(r, e).streak = Streak(r, e) + 1
  BY DEF Promoted
<1>2. RepeatWindow \in Nat
  BY FeedAssumption
<1>3. Streak(r, e) = 0 => r.kind # e.kind \/ e.tick - r.tick >= RepeatWindow
  BY DEF Streak
<1>4. Streak(r, e) = 1 => r.streak = 1
  BY DEF Streak
<1>5. Streak(r, e) = 0 => ~RunsOn(last, q)
  BY <1>2, <1>3 DEF RunsOn
<1>6. QED
  BY <1>1, <1>4, <1>5

\* A source nobody took up before is judged.
LEMMA AloneComposes ==
  ASSUME LogOK, FeedOK, faults \in Nat, faults' = 0, NEW k \in Composers, Alone(k), Compose(k)
  PROVE  Alone(k)'
<1> DEFINE c == composers[k]
<1>1. /\ UNCHANGED <<scene, log, settled>> /\ IsSeq(log) /\ Ids = 1..Len(log)
      /\ c.at = "idle"
  BY SeqSize DEF Compose, LogOK, Ids
<1>2. PICK i \in Of(Sources) :
        /\ Deliverable(i)
        /\ tries' = [tries EXCEPT ![i] = @ + 1]
        /\ LET v == Verdict(composers[k], i)
               post == v[2]
           IN  composers' = [composers EXCEPT ![k] =
                 [v[1] EXCEPT !.msg = i, !.post = post,
                    !.at = CASE post = <<>> -> "ack"
                             [] post # <<>> /\ Scene.narrate
                                  /\ post[1].drama >= NarrateThreshold -> "narrate"
                             [] OTHER -> "append"]]
  BY DEF Compose
<1> DEFINE e == log[i]
           mind == Verdict(c, i)[1]
           post == Verdict(c, i)[2]
           at == CASE post = <<>> -> "ack"
                   [] post # <<>> /\ Scene.narrate
                        /\ post[1].drama >= NarrateThreshold -> "narrate"
                   [] OTHER -> "append"
           d == [mind EXCEPT !.msg = i, !.post = post, !.at = at]
           r == c.repeat[e.who]
<1>3. composers' = [composers EXCEPT ![k] = d]
  BY <1>2
<1>4. MindOK(c) /\ InHand(k) /\ i \in Ids /\ i \in 1..MaxLog /\ settled[i] = "open"
  BY <1>1, <1>2, SeqSize, LogAssumption DEF Alone, InHand, Of, Ids, LogOK, Deliverable
<1>5. DeedOK(e)
  BY <1>4 DEF LogOK
<1>6. /\ MindOK(mind)
      /\ \/ post = <<>> /\ mind.repeat = c.repeat
         \/ /\ e.type # "action" /\ mind.repeat = c.repeat
            /\ \E p : post = <<p>> /\ p.of # "action"
         \/ /\ e.type = "action" /\ e.who \in People
            /\ \E p : post = <<p>> /\ PostFor(p, i) /\ p.of = "action"
            /\ mind.repeat = [c.repeat EXCEPT ![e.who] = Promoted(r, e)]
            /\ Streak(r, e) \in {0, 1}
  BY <1>4, <1>5, VerdictRemembered
<1> HIDE DEF mind, post, r
<1>7. at \in {"ack", "narrate", "append"} /\ (at = "ack" <=> post = <<>>)
  OBVIOUS
<1> HIDE DEF at
<1>8. DOMAIN d = Hands /\ d.msg = i /\ d.post = post /\ d.at = at
      /\ d.repeat = mind.repeat /\ d.rarity = mind.rarity
  BY <1>6 DEF MindOK, Hands, Fresh
<1> HIDE DEF d
<1>9. composers'[k] = d
  BY <1>3 DEF FeedOK
<1>10. NoPost
  BY <1>1, PostsSame
<1>11. tries[i] = 0
  <2>1. tries[i] \in Nat
    BY <1>4 DEF FeedOK
  <2>2. ~ (tries[i] > 0)
    BY <1>1, <1>4 DEF InHand
  <2>3. QED
    BY <2>1, <2>2
<1>12. InHand(k)'
  <2>1. MindOK(d)
    BY <1>6, <1>8 DEF MindOK
  <2>2. MindOK(composers[k])'
    BY <1>9, <2>1 DEF MindOK
  <2>3. \A j \in 1..MaxLog : tries'[j] = IF j = i THEN 1 ELSE tries[j]
    BY <1>2, <1>4, <1>11 DEF FeedOK
  <2>4. \A j \in 1..MaxLog : tries[j] = 0 => Posts(j)' = {}
    BY <1>4, <1>10, SaidSame DEF InHand
  <2>5. \A j \in 1..MaxLog : tries[j] > 0 => settled[j] # "open"
    BY <1>1, <1>4 DEF InHand
  <2>6. ASSUME NEW j \in 1..MaxLog
        PROVE  /\ d.at \in Writing /\ d.msg = j => Posts(j)' = {}
               /\ tries'[j] > 0 => settled'[j] # "open" \/ (d.at # "idle" /\ d.msg = j)
               /\ tries'[j] = 0 => Posts(j)' = {}
    BY <1>1, <1>7, <1>8, <1>11, <2>3, <2>4, <2>5
  <2>7. tries'[d.msg] > 0
    BY <1>4, <1>8, <2>3
  <2>8. QED
    BY <1>9, <2>2, <2>6, <2>7 DEF InHand
<1>13. ASSUME NEW p \in People PROVE Recalled(k, p)'
  <2>1. ~Pending_(k, p)
    BY <1>1 DEF Pending_, Writing
  <2>2. \A j : Final(j, p) =>
          /\ c.repeat[p].kind = log[j].kind /\ c.repeat[p].tick = log[j].tick
          /\ c.repeat[p].streak \in {1, 2}
          /\ c.repeat[p].streak = 1 => NoRunTo(j)
    BY <2>1 DEF Alone, Recalled
  <2>3. \A j : (Final(j, p)' <=> Final(j, p))
               /\ (Final(j, p) => (NoRunTo(j)' <=> NoRunTo(j)))
    BY <1>10, SaidSame
  <2>4. ASSUME mind.repeat[p] = c.repeat[p], ~Pending_(k, p)' PROVE Recalled(k, p)'
    BY <1>1, <1>8, <1>9, <2>2, <2>3, <2>4 DEF Recalled
  <2>5. CASE post = <<>> /\ mind.repeat = c.repeat
    <3>1. ~Pending_(k, p)'
      BY <1>7, <1>8, <1>9, <2>5 DEF Pending_, Writing
    <3>2. QED
      BY <2>4, <2>5, <3>1
  <2>6. CASE mind.repeat = c.repeat /\ \E q : post = <<q>> /\ q.of # "action"
    <3>1. ~Pending_(k, p)'
      BY <1>8, <1>9, <2>6 DEF Pending_
    <3>2. QED
      BY <2>4, <2>6, <3>1
  <2>7. CASE /\ e.type = "action" /\ e.who \in People
             /\ \E q : post = <<q>> /\ PostFor(q, i) /\ q.of = "action"
             /\ mind.repeat = [c.repeat EXCEPT ![e.who] = Promoted(r, e)]
             /\ Streak(r, e) \in {0, 1}
    <3>1. PICK q : post = <<q>> /\ PostFor(q, i) /\ q.of = "action"
      BY <2>7
    <3>2. q.who = e.who /\ q.kind = e.kind /\ q.tick = e.tick /\ post[1] = q
      BY <3>1 DEF PostFor
    <3>3. DOMAIN c.repeat = People
      BY <1>4 DEF MindOK
    <3>4. CASE p # e.who
      <4>1. ~Pending_(k, p)'
        BY <1>8, <1>9, <3>2, <3>4 DEF Pending_
      <4>2. mind.repeat[p] = c.repeat[p]
        BY <2>7, <3>3, <3>4
      <4>3. QED
        BY <2>4, <4>1, <4>2
    <3>5. CASE p = e.who
      <4>1. at \in Writing
        <5>1. post # <<>>
          BY <3>1
        <5>2. QED
          BY <1>7, <5>1 DEF Writing
      <4>2. Pending_(k, p)'
        BY <1>8, <1>9, <3>1, <3>2, <3>5, <4>1 DEF Pending_
      <4>3. mind.repeat[p] = Promoted(r, e) /\ r = c.repeat[p]
        BY <2>7, <3>3, <3>5 DEF r
      <4> DEFINE new == Promoted(r, e)
      <4>4. new.kind = e.kind /\ new.tick = e.tick /\ new.streak \in {1, 2}
        BY <2>7 DEF Promoted
      <4>5. r.tick \in Nat /\ e.tick \in Nat
        BY <1>4, <1>5, <2>7, <4>3 DEF MindOK, DeedOK
      <4>6. ASSUME NEW j, Final(j, p)
            PROVE  (new.streak = 1 => ~RunsOn(log[j], q)) /\ (new.streak = 2 => NoRunTo(j))
        <5>1. /\ r.kind = log[j].kind /\ r.tick = log[j].tick /\ r.streak \in {1, 2}
              /\ r.streak = 1 => NoRunTo(j)
          BY <2>2, <4>3, <4>6
        <5>2. /\ new.streak = 1 => ~RunsOn(log[j], q)
              /\ new.streak = 2 => r.streak = 1
          BY <2>7, <3>2, <4>5, <5>1, DeedPromoted
        <5>3. QED
          BY <5>1, <5>2
      <4> HIDE DEF new
      <4>7. /\ composers'[k].repeat[p] = new /\ composers'[k].post[1] = q
        BY <1>8, <1>9, <3>2, <4>3 DEF new
      <4>8. ASSUME NEW j, Final(j, p)'
            PROVE  (new.streak = 1 => ~RunsOn(log[j], q)') /\ (new.streak = 2 => NoRunTo(j)')
        BY <1>1, <2>3, <4>6, <4>8 DEF RunsOn
      <4>9. QED
        BY <1>1, <3>2, <4>2, <4>4, <4>7, <4>8 DEF Recalled, RunsOn
    <3>6. QED
      BY <3>4, <3>5
  <2>8. QED
    BY <1>6, <2>5, <2>6, <2>7
<1>14. NoThree'
  BY <1>10, SaidSame DEF Alone
<1>15. QED
  BY <1>12, <1>13, <1>14 DEF Alone

\* What the last post of an actor does to the runs.
LEMMA OnePost ==
  ASSUME LogOK, NEW q, q.type = "post", Grown(log, log', q), NEW n, n = Len(log) + 1
  PROVE  /\ Of({"post"})' = Of({"post"}) \cup {n} /\ n \notin Of({"post"}) /\ log'[n] = q
         /\ \A j \in Of({"post"}) : log'[j] = log[j] /\ j \in Nat /\ j < n
         /\ \A i, j \in Of({"post"}) : Run(i, j)' <=> Run(i, j)
         /\ \A i : ~Run(n, i)' \/ i \notin Of({"post"})'
         /\ \A j \in Of({"post"}) : NoRunTo(j)' <=> NoRunTo(j)
         /\ \A j \in Of({"post"}) : Run(j, n)' => Final(j, q.who) /\ q.of = "action"
                                                 /\ RunsOn(log[j], q)
<1> DEFINE P == Of({"post"})
<1>1. /\ Len(log) \in Nat /\ Len(log') = n /\ log'[n] = q
      /\ \A m \in 1..Len(log) : log'[m] = log[m]
  BY SeqSize DEF LogOK, Grown
<1>2. P' = P \cup {n} /\ n \notin P /\ \A j \in P : log'[j] = log[j] /\ j \in Nat /\ j < n
  BY <1>1 DEF Of, Ids
<1> HIDE DEF P
<1>3. \A i, j \in P : Run(i, j)' <=> Run(i, j)
  <2> TAKE i, j \in P
  <2>1. log'[i] = log[i] /\ log'[j] = log[j] /\ i \in Nat /\ j \in Nat /\ j < n /\ n \in Nat
    BY <1>1, <1>2
  <2>2. (\A m \in P' : i < m /\ m < j => log'[m].who # log'[i].who \/ log'[m].of # "action")
        <=> (\A m \in P : i < m /\ m < j => log[m].who # log[i].who \/ log[m].of # "action")
    BY <1>2, <2>1
  <2>3. QED
    BY <2>1, <2>2 DEF Run, P
<1>4. \A i : ~Run(n, i)' \/ i \notin P'
  <2>1. \A i \in P' : ~ (n < i)
    BY <1>1, <1>2
  <2>2. QED
    BY <2>1 DEF Run
<1>5. \A j \in P : NoRunTo(j)' <=> NoRunTo(j)
  <2> TAKE j \in P
  <2>1. ~Run(n, j)'
    BY <1>2, <1>4
  <2>2. NoRunTo(j) <=> \A i \in P : ~Run(i, j)
    BY DEF NoRunTo, P
  <2>3. NoRunTo(j)' <=> \A i \in P' : ~Run(i, j)'
    BY DEF NoRunTo, P
  <2>4. QED
    BY <1>2, <1>3, <2>1, <2>2, <2>3
<1>6. ASSUME NEW j \in P, Run(j, n)'
      PROVE  Final(j, q.who) /\ q.of = "action" /\ RunsOn(log[j], q)
  <2>1. log'[j] = log[j] /\ j \in Nat /\ log'[n] = q
    BY <1>1, <1>2
  <2>2. /\ log[j].of = "action" /\ q.of = "action" /\ log[j].who = q.who
        /\ log[j].kind = q.kind /\ q.tick - log[j].tick < RepeatWindow
        /\ \A m \in P' : j < m /\ m < n => log'[m].who # log[j].who \/ log'[m].of # "action"
    BY <1>6, <2>1 DEF Run, P
  <2>3. ASSUME NEW m \in Said(q.who) PROVE m <= j
    <3>1. m \in P /\ log[m].of = "action" /\ log[m].who = q.who
      BY <2>3 DEF Said, P
    <3>2. m \in P' /\ log'[m] = log[m] /\ m < n /\ m \in Nat
      BY <1>2, <3>1
    <3>3. QED
      BY <2>1, <2>2, <3>1, <3>2
  <2>4. j \in Said(q.who)
    BY <2>2 DEF Said, P
  <2>5. QED
    BY <2>2, <2>3, <2>4 DEF Final, RunsOn
<1>7. QED
  BY <1>1, <1>2, <1>3, <1>4, <1>5, <1>6 DEF P

LEMMA MindNow ==
  ASSUME NEW k, NEW x, MindOK(x), composers'[k] = x
  PROVE  MindOK(composers[k])'
BY DEF MindOK

\* The post is the last of its actor now, and not the third of a kind.
LEMMA AlonePosts ==
  ASSUME LogOK, FeedOK, NEW k \in Composers, Alone(k), composers[k].at = "append",
         NEW q, q = composers[k].post[1], q.type = "post", Grown(log, log', q),
         q.src = composers[k].msg, q.of = "action" => q.who \in People,
         composers' = [composers EXCEPT ![k].at = "ack"], UNCHANGED <<settled, tries>>
  PROVE  Alone(k)'
<1> DEFINE c == composers[k]
           d == [c EXCEPT !.at = "ack"]
           P == Of({"post"})
<1>0. PICK n : n = Len(log) + 1
  OBVIOUS
<1>1. /\ P' = P \cup {n} /\ n \notin P /\ log'[n] = q
      /\ \A j \in P : log'[j] = log[j] /\ j \in Nat /\ j < n
      /\ \A i, j \in P : Run(i, j)' <=> Run(i, j)
      /\ \A i : ~Run(n, i)' \/ i \notin P'
      /\ \A j \in P : NoRunTo(j)' <=> NoRunTo(j)
      /\ \A j \in P : Run(j, n)' => Final(j, q.who) /\ q.of = "action" /\ RunsOn(log[j], q)
  BY <1>0, OnePost
<1>2. n \in Nat
  BY <1>0, SeqSize DEF LogOK
<1>3. /\ d.at = "ack" /\ d.msg = c.msg /\ d.rarity = c.rarity /\ d.repeat = c.repeat
      /\ DOMAIN d = Hands
  BY DEF Alone, InHand, MindOK, Hands, Fresh
<1>4. composers'[k] = d
  BY DEF FeedOK
<1> HIDE DEF d, P
<1>5. InHand(k) /\ "append" \in Writing /\ "ack" \notin Writing /\ "append" # "idle"
  BY DEF Alone, Writing
<1>6. InHand(k)'
  <2>1. MindOK(d)
    BY <1>3, <1>5 DEF MindOK, InHand
  <2>2. MindOK(composers[k])'
    <3>1. PICK x : x = d
      OBVIOUS
    <3>2. MindOK(x) /\ composers'[k] = x
      BY <1>4, <2>1, <3>1
    <3>3. QED
      BY <3>2, MindNow
  <2>3. tries[c.msg] > 0
    BY <1>5 DEF InHand
  <2>4. \A i : i # c.msg => Posts(i)' = Posts(i)
    BY <1>1 DEF Posts, P
  <2>5. \A i \in 1..MaxLog : tries[i] = 0 => Posts(i)' = {}
    BY <1>5, <2>3, <2>4 DEF InHand
  <2>6. QED
    BY <1>3, <1>4, <1>5, <2>2, <2>3, <2>5 DEF InHand
<1>7. /\ \A p : q.of # "action" \/ q.who # p => Said(p)' = Said(p)
      /\ q.of = "action" => Said(q.who)' = Said(q.who) \cup {n}
      /\ \A p : Said(p) \subseteq P
  BY <1>1 DEF Said, P
<1>8. ASSUME NEW p \in People PROVE Recalled(k, p)'
  <2>1. ~Pending_(k, p)'
    BY <1>3, <1>4, <1>5 DEF Pending_
  <2>2. Recalled(k, p)
    BY DEF Alone
  <2> SUFFICES ASSUME NEW j, Final(j, p)'
               PROVE  /\ c.repeat[p].kind = log'[j].kind /\ c.repeat[p].tick = log'[j].tick
                      /\ c.repeat[p].streak \in {1, 2}
                      /\ c.repeat[p].streak = 1 => NoRunTo(j)'
    BY <1>3, <1>4, <2>1 DEF Recalled
  <2>3. CASE q.of = "action" /\ q.who = p
    <3>1. Pending_(k, p)
      BY <1>5, <2>3 DEF Pending_
    <3>2. /\ c.repeat[p].kind = q.kind /\ c.repeat[p].tick = q.tick
          /\ c.repeat[p].streak \in {1, 2}
          /\ \A i : Final(i, p) => (c.repeat[p].streak = 1 => ~RunsOn(log[i], q))
      BY <2>2, <3>1 DEF Recalled
    <3>3. j = n
      <4>1. j \in Said(p) \cup {n} /\ n <= j
        BY <1>7, <2>3 DEF Final
      <4>2. j \in P => j < n /\ j \in Nat
        BY <1>1
      <4>3. QED
        BY <1>2, <1>7, <4>1, <4>2
    <3>4. log'[j] = q
      BY <1>1, <3>3
    <3>5. ASSUME c.repeat[p].streak = 1 PROVE NoRunTo(j)'
      <4>1. ASSUME NEW i \in P PROVE ~Run(i, n)'
        BY <1>1, <2>3, <3>2, <3>5, <4>1
      <4>2. \A i \in P' : ~Run(i, n)'
        BY <1>1, <4>1
      <4>3. QED
        BY <3>3, <4>2 DEF NoRunTo, P
    <3>6. QED
      BY <3>2, <3>4, <3>5
  <2>4. CASE q.of # "action" \/ q.who # p
    <3>1. ~Pending_(k, p)
      BY <2>4 DEF Pending_
    <3>2. Final(j, p) /\ j \in P
      BY <1>7, <2>4 DEF Final
    <3>3. log'[j] = log[j] /\ (NoRunTo(j)' <=> NoRunTo(j))
      BY <1>1, <3>2
    <3>4. QED
      BY <2>2, <3>1, <3>2, <3>3 DEF Recalled
  <2>5. QED
    BY <2>3, <2>4
<1>9. NoThree'
  <2>1. ASSUME NEW j \in P, ~NoRunTo(j) PROVE \A m \in P' : ~Run(j, m)'
    <3>1. \A m \in P : ~Run(j, m)
      BY <2>1 DEF Alone, NoThree, P
    <3>2. ~Run(j, n)'
      <4> SUFFICES ASSUME Run(j, n)' PROVE FALSE
        OBVIOUS
      <4>1. Final(j, q.who) /\ q.of = "action" /\ RunsOn(log[j], q)
        BY <1>1
      <4> DEFINE p == q.who
      <4>2. p \in People /\ Pending_(k, p)
        BY <1>5, <4>1 DEF Pending_
      <4>3. /\ c.repeat[p].streak \in {1, 2}
            /\ c.repeat[p].streak = 1 => ~RunsOn(log[j], q)
            /\ c.repeat[p].streak = 2 => NoRunTo(j)
        BY <4>1, <4>2 DEF Alone, Recalled
      <4>4. QED
        BY <2>1, <4>1, <4>3
    <3>3. QED
      BY <1>1, <3>1, <3>2
  <2>2. \A j \in P' : NoRunTo(j)' \/ \A m \in P' : ~Run(j, m)'
    BY <1>1, <2>1
  <2>3. QED
    BY <2>2 DEF NoThree, P
<1>10. QED
  BY <1>6, <1>8, <1>9 DEF Alone

LEMMA AloneAppends ==
  ASSUME LogOK, FeedOK, NEW k \in Composers, k \in Scene.crew, Alone(k), AppendPost(k)
  PROVE  Alone(k)'
<1> DEFINE c == composers[k]
<1>1. /\ c.at = "append" /\ UNCHANGED <<settled, tries>>
      /\ composers' = [composers EXCEPT ![k].at = "ack"]
  BY DEF AppendPost
<1>2. PICK i : i = c.msg
  OBVIOUS
<1>3. PICK q : q = c.post[1]
  OBVIOUS
<1>4. i \in Of(Sources) /\ i \in Ids /\ i \in 1..MaxLog /\ PostFor(q, i) /\ Posts(i) = {}
  <2>1. HoldsOK(k) /\ InHand(k) /\ Ids \subseteq 1..MaxLog
    BY SeqSize, LogAssumption DEF FeedOK, Alone, Ids, LogOK
  <2>2. i \in Of(Sources) /\ i \in Ids /\ PostFor(q, i)
    BY <1>1, <1>2, <1>3, <2>1 DEF HoldsOK, Writing, Of
  <2>3. QED
    BY <1>1, <1>2, <2>1, <2>2 DEF InHand, Writing
<1>5. Grown(log, log', q)
  BY <1>2, <1>3, <1>4, AppendKeeps
<1>6. q.type = "post" /\ q.src = c.msg /\ (q.of = "action" => q.who \in People)
  <2>1. DeedOK(log[i])
    BY <1>4 DEF LogOK
  <2>2. QED
    BY <1>2, <1>4, <2>1 DEF PostFor, DeedOK
<1>7. QED
  BY <1>1, <1>3, <1>5, <1>6, AlonePosts

\* A composer of a scene is one of the composers.
LEMMA CrewMember ==
  ASSUME LogOK, NEW k, Scene.crew = {k}
  PROVE  k \in Composers
BY FeedAssumption DEF LogOK, Scene

LEMMA FloodStarts ==
  ASSUME Init
  PROVE  FloodOK
<1> SUFFICES ASSUME NEW k, Scene.crew = {k} PROVE Alone(k)
  BY DEF FloodOK
<1>1. /\ composers = [j \in Composers |-> Fresh] /\ tries = [i \in 1..MaxLog |-> 0]
      /\ Ids = {} /\ Of({"post"}) = {}
  BY DEF Init, FeedInit, LogInit, Ids, Of
<1>2. composers[k] = Fresh
  BY <1>1, LogStarts, CrewMember
<1>3. MindOK(Fresh) /\ Fresh.at = "idle"
  <2>1. DOMAIN Fresh = Hands /\ Fresh.rarity = <<>> /\ Fresh.repeat = [p \in People |-> Unposted]
        /\ Fresh.at = "idle"
    BY DEF Hands, Fresh
  <2>2. Unposted.tick = 0 /\ Unposted.streak = 0
    BY DEF Unposted
  <2>3. IsSeq(<<>>)
    BY DEF IsSeq
  <2>4. QED
    BY <2>1, <2>2, <2>3 DEF MindOK
<1>4. InHand(k)
  BY <1>1, <1>2, <1>3 DEF InHand, Writing, Posts
<1>5. ASSUME NEW p \in People PROVE Recalled(k, p)
  <2>1. ~Pending_(k, p)
    BY <1>2, <1>3 DEF Pending_, Writing
  <2>2. \A j : ~Final(j, p)
    BY <1>1 DEF Final, Said
  <2>3. QED
    BY <2>1, <2>2 DEF Recalled
<1>6. NoThree
  BY <1>1 DEF NoThree
<1>7. QED
  BY <1>4, <1>5, <1>6 DEF Alone

LEMMA FloodKeeps ==
  ASSUME AllOK, FloodOK, [Next]_vars
  PROVE  FloodOK'
<1>0. /\ LogOK /\ FeedOK /\ IsSeq(log) /\ faults \in Nat /\ FeedInv
      /\ faults' \in Nat /\ (faults' = 0 => faults = 0) /\ Scene' = Scene
  BY FaultsGrow, SceneKept DEF AllOK, FeedInv, LogOK, SessionsOK, Scene
<1> SUFFICES ASSUME NEW k, Scene.crew = {k}, faults' = 0 PROVE Alone(k)'
  BY <1>0 DEF FloodOK
<1>1. Alone(k) /\ k \in Composers /\ faults = 0
  BY <1>0, CrewMember DEF FloodOK
<1>2. CASE World \/ Directing \/ ActorAsks \/ Thinking \/ Projecting \/ UNCHANGED vars
  <2>1. /\ UNCHANGED feedVars
        /\ \/ log' = log
           \/ \E e : Grown(log, log', e) /\ (e.type = "post" => Scene.crew = {})
    BY <1>0, <1>2, OthersKeep
  <2>2. log' = log \/ \E e : Grown(log, log', e) /\ e.type # "post"
    BY <2>1
  <2>3. NoPost
    BY <1>0, <2>2, PostsSame
  <2>4. QED
    BY <1>1, <2>1, <2>3, AloneStays
<1>3. CASE Playing
  <2>1. /\ UNCHANGED feedVars
        /\ log' = log \/ \E e : Grown(log, log', e) /\ e.type = "player"
    BY <1>3, PlayingKeeps
  <2>2. log' = log \/ \E e : Grown(log, log', e) /\ e.type # "post"
    BY <2>1
  <2>3. NoPost
    BY <1>0, <2>2, PostsSame
  <2>4. QED
    BY <1>1, <2>1, <2>3, AloneStays
<1>4. CASE Composing
  <2>1. ComposerStep(k)
    BY <1>0, <1>4, ComposingSteps
  <2>2. ASSUME Fault PROVE FALSE
    BY <1>0, <2>2 DEF Fault
  <2>3. ~ComposeFails(k) /\ ~Poison(k) /\ ~ComposerCrash(k)
    BY <2>2 DEF ComposeFails, Poison, ComposerCrash
  <2>4. CASE Compose(k)
    BY <1>0, <1>1, <2>4, AloneComposes
  <2>5. CASE AppendPost(k)
    BY <1>0, <1>1, <2>5, AloneAppends
  <2>6. CASE AckSource(k)
    BY <1>0, <1>1, <2>6, AloneAcks
  <2>7. CASE HearNarration(k) \/ \E c : AskNarration(k, c)
    BY <1>0, <1>1, <2>7, AloneTalks
  <2>8. QED
    BY <2>1, <2>3, <2>4, <2>5, <2>6, <2>7 DEF ComposerStep
<1>5. QED
  BY <1>2, <1>3, <1>4 DEF Next

LEMMA NobodyFloods ==
  ASSUME LogOK, FloodOK
  PROVE  NoFlood
<1> SUFFICES ASSUME Cardinality(Scene.crew) = 1, faults = 0,
                    NEW i \in Of({"post"}), NEW j \in Of({"post"}), NEW m \in Of({"post"}),
                    Run(i, j), Run(j, m)
             PROVE  FALSE
  BY DEF NoFlood
<1>1. IsFiniteSet(Composers) /\ Scene.crew \subseteq Composers
  BY FeedAssumption DEF LogOK, Scene
<1>2. IsFiniteSet(Scene.crew)
  BY <1>1, FS_Subset
<1>3. PICK k : Scene.crew = {k}
  BY <1>2, FS_Singleton
<1>4. NoThree
  BY <1>3 DEF FloodOK, Alone
<1>5. QED
  BY <1>4 DEF NoThree, NoRunTo

-----------------------------------------------------------------------------

\* PublicInv, of every behaviour: what is published is published once, what must
\* be published is, in the order of its chapters and without a flood, and whoever
\* reads or writes through the gateway loses nothing of it (composer.py,
\* scoring.py, feed_stream.py, session.py).
THEOREM PublicIsKept == Spec => []PublicInv
<1>1. Init => AllOK /\ FloodOK
  BY AllStart, FloodStarts
<1>2. AllOK /\ FloodOK /\ [Next]_vars => (AllOK /\ FloodOK)'
  BY AllKeep, FloodKeeps
<1>3. AllOK /\ FloodOK => PublicInv
  BY AllTells, NobodyFloods DEF PublicInv, AllOK, FeedInv
<1>4. QED
  BY <1>1, <1>2, <1>3, PTL DEF Spec

-----------------------------------------------------------------------------
(* The stage: what the director has put on it, what it remembers of that and *)
(* what its audits say.                                                      *)

OneIf(owed) == IF owed THEN 1 ELSE 0

\* A set of places, and perhaps the next one.
LEMMA OneMoreCounted ==
  ASSUME NEW n \in Nat, NEW S, S \subseteq 1..n, NEW owed \in BOOLEAN,
         NEW T, T = S \cup (IF owed THEN {n + 1} ELSE {})
  PROVE  /\ IsFiniteSet(S) /\ Cardinality(S) \in Nat /\ Cardinality(S) <= n
         /\ IsFiniteSet(T) /\ Cardinality(T) = Cardinality(S) + OneIf(owed)
<1>1. IsFiniteSet(1..n) /\ Cardinality(1..n) = n
  BY FS_Interval
<1>2. IsFiniteSet(S) /\ Cardinality(S) <= n /\ Cardinality(S) \in Nat
  BY <1>1, FS_Subset, FS_CardinalityType
<1>3. CASE owed
  <2>1. T = S \cup {n + 1} /\ n + 1 \notin S
    BY <1>3
  <2>2. IsFiniteSet(T) /\ Cardinality(T) = Cardinality(S) + 1
    BY <1>2, <2>1, FS_AddElement
  <2>3. QED
    BY <1>2, <1>3, <2>2 DEF OneIf
<1>4. CASE ~owed
  <2>1. T = S
    BY <1>4
  <2>2. QED
    BY <1>2, <1>4, <2>1 DEF OneIf
<1>5. QED
  BY <1>3, <1>4

LEMMA PlacesFinite ==
  ASSUME NEW n \in Nat, NEW S, S \subseteq 1..n
  PROVE  IsFiniteSet(S) /\ Cardinality(S) \in Nat
<1>1. FALSE \in BOOLEAN /\ S = S \cup (IF FALSE THEN {n + 1} ELSE {})
  OBVIOUS
<1>2. QED
  BY <1>1, OneMoreCounted

\* Moved to smaller places, a set is as large as before.
LEMMA ShiftedCounts ==
  ASSUME NEW k \in Nat, NEW n \in Nat, NEW S, S \subseteq Nat,
         NEW T, T \subseteq 1..n, \A m \in S : m >= k /\ m - k \in T
  PROVE  IsFiniteSet(S) /\ Cardinality(S) <= Cardinality(T)
<1> DEFINE f == [m \in S |-> m - k]
<1>1. f \in [S -> T]
  OBVIOUS
<1>2. \A a, b \in S : f[a] = f[b] => a = b
  OBVIOUS
<1> HIDE DEF f
<1>3. f \in Injection(S, T)
  BY <1>1, <1>2, Fun_IsInj
<1>4. IsFiniteSet(T)
  BY PlacesFinite
<1>5. QED
  BY <1>3, <1>4, FS_Injection

\* The places of a memory that are later than a tick.
Since(recent, t) == {n \in DOMAIN recent : recent[n] > t}

IsTimes(s) == IsSeq(s) /\ \A n \in DOMAIN s : s[n] \in Int

LEMMA SinceSize ==
  ASSUME NEW s, IsTimes(s), NEW t
  PROVE  /\ IsFiniteSet(Since(s, t)) /\ Cardinality(Since(s, t)) \in Nat
         /\ Cardinality(Since(s, t)) <= Len(s)
<1>1. Len(s) \in Nat /\ Since(s, t) \subseteq 1..Len(s)
  BY SeqSize DEF IsTimes, Since
<1>2. FALSE \in BOOLEAN /\ Since(s, t) = Since(s, t) \cup (IF FALSE THEN {Len(s) + 1} ELSE {})
  OBVIOUS
<1>3. QED
  BY <1>1, <1>2, OneMoreCounted

\* One more is remembered.
LEMMA SinceGrows ==
  ASSUME NEW s, IsTimes(s), NEW e \in Int
  PROVE  /\ IsTimes(Append(s, e)) /\ Len(Append(s, e)) = Len(s) + 1
         /\ \A t \in Int : Cardinality(Since(Append(s, e), t))
                             = Cardinality(Since(s, t)) + OneIf(e > t)
<1>1. Len(s) \in Nat /\ DOMAIN s = 1..Len(s) /\ Grown(s, Append(s, e), e)
  BY SeqSize, Grows DEF IsTimes
<1> DEFINE u == Append(s, e)
<1> HIDE DEF u
<1>2. /\ IsSeq(u) /\ Len(u) = Len(s) + 1 /\ u[Len(s) + 1] = e
      /\ \A n \in 1..Len(s) : u[n] = s[n]
  BY <1>1 DEF Grown, u
<1>3. DOMAIN u = 1..(Len(s) + 1)
  BY <1>2, SeqSize
<1>4. IsTimes(u)
  BY <1>1, <1>2, <1>3 DEF IsTimes
<1>5. ASSUME NEW t \in Int PROVE Cardinality(Since(u, t)) = Cardinality(Since(s, t)) + OneIf(e > t)
  <2> DEFINE later == e > t
  <2>1. Since(s, t) \subseteq 1..Len(s) /\ later \in BOOLEAN
    BY <1>1 DEF Since
  <2>2. Since(u, t) = Since(s, t) \cup (IF later THEN {Len(s) + 1} ELSE {})
    BY <1>1, <1>2, <1>3 DEF Since
  <2> HIDE DEF later
  <2>3. Cardinality(Since(u, t)) = Cardinality(Since(s, t)) + OneIf(later)
    BY <1>1, <2>1, <2>2, OneMoreCounted
  <2>4. QED
    BY <2>3 DEF later
<1>6. QED
  BY <1>2, <1>4, <1>5 DEF u

\* What leaves the window is forgotten, and nothing else.
LEMMA SpentKeeps ==
  ASSUME NEW r, IsTimes(r), NEW T \in Int
  PROVE  /\ IsTimes(Spent(r, T))
         /\ \A t \in Int : t >= T - BudgetWindow =>
              Cardinality(Since(r, t)) <= Cardinality(Since(Spent(r, T), t))
<1> DEFINE live == {n \in DOMAIN r : r[n] > T - BudgetWindow}
           s == Spent(r, T)
           k == Earliest(live)
           Goal == /\ IsTimes(s)
                   /\ \A t \in Int : t >= T - BudgetWindow =>
                        Cardinality(Since(r, t)) <= Cardinality(Since(s, t))
<1>1. Len(r) \in Nat /\ DOMAIN r = 1..Len(r) /\ BudgetWindow \in Nat
  BY SeqSize, RulesAssumption DEF IsTimes
<1>2. ASSUME NEW t \in Int, t >= T - BudgetWindow PROVE Since(r, t) \subseteq live
  BY <1>1, <1>2 DEF Since, IsTimes
<1>3. s = IF live = {} THEN <<>> ELSE SubSeq(r, k, Len(r))
  BY DEF Spent
<1>4. live \subseteq 1..Len(r)
  BY <1>1
<1>5. live # {} => k \in live /\ \A n \in live : k <= n
  <2>1. live \subseteq Nat
    BY <1>1, <1>4
  <2> HIDE DEF live
  <2>2. QED
    BY <2>1, Earlier
<1> HIDE DEF live, s, k
<1>6. CASE live = {}
  <2>1. s = <<>>
    BY <1>3, <1>6
  <2>2. IsTimes(s)
    BY <2>1 DEF IsTimes, IsSeq
  <2>3. ASSUME NEW t \in Int, t >= T - BudgetWindow
        PROVE  Cardinality(Since(r, t)) <= Cardinality(Since(s, t))
    <3>1. Since(r, t) = {} /\ Cardinality({}) = 0
      BY <1>2, <1>6, <2>3, FS_EmptySet
    <3>2. Cardinality(Since(s, t)) \in Nat
      BY <2>2, SinceSize
    <3>3. QED
      BY <3>1, <3>2
  <2>4. QED
    BY <2>2, <2>3 DEF s
<1>7. CASE live # {}
  <2> DEFINE n == Len(r) - k + 1
             R == {r[m] : m \in DOMAIN r}
  <2>0. k \in 1..Len(r) /\ \A m \in live : k <= m
    BY <1>4, <1>5, <1>7
  <2>1. n \in Nat /\ Len(s) = n /\ DOMAIN s = 1..n /\ IsSeq(s)
        /\ \A i \in 1..n : s[i] = r[i + k - 1]
    <3>1. r \in Seq(R) /\ R = R
      BY DEF IsTimes, IsSeq
    <3>2. s = SubSeq(r, k, Len(r))
      BY <1>3, <1>7
    <3> HIDE DEF R
    <3>3. s \in Seq(R) /\ Len(s) = n /\ \A i \in 1..n : s[i] = r[i + k - 1]
      BY <1>1, <2>0, <3>1, <3>2
    <3>4. IsSeq(s)
      BY <3>3, IsSeqOf
    <3>5. QED
      BY <1>1, <2>0, <3>3, <3>4, SeqSize
  <2>2. IsTimes(s)
    BY <1>1, <2>0, <2>1 DEF IsTimes
  <2>3. ASSUME NEW t \in Int, t >= T - BudgetWindow
        PROVE  Cardinality(Since(r, t)) <= Cardinality(Since(s, t))
    <3>1. Since(r, t) \subseteq live /\ Since(r, t) \subseteq Nat /\ Since(s, t) \subseteq 1..n
      BY <1>1, <1>2, <2>1, <2>3 DEF Since
    <3>2. k - 1 \in Nat
      BY <1>1, <2>0
    <3>3. ASSUME NEW m \in Since(r, t) PROVE m >= k - 1 /\ m - (k - 1) \in Since(s, t)
      <4>1. m \in 1..Len(r) /\ k <= m /\ r[m] > t
        BY <1>1, <2>0, <3>1 DEF Since
      <4>2. m - (k - 1) \in 1..n /\ (m - (k - 1)) + k - 1 = m
        BY <1>1, <2>0, <4>1
      <4>3. s[m - (k - 1)] = r[m]
        BY <2>1, <4>2
      <4>4. QED
        BY <1>1, <2>0, <2>1, <4>1, <4>2, <4>3 DEF Since
    <3> HIDE DEF n
    <3>4. QED
      BY <2>1, <3>1, <3>2, <3>3, ShiftedCounts
  <2>4. QED
    BY <2>2, <2>3 DEF s
<1>8. QED
  BY <1>6, <1>7 DEF s

Talking == {"asked", "audit", "output"}

\* Interventions on stage, and in the audits, of after a tick.
FiredSince(t) == {n \in DOMAIN fired : fired[n].tick > t}

AuditedSince(t) == {i \in Of({"audit"}) : log[i].tool \notin Plans /\ log[i].tick > t}

\* Audits of a tick and what they announce.
AuditsAt(t) == {j \in Of({"audit"}) : log[j].tick = t}

OutputsAt(t) == {j \in Of(Outputs) : log[j].tick = t}

DayOf(t) == t \div DayTicks

\* What a director remembers is of its kind.
MindIs(d) ==
  /\ DOMAIN d = Memory /\ IsTimes(d.recent)
  /\ d.tick \in Nat /\ d.most \in Int /\ d.day \in Int /\ d.total \in Nat

\* It plans, a season first.
Planner(d) == d.at \in {"season", "arcs"} \/ (d.at \in Talking /\ d.aim \in Plans)

Seasoner(d) == d.at = "season" \/ (d.at \in Talking /\ d.aim = "season")

Player(d) == d.at \in Talking /\ d.aim = "drama"

\* What is about to be put on stage is of now, and what is audited and what is
\* announced are of one kind.
Acts(d) ==
  d.at \in Talking =>
    /\ d.aim \in Plans \cup {"drama"}
    /\ d.at # "asked" =>
         /\ d.act.event.tick = d.tick
         /\ d.aim \in Plans => d.act.tool = d.aim /\ d.act.event.type = d.aim
         /\ d.aim = "season" => d.act.event.most \in Int
         /\ d.aim = "drama" => d.act.tool \notin Plans /\ d.act.event.type \in Dramas

TypesOK ==
  /\ MindIs(dir) /\ Acts(dir)
  /\ acked \in [{"observe", "gravity", "system"} -> Nat]
  /\ IsSeq(fired) /\ \A n \in DOMAIN fired : fired[n].tick \in Nat /\ fired[n].most \in Int
  /\ \A i \in Of({"audit", "ticked"} \cup Outputs) : log[i].tick \in Nat
  /\ \A i \in Of({"season"}) : log[i].most \in Int

\* Ticks come in their order, and what is handled is the last that came.
TicksOK ==
  /\ \A i, j \in Of({"ticked"}) : i <= j => log[i].tick <= log[j].tick
  /\ \A j \in Of({"ticked"}) : j > acked.system => log[j].tick >= dir.tick
  /\ dir.at # "idle" => dir.msg \in Of({"ticked"}) /\ log[dir.msg].tick = dir.tick
  /\ \A n \in 1..Len(script) :
       /\ script[n].type \notin Outputs \cup {"audit"}
       /\ script[n].type = "ticked" =>
            /\ script[n].tick \in Nat /\ dir.tick <= script[n].tick
            /\ \A i \in Of({"ticked"}) : log[i].tick <= script[n].tick
            /\ \A m \in 1..(n - 1) : script[m].type = "ticked" => script[m].tick <= script[n].tick

\* What was put on stage is remembered as long as it counts, has an audit of its
\* own, and there is room for one more when one more is about to come.
BudgetOK ==
  /\ \A t \in Int : t >= dir.tick - BudgetWindow =>
       Cardinality(FiredSince(t)) <= Cardinality(Since(dir.recent, t))
  /\ \A t \in Int :
       Cardinality(FiredSince(t)) + OneIf(dir.at = "output" /\ dir.aim = "drama" /\ dir.tick > t)
         <= Cardinality(AuditedSince(t))
  /\ Player(dir) => Len(dir.recent) < dir.most
  /\ BudgetKept

\* What is planned has an audit of its day, and none is later than the day that
\* was turned last; that day's plans are still to come while it plans.
PlansOK ==
  /\ \A i \in Of({"audit"}) : log[i].tool \in Plans => DayOf(log[i].tick) <= dir.day
  /\ \A i \in Of(Plans) :
       \E j \in Of({"audit"}) : log[j].tool \in Plans /\ DayOf(log[j].tick) = DayOf(log[i].tick)
  /\ Planner(dir) => DayOf(dir.tick) = dir.day
  /\ Planner(dir) /\ dir.at = "output" =>
       \E j \in Of({"audit"}) : log[j].tool \in Plans /\ DayOf(log[j].tick) = dir.day
  /\ Seasoner(dir) => \A i \in Of({"season"}) : DayOf(log[i].tick) < dir.day
  /\ Planner(dir) => \A i \in Of({"arc"}) : DayOf(log[i].tick) < dir.day
  /\ PlannedOnce

\* Every tick has as many audits as announcements, or one more.
AuditsOK ==
  /\ \A t \in Nat :
       Cardinality(OutputsAt(t)) + OneIf(dir.at = "output" /\ dir.tick = t)
         <= Cardinality(AuditsAt(t))
  /\ AuditedFirst

StageOK == TypesOK /\ TicksOK /\ BudgetOK /\ PlansOK /\ AuditsOK

-----------------------------------------------------------------------------

LEMMA RecordedMind ==
  ASSUME NEW d, MindIs(d), NEW tool, NEW kind, NEW t \in Int
  PROVE  LET r == Recorded(d, tool, kind, t)
         IN  /\ MindIs(r) /\ r.recent = Append(d.recent, t) /\ r.total = d.total + 1
             /\ r.at = d.at /\ r.msg = d.msg /\ r.tick = d.tick /\ r.most = d.most
             /\ r.day = d.day /\ r.aim = d.aim /\ r.act = d.act /\ r.seen = d.seen
<1> DEFINE r == Recorded(d, tool, kind, t)
<1>1. DOMAIN d = Memory /\ IsTimes(d.recent)
  BY DEF MindIs
<1>2. /\ DOMAIN r = Memory /\ r.recent = Append(d.recent, t) /\ r.total = d.total + 1
      /\ r.at = d.at /\ r.msg = d.msg /\ r.tick = d.tick /\ r.most = d.most
      /\ r.day = d.day /\ r.aim = d.aim /\ r.act = d.act /\ r.seen = d.seen
  BY <1>1 DEF Recorded, Memory, Blank
<1>3. IsTimes(Append(d.recent, t))
  BY <1>1, SinceGrows
<1> HIDE DEF r
<1>4. MindIs(r)
  BY <1>2, <1>3 DEF MindIs
<1>5. QED
  BY <1>2, <1>4 DEF r

\* Remembering an audit forgets nothing.
LEMMA RememberedMind ==
  ASSUME NEW d, MindIs(d), NEW i, log[i].tick \in Int
  PROVE  LET r == Remembered(d, i)
         IN  /\ MindIs(r)
             /\ r.at = d.at /\ r.msg = d.msg /\ r.tick = d.tick /\ r.most = d.most
             /\ r.day = d.day /\ r.aim = d.aim /\ r.act = d.act /\ r.seen = d.seen
             /\ \A t \in Int : Cardinality(Since(d.recent, t)) <= Cardinality(Since(r.recent, t))
             /\ i \notin d.seen /\ log[i].tool \notin Plans =>
                  \A t \in Int : Cardinality(Since(r.recent, t))
                                   = Cardinality(Since(d.recent, t)) + OneIf(log[i].tick > t)
<1> DEFINE r == Remembered(d, i)
           e == log[i]
<1>1. IsTimes(d.recent) /\ \A t : Cardinality(Since(d.recent, t)) \in Nat
  BY SinceSize DEF MindIs
<1>2. CASE i \in d.seen \/ e.tool \in Plans
  <2>1. r = d
    BY <1>2 DEF Remembered
  <2> HIDE DEF r
  <2>2. MindIs(r) /\ \A t \in Int : Cardinality(Since(d.recent, t)) <= Cardinality(Since(r.recent, t))
    BY <1>1, <2>1
  <2>3. QED
    BY <1>2, <2>1, <2>2 DEF r
<1>3. CASE ~(i \in d.seen \/ e.tool \in Plans)
  <2> DEFINE q == Recorded(d, e.tool, e.kind, e.tick)
  <2>1. r = q
    BY <1>3 DEF Remembered
  <2>2. /\ MindIs(q) /\ q.recent = Append(d.recent, e.tick)
        /\ q.at = d.at /\ q.msg = d.msg /\ q.tick = d.tick /\ q.most = d.most
        /\ q.day = d.day /\ q.aim = d.aim /\ q.act = d.act /\ q.seen = d.seen
    BY RecordedMind
  <2>3. \A t \in Int : Cardinality(Since(Append(d.recent, e.tick), t))
                         = Cardinality(Since(d.recent, t)) + OneIf(e.tick > t)
    BY <1>1, SinceGrows
  <2> HIDE DEF q, r
  <2>4. \A t \in Int : OneIf(e.tick > t) \in {0, 1}
    BY DEF OneIf
  <2> HIDE DEF e
  <2>5. \A t \in Int : /\ Cardinality(Since(r.recent, t)) = Cardinality(Since(d.recent, t)) + OneIf(e.tick > t)
                       /\ Cardinality(Since(d.recent, t)) <= Cardinality(Since(r.recent, t))
    BY <1>1, <2>1, <2>2, <2>3, <2>4
  <2>6. QED
    BY <2>1, <2>2, <2>5 DEF r, e
<1>4. QED
  BY <1>2, <1>3

\* An audit is counted, or is none of those that are.
LEMMA AuditedFinite ==
  ASSUME IsSeq(log), NEW t
  PROVE  IsFiniteSet(AuditedSince(t)) /\ Cardinality(AuditedSince(t)) \in Nat
<1>1. Len(log) \in Nat /\ AuditedSince(t) \subseteq 1..Len(log)
  BY SeqSize DEF AuditedSince, Of, Ids
<1>2. QED
  BY <1>1, PlacesFinite

LEMMA FiredFinite ==
  ASSUME IsSeq(fired), NEW t
  PROVE  Cardinality(FiredSince(t)) \in Nat
<1>1. Len(fired) \in Nat /\ FiredSince(t) \subseteq 1..Len(fired)
  BY SeqSize DEF FiredSince
<1>2. QED
  BY <1>1, PlacesFinite

\* A day is a number.
LEMMA DayNumber ==
  ASSUME NEW t \in Nat
  PROVE  DayOf(t) \in Nat
BY DirectorAssumption DEF DayOf

\* The last of some numbers, when there is one that none of them exceeds.
LEMMA LastOfAll ==
  ASSUME NEW S, S \subseteq Nat, S # {}, NEW b \in Nat, \A m \in S : m <= b
  PROVE  Latest(S) \in S /\ \A m \in S : m <= Latest(S)
<1> DEFINE T == {m \in 1..(b + 1) : m - 1 \in S}
<1>1. T \subseteq 1..(b + 1) /\ b + 1 \in Nat
  OBVIOUS
<1>2. \A m \in S : m + 1 \in T
  OBVIOUS
<1>3. T # {}
  BY <1>2
<1> DEFINE l == Latest(T)
<1>4. l \in T /\ \A m \in T : m <= l
  <2> HIDE DEF T
  <2> QED
    BY <1>1, <1>3, Later
<1> HIDE DEF l
<1>5. l - 1 \in S /\ \A m \in S : m <= l - 1
  <2>1. l - 1 \in S /\ l \in 1..(b + 1)
    BY <1>4
  <2>2. ASSUME NEW m \in S PROVE m <= l - 1
    <3>1. m + 1 <= l
      BY <1>2, <1>4
    <3>2. QED
      BY <2>1, <3>1
  <2>3. QED
    BY <2>1, <2>2
<1>6. QED
  BY <1>5 DEF Latest

\* The days its plans were made on are numbers, and the last is one of them.
LEMMA LastPlanDay ==
  ASSUME IsSeq(log), \A i \in Of({"audit"}) : log[i].tick \in Nat, PlanDays # {}
  PROVE  /\ Latest(PlanDays) \in PlanDays /\ PlanDays \subseteq Nat
         /\ \A x \in PlanDays : x <= Latest(PlanDays)
<1> DEFINE plans == {j \in Of({"audit"}) : log[j].tool \in Plans}
           I == {n \in Nat : \E b \in Nat : \A i \in plans : i <= n => DayOf(log[i].tick) <= b}
<1>1. /\ Len(log) \in Nat /\ plans \subseteq 1..Len(log)
      /\ \A i \in plans : DayOf(log[i].tick) \in Nat
  BY SeqSize, DayNumber DEF Of, Ids
<1>2. PlanDays = {DayOf(log[i].tick) : i \in plans}
  BY DEF PlanDays, DayOf
<1> HIDE DEF plans
<1>3. 0 \in I
  <2>1. \A i \in plans : ~(i <= 0)
    BY <1>1
  <2>2. QED
    BY <2>1
<1>4. ASSUME NEW n \in Nat, n \in I PROVE n + 1 \in I
  <2>1. PICK b \in Nat : \A i \in plans : i <= n => DayOf(log[i].tick) <= b
    BY <1>4
  <2>2. CASE n + 1 \in plans
    <3> DEFINE x == DayOf(log[n + 1].tick)
    <3>1. x \in Nat
      BY <1>1, <2>2
    <3> HIDE DEF x
    <3>2. \A i \in plans : i <= n + 1 => (i <= n \/ i = n + 1)
      BY <1>1
    <3>3. \A i \in plans : i <= n => DayOf(log[i].tick) <= b + x
      BY <1>1, <2>1, <3>1
    <3>4. b + x \in Nat /\ x <= b + x
      BY <3>1
    <3>5. \A i \in plans : i <= n + 1 => DayOf(log[i].tick) <= b + x
      BY <3>2, <3>3, <3>4 DEF x
    <3>6. QED
      BY <3>4, <3>5
  <2>3. CASE n + 1 \notin plans
    <3>1. \A i \in plans : i <= n + 1 => i <= n
      BY <1>1, <2>3
    <3>2. QED
      BY <2>1, <3>1
  <2>4. QED
    BY <2>2, <2>3
<1>5. Len(log) \in I
  <2> HIDE DEF I
  <2>1. \A n \in Nat : n \in I => n + 1 \in I
    BY <1>4
  <2>2. Nat \subseteq I
    BY <1>3, <2>1, NatSetInduction
  <2>3. QED
    BY <1>1, <2>2
<1>6. PICK b \in Nat : \A i \in plans : i <= Len(log) => DayOf(log[i].tick) <= b
  BY <1>5
<1>7. PlanDays \subseteq Nat /\ \A x \in PlanDays : x <= b
  BY <1>1, <1>2, <1>6
<1>8. QED
  BY <1>7, LastOfAll

\* Whom a crash brings back remembers all that its audits say, and nothing later
\* than they do.
LEMMA RestoredMind ==
  ASSUME IsSeq(log), TypesOK
  PROVE  /\ MindIs(Restored) /\ Restored.at = "idle" /\ Restored.tick = 0
         /\ Restored.day = IF PlanDays = {} THEN -1 ELSE Latest(PlanDays)
         /\ \A t \in Int : Cardinality(AuditedSince(t)) <= Cardinality(Since(Restored.recent, t))
<1> DEFINE first == IF PlanDays = {} THEN -1 ELSE Latest(PlanDays)
           L == Len(log)
<1>0. L \in Nat /\ Ids = 1..L
  BY SeqSize DEF Ids
<1>1. PICK memory : Recalls(memory) /\ Restored = memory[L]
  BY RestoredRecalls
<1>2. first \in Int
  <2>1. \A i \in Of({"audit"}) : log[i].tick \in Nat
    BY DEF TypesOK, Of
  <2>2. QED
    BY <2>1, LastPlanDay
<1> HIDE DEF first
<1>3. /\ DOMAIN Paced = Memory /\ Paced.most \in Int /\ Paced.recent = <<>> /\ Paced.tick = 0
      /\ Paced.at = "idle" /\ Paced.total = 0 /\ Paced.seen = {}
  <2>1. CASE Of({"season"}) = {}
    <3>1. Paced = Blank
      BY <2>1 DEF Paced
    <3>2. QED
      BY <3>1, DirectorAssumption DEF Memory, Blank
  <2>2. CASE Of({"season"}) # {}
    <3> DEFINE e == log[Latest(Of({"season"}))]
    <3>1. Of({"season"}) \subseteq 1..L
      BY <1>0 DEF Of
    <3> HIDE DEF L
    <3>2. Latest(Of({"season"})) \in Of({"season"})
      BY <1>0, <2>2, <3>1, Later
    <3>3. e.most \in Int
      BY <3>2 DEF TypesOK
    <3>4. Paced = WithSeason(Blank, e)
      BY <2>2 DEF Paced
    <3> HIDE DEF e
    <3>5. QED
      BY <3>3, <3>4 DEF WithSeason, Memory, Blank
  <2>3. QED
    BY <2>1, <2>2
<1> DEFINE Upto(n, t) == {i \in AuditedSince(t) : i <= n}
           Good(n) == LET d == memory[n]
                      IN  /\ MindIs(d) /\ d.at = "idle" /\ d.tick = 0 /\ d.day = first
                          /\ d.seen = {}
                          /\ \A t \in Int : Cardinality(Upto(n, t)) <= Cardinality(Since(d.recent, t))
           I == {n \in Nat : n <= L => Good(n)}
<1>4. Good(0)
  <2>1. memory[0] = [Paced EXCEPT !.day = first]
    BY <1>1 DEF Recalls, first
  <2>2. /\ DOMAIN memory[0] = Memory /\ memory[0].most \in Int /\ memory[0].recent = <<>>
        /\ memory[0].tick = 0 /\ memory[0].at = "idle" /\ memory[0].total = 0
        /\ memory[0].seen = {} /\ memory[0].day = first
    BY <1>3, <2>1 DEF Memory, Blank
  <2>3. IsTimes(<<>>)
    BY DEF IsTimes, IsSeq
  <2>4. MindIs(memory[0])
    BY <1>2, <2>2, <2>3 DEF MindIs
  <2>5. ASSUME NEW t \in Int
        PROVE  Cardinality(Upto(0, t)) <= Cardinality(Since(memory[0].recent, t))
    <3>1. Upto(0, t) = {}
      BY <1>0 DEF AuditedSince, Of
    <3>2. Cardinality(Since(memory[0].recent, t)) \in Nat
      BY <2>2, <2>3, SinceSize
    <3>3. QED
      BY <3>1, <3>2, FS_EmptySet
  <2>6. QED
    BY <2>2, <2>4, <2>5
<1>5. ASSUME NEW n \in Nat, n + 1 <= L, Good(n) PROVE Good(n + 1)
  <2> DEFINE d == memory[n]
             q == memory[n + 1]
  <2>1. n + 1 \in 1..L /\ (n + 1) - 1 = n
    BY <1>0, <1>5
  <2>2. q = IF n + 1 \in Of({"audit"}) THEN Remembered(d, n + 1) ELSE d
    BY <1>1, <2>1 DEF Recalls
  <2>3. /\ MindIs(d) /\ d.at = "idle" /\ d.tick = 0 /\ d.day = first /\ d.seen = {}
        /\ \A t \in Int : Cardinality(Upto(n, t)) <= Cardinality(Since(d.recent, t))
    BY <1>5
  <2>4. \A t : IsFiniteSet(Upto(n, t)) /\ Cardinality(Upto(n, t)) \in Nat
    <3> TAKE t
    <3>1. Upto(n, t) \in SUBSET AuditedSince(t)
      OBVIOUS
    <3> HIDE DEF Upto
    <3>2. QED
      BY <3>1, AuditedFinite, FS_Subset, FS_CardinalityType
  <2> HIDE DEF d, q, L
  <2>5. CASE n + 1 \notin Of({"audit"})
    <3>1. q = d
      BY <2>2, <2>5
    <3>2. ASSUME NEW t \in Int PROVE Upto(n + 1, t) = Upto(n, t)
      <4>1. \A i \in AuditedSince(t) : i \in Nat /\ i # n + 1
        BY <1>0, <2>5 DEF AuditedSince, Of
      <4>2. QED
        BY <4>1
    <3> HIDE DEF Upto
    <3>3. QED
      BY <2>3, <3>1, <3>2 DEF d, q
  <2>6. CASE n + 1 \in Of({"audit"})
    <3>0. log[n + 1].tick \in Int
      BY <2>6 DEF TypesOK, Of
    <3>1. q = Remembered(d, n + 1)
      BY <2>2, <2>6
    <3>2. /\ MindIs(q) /\ q.at = "idle" /\ q.tick = 0 /\ q.day = first /\ q.seen = {}
          /\ \A t \in Int : Cardinality(Since(d.recent, t)) <= Cardinality(Since(q.recent, t))
          /\ log[n + 1].tool \notin Plans =>
               \A t \in Int : Cardinality(Since(q.recent, t))
                                = Cardinality(Since(d.recent, t)) + OneIf(log[n + 1].tick > t)
      BY <2>3, <3>0, <3>1, RememberedMind
    <3>3. ASSUME NEW t \in Int
          PROVE  Cardinality(Upto(n + 1, t)) <= Cardinality(Since(q.recent, t))
      <4> DEFINE more == log[n + 1].tool \notin Plans /\ log[n + 1].tick > t
      <4>1. Upto(n, t) \subseteq 1..n /\ more \in BOOLEAN
        BY <1>0 DEF AuditedSince, Of
      <4>2. Upto(n + 1, t) = Upto(n, t) \cup (IF more THEN {n + 1} ELSE {})
        BY <1>0, <2>6 DEF AuditedSince, Of
      <4>3. Cardinality(Since(d.recent, t)) \in Nat /\ Cardinality(Since(q.recent, t)) \in Nat
        BY <2>3, <3>2, SinceSize DEF MindIs
      <4>4. Cardinality(Upto(n, t)) <= Cardinality(Since(d.recent, t))
        BY <2>3
      <4>5. more => Cardinality(Since(q.recent, t)) = Cardinality(Since(d.recent, t)) + OneIf(log[n + 1].tick > t)
        BY <3>2
      <4>6. more => OneIf(log[n + 1].tick > t) = 1
        BY DEF OneIf
      <4>7. Cardinality(Since(d.recent, t)) <= Cardinality(Since(q.recent, t))
        BY <3>2
      <4> HIDE DEF more, Upto
      <4>8. Cardinality(Upto(n + 1, t)) = Cardinality(Upto(n, t)) + OneIf(more)
        BY <4>1, <4>2, OneMoreCounted
      <4>9. CASE more
        BY <2>4, <4>3, <4>4, <4>5, <4>6, <4>8, <4>9 DEF OneIf
      <4>10. CASE ~more
        BY <2>4, <4>3, <4>4, <4>7, <4>8, <4>10 DEF OneIf
      <4>11. QED
        BY <4>9, <4>10
    <3> HIDE DEF Upto
    <3>4. QED
      BY <3>2, <3>3 DEF q
  <2>7. QED
    BY <2>5, <2>6
<1>6. Good(L)
  <2> HIDE DEF Good, L
  <2>1. 0 \in I /\ \A n \in Nat : n \in I => n + 1 \in I
    BY <1>0, <1>4, <1>5
  <2>2. Nat \subseteq I
    <3> HIDE DEF I
    <3> QED
      BY <2>1, NatSetInduction
  <2>3. QED
    BY <1>0, <2>2
<1>7. ASSUME NEW t \in Int PROVE Upto(L, t) = AuditedSince(t)
  BY <1>0 DEF AuditedSince, Of
<1> HIDE DEF Upto, L
<1>8. QED
  BY <1>1, <1>6, <1>7 DEF first

-----------------------------------------------------------------------------

\* With the log and the stage as they were, what the director makes of itself
\* keeps to what is on stage.
Fits(d, a) ==
  /\ MindIs(d) /\ Acts(d) /\ a \in [{"observe", "gravity", "system"} -> Nat]
  /\ \A j \in Of({"ticked"}) : j > a.system => log[j].tick >= d.tick
  /\ d.at # "idle" => d.msg \in Of({"ticked"}) /\ log[d.msg].tick = d.tick
  /\ \A n \in 1..Len(script) : script[n].type = "ticked" => d.tick <= script[n].tick
  /\ d.at # "output"

\* Its budget and its plans, of a director who has nothing audited in hand.
Budgets(d) ==
  /\ \A t \in Int : t >= d.tick - BudgetWindow =>
       Cardinality(FiredSince(t)) <= Cardinality(Since(d.recent, t))
  /\ Player(d) => Len(d.recent) < d.most

PlansFor(d) ==
  /\ \A i \in Of({"audit"}) : log[i].tool \in Plans => DayOf(log[i].tick) <= d.day
  /\ Planner(d) => DayOf(d.tick) = d.day
  /\ Seasoner(d) => \A i \in Of({"season"}) : DayOf(log[i].tick) < d.day
  /\ Planner(d) => \A i \in Of({"arc"}) : DayOf(log[i].tick) < d.day

LEMMA SetsStay ==
  ASSUME UNCHANGED <<log, fired>>
  PROVE  /\ \A types : Of(types)' = Of(types)
         /\ \A t : /\ FiredSince(t)' = FiredSince(t) /\ AuditedSince(t)' = AuditedSince(t)
                   /\ AuditsAt(t)' = AuditsAt(t) /\ OutputsAt(t)' = OutputsAt(t)
<1>1. \A types : Of(types)' = Of(types)
  BY DEF Of, Ids
<1>2. ASSUME NEW t
      PROVE  /\ FiredSince(t)' = FiredSince(t) /\ AuditedSince(t)' = AuditedSince(t)
             /\ AuditsAt(t)' = AuditsAt(t) /\ OutputsAt(t)' = OutputsAt(t)
  BY DEF FiredSince, AuditedSince, AuditsAt, OutputsAt, Of, Ids
<1>3. QED
  BY <1>1, <1>2

\* What has been found of the log and of what was put on stage is found again.
LEMMA PastStays ==
  ASSUME UNCHANGED <<log, fired>>
  PROVE  /\ BudgetKept => BudgetKept'
         /\ PlannedOnce => PlannedOnce'
         /\ AuditedFirst => AuditedFirst'
<1>1. BudgetKept => BudgetKept'
  BY DEF BudgetKept
<1>2. PlannedOnce => PlannedOnce'
  BY DEF PlannedOnce, Of, Ids
<1>3. AuditedFirst => AuditedFirst'
  BY DEF AuditedFirst, Of, Ids
<1>4. QED
  BY <1>1, <1>2, <1>3

LEMMA QuietStage ==
  ASSUME StageOK, IsSeq(log), UNCHANGED <<log, script, fired>>,
         NEW d, dir' = d, NEW a, acked' = a, Fits(d, a), Budgets(d), PlansFor(d)
  PROVE  StageOK'
<1>0. \A types : Of(types)' = Of(types)
  BY SetsStay
<1>1. TypesOK'
  <2>1. MindIs(d)' /\ Acts(d)'
    BY DEF Fits, MindIs, Acts
  <2>2. QED
    BY <1>0, <2>1 DEF StageOK, TypesOK, Fits, MindIs, Acts
<1>2. TicksOK'
  BY <1>0 DEF StageOK, TicksOK, Fits
<1>3. BudgetOK'
  <2>1. ASSUME NEW t \in Int, t >= d.tick - BudgetWindow
        PROVE  Cardinality(FiredSince(t)') <= Cardinality(Since(d.recent, t))
    BY <2>1, SetsStay DEF Budgets
  <2>2. ASSUME NEW t \in Int
        PROVE  Cardinality(FiredSince(t)') + OneIf(d.at = "output" /\ d.aim = "drama" /\ d.tick > t)
                 <= Cardinality(AuditedSince(t)')
    <3>1. FiredSince(t)' = FiredSince(t) /\ AuditedSince(t)' = AuditedSince(t)
      BY SetsStay
    <3>2. Cardinality(FiredSince(t))
            + OneIf(dir.at = "output" /\ dir.aim = "drama" /\ dir.tick > t)
              <= Cardinality(AuditedSince(t))
      BY DEF StageOK, BudgetOK
    <3>4. Cardinality(FiredSince(t)) \in Nat
      BY FiredFinite DEF StageOK, TypesOK
    <3>5. Cardinality(AuditedSince(t)) \in Nat
      BY AuditedFinite
    <3>6. Cardinality(FiredSince(t)) <= Cardinality(AuditedSince(t))
      BY <3>2, <3>4, <3>5 DEF OneIf
    <3>7. OneIf(d.at = "output" /\ d.aim = "drama" /\ d.tick > t) = 0
      BY DEF Fits, OneIf
    <3>8. QED
      BY <3>1, <3>4, <3>5, <3>6, <3>7
  <2>3. Player(d) => Len(d.recent) < d.most
    BY DEF Budgets
  <2>4. BudgetKept'
    BY PastStays DEF StageOK, BudgetOK
  <2>5. QED
    BY <2>1, <2>2, <2>3, <2>4 DEF BudgetOK, Player
<1>4. PlansOK'
  <2>1. PlannedOnce'
    BY PastStays DEF StageOK, PlansOK
  <2>2. QED
    BY <1>0, <2>1 DEF StageOK, PlansOK, PlansFor, Fits, Planner, Seasoner
<1>5. AuditsOK'
  <2>1. AuditedFirst'
    BY PastStays DEF StageOK, AuditsOK
  <2>2. ASSUME NEW t \in Nat
        PROVE  Cardinality(OutputsAt(t)') + OneIf(d.at = "output" /\ d.tick = t)
                 <= Cardinality(AuditsAt(t)')
    <3>1. OutputsAt(t)' = OutputsAt(t) /\ AuditsAt(t)' = AuditsAt(t)
      BY SetsStay
    <3>2. Cardinality(OutputsAt(t)) + OneIf(dir.at = "output" /\ dir.tick = t)
            <= Cardinality(AuditsAt(t))
      BY DEF StageOK, AuditsOK
    <3>3. Len(log) \in Nat /\ OutputsAt(t) \subseteq 1..Len(log) /\ AuditsAt(t) \subseteq 1..Len(log)
      BY SeqSize DEF OutputsAt, AuditsAt, Of, Ids
    <3>4. Cardinality(OutputsAt(t)) \in Nat /\ Cardinality(AuditsAt(t)) \in Nat
      BY <3>3, PlacesFinite
    <3>5. OneIf(d.at = "output" /\ d.tick = t) = 0
      BY DEF Fits, OneIf
    <3>6. Cardinality(OutputsAt(t)) <= Cardinality(AuditsAt(t))
      BY <3>2, <3>4 DEF OneIf
    <3>7. QED
      BY <3>1, <3>4, <3>5, <3>6
  <2>3. QED
    BY <2>1, <2>2 DEF AuditsOK
<1>6. QED
  BY <1>1, <1>2, <1>3, <1>4, <1>5 DEF StageOK

\* The ticks that are still to come are no earlier than the one it is at.
LEMMA LaterTicks ==
  ASSUME TypesOK, TicksOK, IsSeq(log), NEW a \in [{"observe", "gravity", "system"} -> Nat],
         \/ a.system >= acked.system
         \/ dir.at # "idle" /\ a.system = dir.msg
  PROVE  \A j \in Of({"ticked"}) : j > a.system => log[j].tick >= dir.tick
<1> SUFFICES ASSUME NEW j \in Of({"ticked"}), j > a.system PROVE log[j].tick >= dir.tick
  OBVIOUS
<1>1. j \in Nat /\ acked.system \in Nat /\ a.system \in Nat
  BY SeqSize DEF Of, Ids, TypesOK
<1>2. CASE a.system >= acked.system
  BY <1>1, <1>2 DEF TicksOK
<1>3. CASE dir.at # "idle" /\ a.system = dir.msg
  <2>1. dir.msg \in Of({"ticked"}) /\ log[dir.msg].tick = dir.tick /\ dir.msg <= j
    BY <1>1, <1>3, SeqSize DEF TicksOK, Of, Ids
  <2>2. log[dir.msg].tick <= log[j].tick
    BY <2>1 DEF TicksOK
  <2>3. log[j].tick \in Nat /\ dir.tick \in Nat
    BY DEF TypesOK, MindIs, Of
  <2>4. QED
    BY <2>1, <2>2, <2>3
<1>4. QED
  BY <1>2, <1>3

\* It goes on with the tick it is at, or is done with it.
LEMMA SameStage ==
  ASSUME StageOK, IsSeq(log), UNCHANGED <<log, script, fired>>,
         NEW d, dir' = d, NEW a, acked' = a,
         MindIs(d), Acts(d), d.at # "output",
         d.tick = dir.tick, d.day = dir.day,
         d.at = "idle" \/ (dir.at # "idle" /\ d.msg = dir.msg),
         Planner(d) => Planner(dir), Seasoner(d) => Seasoner(dir),
         Player(d) => Len(d.recent) < d.most,
         \A t \in Int : t >= dir.tick - BudgetWindow =>
           Cardinality(Since(dir.recent, t)) <= Cardinality(Since(d.recent, t)),
         a \in [{"observe", "gravity", "system"} -> Nat],
         \/ a.system >= acked.system
         \/ dir.at # "idle" /\ a.system = dir.msg
  PROVE  StageOK'
<1>1. Fits(d, a)
  <2>1. \A j \in Of({"ticked"}) : j > a.system => log[j].tick >= d.tick
    BY LaterTicks DEF StageOK
  <2>2. d.at # "idle" => d.msg \in Of({"ticked"}) /\ log[d.msg].tick = d.tick
    BY DEF StageOK, TicksOK
  <2>3. \A n \in 1..Len(script) : script[n].type = "ticked" => d.tick <= script[n].tick
    BY DEF StageOK, TicksOK
  <2>4. QED
    BY <2>1, <2>2, <2>3 DEF Fits
<1>2. Budgets(d)
  <2>1. ASSUME NEW t \in Int, t >= d.tick - BudgetWindow
        PROVE  Cardinality(FiredSince(t)) <= Cardinality(Since(d.recent, t))
    <3>1. Cardinality(FiredSince(t)) <= Cardinality(Since(dir.recent, t))
      BY <2>1 DEF StageOK, BudgetOK
    <3>2. Cardinality(Since(dir.recent, t)) <= Cardinality(Since(d.recent, t))
      BY <2>1
    <3>3. Cardinality(Since(dir.recent, t)) \in Nat /\ Cardinality(Since(d.recent, t)) \in Nat
      BY SinceSize DEF StageOK, TypesOK, MindIs
    <3>5. Cardinality(FiredSince(t)) \in Nat
      BY FiredFinite DEF StageOK, TypesOK
    <3>6. QED
      BY <3>1, <3>2, <3>3, <3>5
  <2>2. QED
    BY <2>1 DEF Budgets
<1>3. PlansFor(d)
  BY DEF StageOK, PlansOK, PlansFor
<1>4. QED
  BY <1>1, <1>2, <1>3, QuietStage

-----------------------------------------------------------------------------
(* What rules propose, and what is left of the director's mind after a step. *)

LEMMA CrcNumber ==
  ASSUME NEW what \in {"tool", "incident", "affected"}, NEW n \in Nat
  PROVE  Crc(what, n) \in Nat
<1> DEFINE s == Turn[what]
<1>1. s \in Seq(Nat) /\ s # <<>>
  BY RulesAssumption
<1> HIDE DEF s
<1>2. Len(s) \in Nat \ {0}
  BY <1>1
<1>3. (n % Len(s)) + 1 \in 1..Len(s)
  BY <1>2
<1>4. s[(n % Len(s)) + 1] \in Nat
  BY <1>1, <1>3
<1>5. QED
  BY <1>4 DEF Crc, s

LEMMA RulesAct ==
  ASSUME NEW tension, NEW total \in Nat, NEW avoid, NEW t
  PROVE  IsDrama(RuleAct(tension, total, avoid, t), t)
<1> DEFINE act == RuleAct(tension, total, avoid, t)
           tool == IF tension = <<>> THEN "incident" ELSE Tools[(Crc("tool", total) % 4) + 1]
<1>1. tool \in {"incident", "nudge", "promote", "boost"}
  <2>1. Crc("tool", total) \in Nat
    BY CrcNumber
  <2>2. (Crc("tool", total) % 4) + 1 \in 1..4
    BY <2>1
  <2>3. \A n \in 1..4 : Tools[n] \in {"incident", "nudge", "promote", "boost"}
    BY DEF Tools
  <2>4. QED
    BY <2>2, <2>3
<1>2. act.tool = "rule" \/ act.tool = tool
  BY DEF RuleAct, Act
<1>3. act.tool = tool
  BY DEF RuleAct, Act
<1>4. act.event.tick = t /\ act.event.type \in Dramas
  BY DEF RuleAct, Act, SpotlightEvent, BoostEvent, NudgeEvent, IncidentEvent, Dramas, Outputs,
         Plans
<1> HIDE DEF tool, act
<1>5. act.tool \notin Plans
  BY <1>1, <1>3 DEF Plans
<1>6. QED
  BY <1>4, <1>5 DEF IsDrama, act

\* What has nothing more to do with it keeps what it knows.
Knows(d, q) ==
  /\ MindIs(q) /\ q.recent = d.recent /\ q.tick = d.tick /\ q.most = d.most
  /\ q.day = d.day /\ q.total = d.total

LEMMA IdleKnows ==
  ASSUME NEW d, MindIs(d)
  PROVE  /\ Knows(d, Idle(d)) /\ Idle(d).at = "idle"
         /\ Knows(d, AfterSeason(d)) /\ AfterSeason(d).at = "arcs" /\ AfterSeason(d).msg = d.msg
         /\ Knows(d, AfterArcs(d)) /\ AfterArcs(d).at = "judge" /\ AfterArcs(d).msg = d.msg
<1>0. DOMAIN d = Memory
  BY DEF MindIs
<1> DEFINE s == AfterSeason(d)
<1>1. /\ DOMAIN s = Memory /\ s.recent = d.recent /\ s.tick = d.tick /\ s.most = d.most
      /\ s.day = d.day /\ s.total = d.total /\ s.at = "arcs" /\ s.msg = d.msg
  BY <1>0 DEF AfterSeason, Memory, Blank
<1> DEFINE q == AfterArcs(d)
<1>2. q = [s EXCEPT !.at = "judge"]
  BY DEF AfterArcs
<1> DEFINE i == Idle(d)
<1>3. i = [s EXCEPT !.at = "idle", !.tension = <<>>, !.msg = 0]
  BY DEF Idle
<1> HIDE DEF s, q, i
<1>4. /\ DOMAIN q = Memory /\ q.recent = d.recent /\ q.tick = d.tick /\ q.most = d.most
      /\ q.day = d.day /\ q.total = d.total /\ q.at = "judge" /\ q.msg = d.msg
  BY <1>1, <1>2 DEF Memory, Blank
<1>5. /\ DOMAIN i = Memory /\ i.recent = d.recent /\ i.tick = d.tick /\ i.most = d.most
      /\ i.day = d.day /\ i.total = d.total /\ i.at = "idle"
  BY <1>1, <1>3 DEF Memory, Blank
<1>6. Knows(d, s) /\ Knows(d, q) /\ Knows(d, i)
  BY <1>1, <1>4, <1>5 DEF Knows, MindIs
<1>7. QED
  BY <1>1, <1>4, <1>5, <1>6 DEF s, q, i

\* What it goes on to after something that came to nothing, or is over.
LEMMA OnwardKnows ==
  ASSUME NEW d, MindIs(d), d.at \in Talking, d.aim \in Plans \cup {"drama"}
  PROVE  LET q == Onward(d)
         IN  /\ Knows(d, q) /\ q.at \in {"idle", "arcs", "judge"}
             /\ q.at = "idle" \/ q.msg = d.msg
             /\ q.at = "arcs" => d.aim = "season"
             /\ Planner(q) => Planner(d)
             /\ ~Seasoner(q) /\ ~Player(q) /\ Acts(q)
<1> DEFINE q == Onward(d)
<1>1. \/ q = AfterSeason(d) /\ d.aim = "season"
      \/ q = AfterArcs(d)
      \/ q = Idle(d)
  BY DEF Onward
<1> HIDE DEF q
<1>2. Knows(d, q) /\ q.at \in {"idle", "arcs", "judge"} /\ (q.at = "idle" \/ q.msg = d.msg)
      /\ (q.at = "arcs" => d.aim = "season")
  BY <1>1, IdleKnows
<1>3. Planner(q) => Planner(d)
  BY <1>2 DEF Planner, Talking, Plans
<1>4. ~Seasoner(q) /\ ~Player(q) /\ Acts(q)
  BY <1>2 DEF Seasoner, Player, Acts, Talking
<1>5. QED
  BY <1>2, <1>3, <1>4 DEF q

\* As it was, or done with what it had in hand.
LEMMA KnowingStage ==
  ASSUME StageOK, IsSeq(log), UNCHANGED <<log, script, fired>>,
         NEW d, dir' = d, Knows(dir, d), Acts(d), d.at # "output",
         d.at = "idle" \/ (dir.at # "idle" /\ d.msg = dir.msg),
         Planner(d) => Planner(dir), Seasoner(d) => Seasoner(dir),
         Player(d) => Len(d.recent) < d.most,
         acked' = IF d.at = "idle" THEN [acked EXCEPT !.system = dir.msg] ELSE acked,
         dir.at # "idle"
  PROVE  StageOK'
<1> DEFINE a == IF d.at = "idle" THEN [acked EXCEPT !.system = dir.msg] ELSE acked
<1>1. acked \in [{"observe", "gravity", "system"} -> Nat] /\ dir.msg \in Nat
  BY SeqSize DEF StageOK, TypesOK, TicksOK, Of, Ids
<1>2. a \in [{"observe", "gravity", "system"} -> Nat] /\ (a = acked \/ a.system = dir.msg)
  BY <1>1
<1>3. acked' = a
  OBVIOUS
<1> HIDE DEF a
<1>4. \A t \in Int : Cardinality(Since(dir.recent, t)) <= Cardinality(Since(d.recent, t))
  <2>1. \A t \in Int : Cardinality(Since(dir.recent, t)) \in Nat
    BY SinceSize DEF StageOK, TypesOK, MindIs
  <2>2. d.recent = dir.recent
    BY DEF Knows
  <2>3. QED
    BY <2>1, <2>2
<1>5. MindIs(d) /\ d.tick = dir.tick /\ d.day = dir.day
  BY DEF Knows
<1>6. a.system >= acked.system \/ (dir.at # "idle" /\ a.system = dir.msg)
  BY <1>1, <1>2
<1>7. QED
  BY <1>2, <1>3, <1>4, <1>5, <1>6, SameStage

-----------------------------------------------------------------------------
(* The steps of the director that put nothing into the log.                  *)

LEMMA ListeningKeeps ==
  ASSUME StageOK, IsSeq(log), Observe \/ Attend
  PROVE  StageOK'
<1> DEFINE d == dir'
           a == acked'
<1>1. MindIs(dir) /\ DOMAIN dir = Memory /\ dir.at = "idle" /\ UNCHANGED logVars /\ UNCHANGED fired
  BY DEF StageOK, TypesOK, MindIs, Observe, Attend, Waiting
<1>2. /\ DOMAIN dir' = Memory /\ dir'.at = "idle" /\ dir'.recent = dir.recent
      /\ dir'.tick = dir.tick /\ dir'.most = dir.most /\ dir'.day = dir.day
      /\ dir'.total = dir.total
  BY <1>1 DEF Observe, Attend, Memory, Blank
<1>3. PICK i \in Ids : acked' = [acked EXCEPT !["observe"] = i] \/ acked' = [acked EXCEPT !["gravity"] = i]
  <2>1. CASE Observe
    <3> DEFINE S == Pending(Heard, acked["observe"])
    <3>1. S # {} /\ acked' = [acked EXCEPT !["observe"] = Earliest(S)]
      BY <2>1 DEF Observe, Waiting, Ack, Next_
    <3>2. S \subseteq Nat /\ S \subseteq Ids
      BY SeqSize DEF Pending, Of, Ids
    <3> HIDE DEF S
    <3>3. Earliest(S) \in Ids
      BY <3>1, <3>2, Earlier
    <3>4. QED
      BY <3>1, <3>3
  <2>2. CASE Attend
    <3> DEFINE S == Pending(Looks, acked["gravity"])
    <3>1. S # {} /\ acked' = [acked EXCEPT !["gravity"] = Earliest(S)]
      BY <2>2 DEF Attend, Waiting, Ack, Next_
    <3>2. S \subseteq Nat /\ S \subseteq Ids
      BY SeqSize DEF Pending, Of, Ids
    <3> HIDE DEF S
    <3>3. Earliest(S) \in Ids
      BY <3>1, <3>2, Earlier
    <3>4. QED
      BY <3>1, <3>3
  <2>3. QED
    BY <2>1, <2>2
<1>4. acked \in [{"observe", "gravity", "system"} -> Nat] /\ i \in Nat
  BY SeqSize DEF StageOK, TypesOK, Ids
<1>5. acked' \in [{"observe", "gravity", "system"} -> Nat] /\ acked'.system = acked.system
      /\ acked.system \in Nat
  BY <1>3, <1>4
<1>6. PICK q : dir' = q
  OBVIOUS
<1>7. PICK b : acked' = b
  OBVIOUS
<1>8. MindIs(q) /\ Acts(q) /\ ~Planner(q) /\ ~Seasoner(q) /\ ~Player(q)
  BY <1>1, <1>2, <1>6 DEF MindIs, Acts, Planner, Seasoner, Player, Talking
<1>9. \A t \in Int : Cardinality(Since(dir.recent, t)) <= Cardinality(Since(q.recent, t))
  <2>1. \A t \in Int : Cardinality(Since(dir.recent, t)) \in Nat
    BY <1>1, SinceSize DEF MindIs
  <2>2. QED
    BY <1>2, <1>6, <2>1
<1>10. UNCHANGED <<log, script, fired>>
  BY <1>1 DEF logVars
<1>11. /\ q.at = "idle" /\ q.tick = dir.tick /\ q.day = dir.day
       /\ b \in [{"observe", "gravity", "system"} -> Nat] /\ b.system >= acked.system
  BY <1>2, <1>5, <1>6, <1>7
<1>12. QED
  BY <1>6, <1>7, <1>8, <1>9, <1>10, <1>11, SameStage

LEMMA RecallKeeps ==
  ASSUME StageOK, IsSeq(log), Recall
  PROVE  StageOK'
<1> DEFINE S == Pending(Controls, acked["system"])
           i == Earliest(S)
           e == log[i]
<1>1. MindIs(dir) /\ DOMAIN dir = Memory /\ dir.at = "idle" /\ UNCHANGED <<log, script, fired>>
  BY DEF StageOK, TypesOK, MindIs, Recall, Waiting, logVars
<1>2. acked \in [{"observe", "gravity", "system"} -> Nat] /\ acked.system \in Nat
  BY DEF StageOK, TypesOK
<1>3. S # {} /\ S \subseteq Nat /\ S \subseteq Ids /\ \A j \in S : j > acked.system
  BY SeqSize DEF Recall, Waiting, Pending, Of, Ids
<1>4. /\ acked' = [acked EXCEPT !["system"] = i]
      /\ dir' = CASE e.type = "audit" -> Remembered(dir, i)
                  [] e.type = "season" -> WithSeason(dir, e)
                  [] OTHER -> dir
  BY DEF Recall, Ack, Next_
<1> HIDE DEF S
<1>5. i \in S /\ i \in Nat /\ i \in Ids /\ i > acked.system
  BY <1>3, Earlier
<1> HIDE DEF i
<1>6. \A t \in Int : Cardinality(Since(dir.recent, t)) \in Nat
  BY <1>1, SinceSize DEF MindIs
<1> DEFINE Kept(q) ==
             /\ MindIs(q) /\ q.at = "idle" /\ q.tick = dir.tick /\ q.day = dir.day
             /\ \A t \in Int : Cardinality(Since(dir.recent, t)) <= Cardinality(Since(q.recent, t))
<1>7. \E q : dir' = q /\ Kept(q)
  <2>1. CASE e.type = "audit"
    <3>1. e.tick \in Int
      BY <1>5, <2>1 DEF StageOK, TypesOK, Of
    <3>2. Kept(Remembered(dir, i))
      BY <1>1, <3>1, RememberedMind
    <3> HIDE DEF Kept
    <3>3. QED
      BY <1>4, <2>1, <3>2
  <2>2. CASE e.type = "season"
    <3>1. e.most \in Int
      BY <1>5, <2>2 DEF StageOK, TypesOK, Of
    <3> DEFINE q == WithSeason(dir, e)
    <3>2. dir' = q
      BY <1>4, <2>2
    <3>3. /\ DOMAIN q = Memory /\ q.most = e.most /\ q.recent = dir.recent /\ q.tick = dir.tick
          /\ q.day = dir.day /\ q.total = dir.total /\ q.at = dir.at
      BY <1>1 DEF WithSeason, Memory, Blank
    <3> HIDE DEF q, e
    <3>4. Kept(q)
      BY <1>1, <1>6, <3>1, <3>3 DEF MindIs
    <3> HIDE DEF Kept
    <3>5. QED
      BY <3>2, <3>4
  <2>3. CASE e.type # "audit" /\ e.type # "season"
    <3>1. Kept(dir)
      BY <1>1, <1>6
    <3> HIDE DEF Kept
    <3>2. QED
      BY <1>4, <2>3, <3>1
  <2>4. QED
    BY <2>1, <2>2, <2>3
<1> HIDE DEF Kept
<1>8. PICK q : dir' = q /\ Kept(q)
  BY <1>7
<1>9. MindIs(q) /\ Acts(q) /\ ~Planner(q) /\ ~Seasoner(q) /\ ~Player(q) /\ q.at = "idle"
      /\ q.tick = dir.tick /\ q.day = dir.day
      /\ \A t \in Int : Cardinality(Since(dir.recent, t)) <= Cardinality(Since(q.recent, t))
  BY <1>8 DEF Kept, Acts, Planner, Seasoner, Player, Talking
<1>10. PICK b : acked' = b
  OBVIOUS
<1>11. b \in [{"observe", "gravity", "system"} -> Nat] /\ b.system >= acked.system
  BY <1>2, <1>4, <1>5, <1>10
<1>12. QED
  BY <1>1, <1>8, <1>9, <1>10, <1>11, SameStage

LEMMA SkipPlanKeeps ==
  ASSUME StageOK, IsSeq(log), SkipPlan
  PROVE  StageOK'
<1>1. /\ MindIs(dir) /\ dir.at \in {"season", "arcs"} /\ UNCHANGED <<log, script, fired>>
      /\ (dir' = AfterSeason(dir) /\ dir.at = "season") \/ dir' = AfterArcs(dir)
      /\ acked' = IF dir'.at = "idle" THEN [acked EXCEPT !.system = dir.msg] ELSE acked
  BY DEF StageOK, TypesOK, SkipPlan, Proceed, logVars
<1>2. PICK d : dir' = d
  OBVIOUS
<1>3. Knows(dir, d) /\ d.at \in {"arcs", "judge"} /\ d.msg = dir.msg
  BY <1>1, <1>2, IdleKnows
<1>4. Acts(d) /\ Planner(dir) /\ ~Seasoner(d) /\ ~Player(d)
  BY <1>1, <1>3 DEF Acts, Planner, Seasoner, Player, Talking
<1>5. QED
  BY <1>1, <1>2, <1>3, <1>4, KnowingStage

LEMMA AskPlanKeeps ==
  ASSUME StageOK, IsSeq(log), NEW c, AskPlan(c)
  PROVE  StageOK'
<1> DEFINE aim == IF dir.at = "season" THEN "season" ELSE "arc"
<1>1. /\ MindIs(dir) /\ DOMAIN dir = Memory
      /\ dir.at \in {"season", "arcs"} /\ UNCHANGED <<log, script, fired>>
      /\ dir' = [dir EXCEPT !.aim = aim, !.at = "asked", !.call = c]
      /\ acked' = IF dir'.at = "idle" THEN [acked EXCEPT !.system = dir.msg] ELSE acked
  BY DEF StageOK, TypesOK, MindIs, AskPlan, Proceed, logVars
<1>2. PICK d : dir' = d
  OBVIOUS
<1>3. /\ DOMAIN d = Memory /\ d.recent = dir.recent /\ d.tick = dir.tick /\ d.most = dir.most
      /\ d.day = dir.day /\ d.total = dir.total /\ d.msg = dir.msg /\ d.at = "asked"
      /\ d.aim = aim
  <2>1. d = [dir EXCEPT !.aim = aim, !.at = "asked", !.call = c] /\ DOMAIN dir = Memory
    BY <1>1, <1>2
  <2> HIDE DEF aim
  <2>2. QED
    BY <2>1 DEF Memory, Blank
<1>4. Knows(dir, d)
  BY <1>1, <1>3 DEF Knows, MindIs
<1>5. Acts(d) /\ Planner(dir) /\ (Seasoner(d) => Seasoner(dir)) /\ ~Player(d)
  BY <1>1, <1>3 DEF Acts, Planner, Seasoner, Player, Talking, Plans
<1>6. QED
  BY <1>1, <1>2, <1>3, <1>4, <1>5, KnowingStage

LEMMA AppendFailsKeeps ==
  ASSUME StageOK, IsSeq(log), AppendFails
  PROVE  StageOK'
<1>1. /\ MindIs(dir) /\ dir.at \in {"audit", "output"} /\ UNCHANGED <<log, script, fired>>
      /\ dir' = Idle(dir)
      /\ acked' = IF dir'.at = "idle" THEN [acked EXCEPT !.system = dir.msg] ELSE acked
  BY DEF StageOK, TypesOK, AppendFails, Proceed
<1>2. PICK d : dir' = d
  OBVIOUS
<1>3. Knows(dir, d) /\ d.at = "idle"
  BY <1>1, <1>2, IdleKnows
<1>4. Acts(d) /\ ~Planner(d) /\ ~Seasoner(d) /\ ~Player(d)
  BY <1>3 DEF Acts, Planner, Seasoner, Player, Talking
<1>5. QED
  BY <1>1, <1>2, <1>3, <1>4, KnowingStage

LEMMA HearKeeps ==
  ASSUME StageOK, IsSeq(log), NEW plan, Hear(plan)
  PROVE  StageOK'
<1> DEFINE proposed ==
             CASE plan = Nothing -> Nothing
               [] dir.aim = "season" -> PlanSeason(plan, dir.tick)
               [] dir.aim = "arc" -> PlanArc(plan, dir.tick)
               [] OTHER -> PlanAct(plan, dir.tension, Capped(dir.tools), dir.tick)
           rule == RuleAct(dir.tension, dir.total, LastKind, dir.tick)
           act == IF proposed = Nothing /\ dir.aim = "drama" THEN rule ELSE proposed
<1>1. /\ dir.at = "asked" /\ UNCHANGED <<log, script, fired>>
      /\ dir' = IF act = Nothing THEN Onward(dir)
                ELSE [dir EXCEPT !.at = "audit", !.act = act, !.call = Nothing]
      /\ acked' = IF dir'.at = "idle" THEN [acked EXCEPT !.system = dir.msg] ELSE acked
  BY DEF Hear, Proceed
<1>2. MindIs(dir) /\ DOMAIN dir = Memory /\ dir.aim \in {"season", "arc", "drama"}
  BY <1>1 DEF StageOK, TypesOK, MindIs, Acts, Talking, Plans
<1>3. Aimed("drama", rule, dir.tick)
  <2>1. IsDrama(rule, dir.tick)
    BY <1>2, RulesAct DEF MindIs
  <2> HIDE DEF rule
  <2>2. QED
    BY <2>1 DEF IsDrama, Aimed, Plans
<1>4. proposed = Nothing \/ Aimed(dir.aim, proposed, dir.tick)
  <2>1. CASE dir.aim = "season"
    BY <2>1, PlansAim
  <2>2. CASE dir.aim = "arc"
    BY <2>2, PlansAim
  <2>3. CASE dir.aim = "drama"
    <3> DEFINE p == PlanAct(plan, dir.tension, Capped(dir.tools), dir.tick)
    <3>1. p = Nothing \/ IsDrama(p, dir.tick)
      BY PlansAct
    <3>2. proposed = Nothing \/ proposed = p
      BY <2>3
    <3> HIDE DEF p, proposed
    <3>3. QED
      BY <2>3, <3>1, <3>2 DEF IsDrama, Aimed, Plans
  <2>4. QED
    BY <1>2, <2>1, <2>2, <2>3
<1> HIDE DEF proposed, rule
<1>5. act = Nothing \/ Aimed(dir.aim, act, dir.tick)
  BY <1>3, <1>4
<1> HIDE DEF act
<1>6. PICK d : dir' = d
  OBVIOUS
<1>7. CASE act = Nothing
  <2>1. d = Onward(dir) /\ dir.at \in Talking /\ dir.aim \in Plans \cup {"drama"}
    BY <1>1, <1>2, <1>6, <1>7 DEF Talking, Plans
  <2>2. /\ Knows(dir, d) /\ d.at \in {"idle", "arcs", "judge"}
        /\ d.at = "idle" \/ d.msg = dir.msg
        /\ Planner(d) => Planner(dir)
        /\ ~Seasoner(d) /\ ~Player(d) /\ Acts(d)
    BY <1>2, <2>1, OnwardKnows
  <2>3. QED
    BY <1>1, <1>6, <2>2, KnowingStage
<1>8. CASE act # Nothing
  <2>1. d = [dir EXCEPT !.at = "audit", !.act = act, !.call = Nothing]
    BY <1>1, <1>6, <1>8
  <2>2. /\ DOMAIN d = Memory /\ d.recent = dir.recent /\ d.tick = dir.tick /\ d.most = dir.most
        /\ d.day = dir.day /\ d.total = dir.total /\ d.msg = dir.msg /\ d.at = "audit"
        /\ d.aim = dir.aim /\ d.act = act
    BY <1>2, <2>1 DEF Memory, Blank
  <2>3. Knows(dir, d)
    BY <1>2, <2>2 DEF Knows, MindIs
  <2>4. Acts(d)
    BY <1>2, <1>5, <1>8, <2>2 DEF Acts, Aimed, Plans
  <2>5. /\ Planner(d) => Planner(dir)
        /\ Seasoner(d) => Seasoner(dir)
        /\ Player(d) => Player(dir)
    BY <1>1, <2>2 DEF Planner, Seasoner, Player, Talking
  <2>6. Player(d) => Len(d.recent) < d.most
    BY <2>2, <2>5 DEF StageOK, BudgetOK
  <2>7. QED
    BY <1>1, <1>6, <2>2, <2>3, <2>4, <2>5, <2>6, KnowingStage
<1>9. QED
  BY <1>7, <1>8

LEMMA JudgeKeeps ==
  ASSUME StageOK, IsSeq(log), NEW c, Judge(c)
  PROVE  StageOK'
<1>1. /\ dir.at = "judge" /\ UNCHANGED <<log, script, fired>>
      /\ acked' = IF dir'.at = "idle" THEN [acked EXCEPT !.system = dir.msg] ELSE acked
  BY DEF Judge, Proceed, logVars
<1> DEFINE recent == Spent(dir.recent, dir.tick)
<1>2. PICK tension, hits : Judged(c, recent, tension, hits)
  BY JudgeChooses
<1> DEFINE judging == Judging(recent, tension, hits)
           act == RuleAct(tension, dir.total, LastKind, dir.tick)
<1>3. dir' = CASE ~Fireable -> Idle(judging)
               [] Fireable /\ Scene.ai -> [judging EXCEPT !.at = "asked", !.call = c]
               [] OTHER -> [judging EXCEPT !.at = "audit", !.act = act]
  BY <1>2 DEF Judged
<1>4. MindIs(dir) /\ DOMAIN dir = Memory /\ dir.tick \in Nat /\ IsTimes(dir.recent)
      /\ dir.most \in Int /\ dir.total \in Nat
  BY DEF StageOK, TypesOK, MindIs
<1>5. IsDrama(act, dir.tick)
  BY <1>4, RulesAct
<1>6. /\ IsTimes(recent)
      /\ \A t \in Int : t >= dir.tick - BudgetWindow =>
           Cardinality(Since(dir.recent, t)) <= Cardinality(Since(recent, t))
  BY <1>4, SpentKeeps
<1>7. Fireable => Len(recent) < dir.most
  <2> SUFFICES ASSUME Fireable PROVE Len(recent) < dir.most
    OBVIOUS
  <2>1. Remaining(dir.recent, dir.most, dir.tick) > 0
    BY DEF Fireable, IsFireable
  <2>2. Len(recent) \in Nat
    BY <1>6, SeqSize DEF IsTimes
  <2>3. Remaining(dir.recent, dir.most, dir.tick)
          = IF dir.most - Len(recent) < 0 THEN 0 ELSE dir.most - Len(recent)
    BY DEF Remaining
  <2> HIDE DEF recent
  <2>4. QED
    BY <1>4, <2>1, <2>2, <2>3
<1> HIDE DEF recent, act
<1>8. /\ DOMAIN judging = Memory /\ judging.recent = recent /\ judging.tick = dir.tick
      /\ judging.most = dir.most /\ judging.day = dir.day /\ judging.total = dir.total
      /\ judging.msg = dir.msg /\ judging.aim = "drama"
  BY <1>4 DEF Judging, Memory, Blank
<1> HIDE DEF judging
<1>9. MindIs(judging)
  BY <1>4, <1>6, <1>8 DEF StageOK, TypesOK, MindIs
<1>10. PICK d : dir' = d
  OBVIOUS
<1> DEFINE Kept == /\ MindIs(d) /\ Acts(d) /\ d.at # "output" /\ d.tick = dir.tick /\ d.day = dir.day
                   /\ d.at = "idle" \/ d.msg = dir.msg
                   /\ ~Planner(d) /\ ~Seasoner(d) /\ d.recent = recent
                   /\ Player(d) => Len(d.recent) < d.most
<1>11. ASSUME ~Fireable PROVE Kept
  <2>1. d = Idle(judging)
    BY <1>3, <1>10, <1>11
  <2>2. Knows(judging, d) /\ d.at = "idle"
    BY <1>9, <2>1, IdleKnows
  <2>3. QED
    BY <1>8, <2>2 DEF Knows, Acts, Planner, Seasoner, Player, Talking
<1>12. ASSUME Fireable, Scene.ai PROVE Kept
  <2>1. d = [judging EXCEPT !.at = "asked", !.call = c]
    BY <1>3, <1>10, <1>12
  <2>2. /\ DOMAIN d = Memory /\ d.recent = recent /\ d.tick = dir.tick /\ d.most = dir.most
        /\ d.day = dir.day /\ d.total = dir.total /\ d.msg = dir.msg /\ d.aim = "drama"
        /\ d.at = "asked"
    BY <1>8, <2>1 DEF Memory, Blank
  <2>3. MindIs(d)
    BY <1>6, <1>8, <1>9, <2>2 DEF MindIs
  <2>4. Acts(d) /\ ~Planner(d) /\ ~Seasoner(d)
    BY <2>2 DEF Acts, Planner, Seasoner, Talking, Plans
  <2>5. QED
    BY <1>7, <1>12, <2>2, <2>3, <2>4
<1>13. ASSUME Fireable, ~Scene.ai PROVE Kept
  <2>1. d = [judging EXCEPT !.at = "audit", !.act = act]
    BY <1>3, <1>10, <1>13
  <2>2. /\ DOMAIN d = Memory /\ d.recent = recent /\ d.tick = dir.tick /\ d.most = dir.most
        /\ d.day = dir.day /\ d.total = dir.total /\ d.msg = dir.msg /\ d.aim = "drama"
        /\ d.at = "audit" /\ d.act = act
    BY <1>8, <2>1 DEF Memory, Blank
  <2>3. MindIs(d)
    BY <1>6, <1>8, <1>9, <2>2 DEF MindIs
  <2>4. Acts(d) /\ ~Planner(d) /\ ~Seasoner(d)
    BY <1>5, <2>2 DEF Acts, Planner, Seasoner, Talking, Plans, IsDrama
  <2>5. QED
    BY <1>7, <1>13, <2>2, <2>3, <2>4
<1>14. Kept
  BY <1>11, <1>12, <1>13
<1> DEFINE a == IF d.at = "idle" THEN [acked EXCEPT !.system = dir.msg] ELSE acked
<1>15. acked \in [{"observe", "gravity", "system"} -> Nat] /\ dir.msg \in Nat /\ dir.at # "idle"
  BY <1>1, SeqSize DEF StageOK, TypesOK, TicksOK, Of, Ids
<1>16. a \in [{"observe", "gravity", "system"} -> Nat]
       /\ (a.system >= acked.system \/ (dir.at # "idle" /\ a.system = dir.msg))
  BY <1>15
<1>17. acked' = a
  BY <1>1, <1>10
<1> HIDE DEF a
<1>18. \A t \in Int : t >= dir.tick - BudgetWindow =>
         Cardinality(Since(dir.recent, t)) <= Cardinality(Since(d.recent, t))
  BY <1>6, <1>14
<1>19. QED
  BY <1>1, <1>10, <1>14, <1>15, <1>16, <1>17, <1>18, SameStage

LEMMA CrashKeeps ==
  ASSUME StageOK, IsSeq(log), DirectorCrash
  PROVE  StageOK'
<1>1. UNCHANGED <<log, script, fired, acked>> /\ dir' = Restored
  BY DEF DirectorCrash
<1>2. PICK d : d = Restored
  OBVIOUS
<1>3. PICK a : a = acked
  OBVIOUS
<1>4. /\ MindIs(d) /\ d.at = "idle" /\ d.tick = 0
      /\ d.day = IF PlanDays = {} THEN -1 ELSE Latest(PlanDays)
      /\ \A t \in Int : Cardinality(AuditedSince(t)) <= Cardinality(Since(d.recent, t))
  BY <1>2, RestoredMind DEF StageOK
<1>5. Acts(d) /\ ~Planner(d) /\ ~Seasoner(d) /\ ~Player(d)
  BY <1>4 DEF Acts, Planner, Seasoner, Player, Talking
<1>6. Fits(d, a)
  <2>1. \A j \in Of({"ticked"}) : log[j].tick >= d.tick
    <3>1. \A j \in Of({"ticked"}) : log[j].tick \in Nat
      BY DEF StageOK, TypesOK, Of
    <3>2. QED
      BY <1>4, <3>1
  <2>2. \A n \in 1..Len(script) : script[n].type = "ticked" => d.tick <= script[n].tick
    <3>1. \A n \in 1..Len(script) : script[n].type = "ticked" => script[n].tick \in Nat
      BY DEF StageOK, TicksOK
    <3>2. QED
      BY <1>4, <3>1
  <2>3. a \in [{"observe", "gravity", "system"} -> Nat]
    BY <1>3 DEF StageOK, TypesOK
  <2>4. QED
    BY <1>4, <1>5, <2>1, <2>2, <2>3 DEF Fits
<1>7. Budgets(d)
  <2>1. ASSUME NEW t \in Int
        PROVE  Cardinality(FiredSince(t)) <= Cardinality(Since(d.recent, t))
    <3>1. Cardinality(FiredSince(t))
            + OneIf(dir.at = "output" /\ dir.aim = "drama" /\ dir.tick > t)
              <= Cardinality(AuditedSince(t))
      BY DEF StageOK, BudgetOK
    <3>3. Cardinality(FiredSince(t)) \in Nat
      BY FiredFinite DEF StageOK, TypesOK
    <3>4. Cardinality(AuditedSince(t)) \in Nat /\ Cardinality(Since(d.recent, t)) \in Nat
      BY <1>4, AuditedFinite, SinceSize DEF MindIs
    <3>5. Cardinality(AuditedSince(t)) <= Cardinality(Since(d.recent, t))
      BY <1>4
    <3>6. QED
      BY <3>1, <3>3, <3>4, <3>5 DEF OneIf
  <2>2. QED
    BY <1>5, <2>1 DEF Budgets
<1>8. PlansFor(d)
  <2>1. ASSUME NEW i \in Of({"audit"}), log[i].tool \in Plans
        PROVE  DayOf(log[i].tick) <= d.day
    <3>1. DayOf(log[i].tick) \in PlanDays
      BY <2>1 DEF PlanDays, DayOf
    <3>2. \A j \in Of({"audit"}) : log[j].tick \in Nat
      BY DEF StageOK, TypesOK, Of
    <3>3. PlanDays # {}
      BY <3>1
    <3>4. QED
      BY <1>4, <3>1, <3>2, <3>3, LastPlanDay
  <2>2. QED
    BY <1>5, <2>1 DEF PlansFor
<1>9. QED
  BY <1>1, <1>2, <1>3, <1>6, <1>7, <1>8, QuietStage

LEMMA CloseTickKeeps ==
  ASSUME StageOK, IsSeq(log), CloseTick
  PROVE  StageOK'
<1> DEFINE S == Pending(Controls, acked["system"])
           i == Earliest(S)
           day == DayOf(log[i].tick)
           closed == Closed(dir, i)
<1>1. /\ dir.at = "idle" /\ UNCHANGED <<log, script, acked, fired>>
      /\ S # {} /\ log[i].type = "ticked"
  BY DEF CloseTick, Waiting, Next_
<1>2. S \subseteq Nat /\ S \subseteq Ids /\ \A j \in S : j > acked.system
  BY SeqSize DEF Pending, Of, Ids
<1>3. \/ day <= dir.day /\ dir' = [closed EXCEPT !.at = "judge"]
      \/ ~(day <= dir.day) /\ dir' = [Reviewed(closed) EXCEPT !.day = day, !.at = "season"]
      \/ ~(day <= dir.day) /\ dir' = [closed EXCEPT !.day = day, !.at = "season"]
  BY DEF CloseTick, DayOf, Next_
<1> HIDE DEF S
<1>4. i \in Ids /\ i > acked.system /\ \A j \in S : i <= j
  BY <1>1, <1>2, Earlier
<1>5. MindIs(dir) /\ DOMAIN dir = Memory /\ dir.tick \in Nat /\ dir.day \in Int
  BY DEF StageOK, TypesOK, MindIs
<1>6. i \in Of({"ticked"}) /\ log[i].tick \in Nat /\ log[i].tick >= dir.tick
  <2>1. i \in Of({"ticked"})
    BY <1>1, <1>4 DEF Of
  <2>2. QED
    BY <1>4, <2>1 DEF StageOK, TypesOK, TicksOK, Of
<1>7. day \in Nat
  BY <1>6, DayNumber
<1> HIDE DEF i, day
<1>8. /\ DOMAIN closed = Memory /\ closed.recent = dir.recent /\ closed.most = dir.most
      /\ closed.day = dir.day /\ closed.total = dir.total /\ closed.msg = i
      /\ closed.tick = log[i].tick
  <2> DEFINE window == LastOf(Append(dir.window, dir.sum), QuietWindow)
             quiet == IF Quiet(window) THEN dir.quiet + 1 ELSE 0
  <2>1. closed = [dir EXCEPT !.msg = i, !.tick = log[i].tick, !.window = window, !.sum = 0,
                             !.quiet = quiet]
    BY DEF Closed
  <2> HIDE DEF closed, window, quiet
  <2>2. QED
    BY <1>5, <2>1 DEF Memory, Blank
<1> DEFINE reviewed == Reviewed(closed)
<1>9. /\ DOMAIN reviewed = Memory /\ reviewed.recent = closed.recent /\ reviewed.most = closed.most
      /\ reviewed.total = closed.total /\ reviewed.msg = closed.msg /\ reviewed.tick = closed.tick
  <2> HIDE DEF closed
  <2> QED
    BY <1>8 DEF Reviewed, Memory, Blank
<1>10. PICK d : dir' = d
  OBVIOUS
<1>11. PICK a : a = acked
  OBVIOUS
<1> HIDE DEF reviewed, closed
<1>12. /\ DOMAIN d = Memory /\ d.recent = dir.recent /\ d.most = dir.most /\ d.total = dir.total
       /\ d.msg = i /\ d.tick = log[i].tick
       /\ \/ d.at = "judge" /\ d.day = dir.day
          \/ d.at = "season" /\ d.day = day /\ dir.day < day
  <2>1. CASE day <= dir.day /\ dir' = [closed EXCEPT !.at = "judge"]
    BY <1>8, <1>10, <2>1 DEF Memory, Blank
  <2>2. CASE ~(day <= dir.day) /\ dir' = [reviewed EXCEPT !.day = day, !.at = "season"]
    <3>1. dir.day < day
      BY <1>5, <1>7, <2>2
    <3>2. QED
      BY <1>8, <1>9, <1>10, <2>2, <3>1 DEF Memory, Blank
  <2>3. CASE ~(day <= dir.day) /\ dir' = [closed EXCEPT !.day = day, !.at = "season"]
    <3>1. dir.day < day
      BY <1>5, <1>7, <2>3
    <3>2. QED
      BY <1>8, <1>10, <2>3, <3>1 DEF Memory, Blank
  <2>4. QED
    BY <1>3, <2>1, <2>2, <2>3 DEF reviewed
<1>13. MindIs(d)
  BY <1>5, <1>6, <1>7, <1>12 DEF MindIs
<1>14. Acts(d) /\ ~Player(d)
  BY <1>12 DEF Acts, Player, Talking
<1>15. Fits(d, a)
  <2>1. ASSUME NEW j \in Of({"ticked"}), j > a.system PROVE log[j].tick >= d.tick
    <3>1. log[j].type = "ticked" /\ j \in Ids
      BY DEF Of
    <3>2. j \in S \/ j <= acked.system
      BY <1>11, <2>1, <3>1 DEF S, Pending, Of, Controls
    <3>3. j \in Nat /\ acked.system \in Nat
      BY <3>1, SeqSize DEF Ids, StageOK, TypesOK
    <3>4. i <= j
      BY <1>4, <1>11, <2>1, <3>2, <3>3
    <3>5. log[i].tick <= log[j].tick /\ log[j].tick \in Nat
      BY <1>6, <3>4 DEF StageOK, TypesOK, TicksOK, Of
    <3>6. QED
      BY <1>6, <1>12, <3>5
  <2>2. \A n \in 1..Len(script) : script[n].type = "ticked" => d.tick <= script[n].tick
    BY <1>6, <1>12 DEF StageOK, TicksOK
  <2>3. a \in [{"observe", "gravity", "system"} -> Nat]
    BY <1>11 DEF StageOK, TypesOK
  <2>4. QED
    BY <1>6, <1>12, <1>13, <1>14, <2>1, <2>2, <2>3 DEF Fits
<1>16. Budgets(d)
  <2>1. BudgetWindow \in Nat
    BY RulesAssumption
  <2>2. ASSUME NEW t \in Int, t >= d.tick - BudgetWindow
        PROVE  Cardinality(FiredSince(t)) <= Cardinality(Since(d.recent, t))
    <3>1. t >= dir.tick - BudgetWindow
      BY <1>5, <1>6, <1>12, <2>1, <2>2
    <3>2. QED
      BY <1>12, <3>1 DEF StageOK, BudgetOK
  <2>3. QED
    BY <1>14, <2>2 DEF Budgets
<1>17. PlansFor(d)
  <2>1. dir.day <= d.day /\ d.day \in Int
    BY <1>5, <1>7, <1>12
  <2>2. \A j \in Of({"audit"} \cup Plans) : DayOf(log[j].tick) \in Nat
    BY DayNumber DEF StageOK, TypesOK, Of, Outputs, Plans
  <2>3. \A j \in Of({"audit"}) : log[j].tool \in Plans => DayOf(log[j].tick) <= dir.day
    BY DEF StageOK, PlansOK
  <2>4. \A j \in Of({"audit"}) : log[j].tool \in Plans => DayOf(log[j].tick) <= d.day
    BY <1>5, <2>1, <2>2, <2>3 DEF Of
  <2>5. ASSUME NEW j \in Of(Plans) PROVE DayOf(log[j].tick) <= dir.day
    <3>1. PICK k \in Of({"audit"}) : log[k].tool \in Plans /\ DayOf(log[k].tick) = DayOf(log[j].tick)
      BY DEF StageOK, PlansOK
    <3>2. QED
      BY <2>3, <3>1
  <2>6. d.at = "season" => \A j \in Of(Plans) : DayOf(log[j].tick) < d.day
    BY <1>5, <1>7, <1>12, <2>2, <2>5 DEF Of
  <2>7. Of({"season"}) \subseteq Of(Plans) /\ Of({"arc"}) \subseteq Of(Plans)
    BY DEF Of, Plans
  <2>8. (Planner(d) \/ Seasoner(d)) => d.at = "season" /\ DayOf(d.tick) = d.day
    BY <1>12 DEF Planner, Seasoner, Talking, day
  <2>9. QED
    BY <2>4, <2>6, <2>7, <2>8 DEF PlansFor
<1>18. QED
  BY <1>1, <1>10, <1>11, <1>15, <1>16, <1>17, QuietStage

-----------------------------------------------------------------------------
(* One more entry.                                                           *)

LEMMA SetsGrow ==
  ASSUME IsSeq(log), NEW e, Grown(log, log', e)
  PROVE  /\ Len(log) \in Nat /\ Ids = 1..Len(log)
         /\ log'[Len(log) + 1] = e /\ \A i \in Ids : log'[i] = log[i]
         /\ \A types : /\ Of(types) \subseteq 1..Len(log)
                       /\ Of(types)' = Of(types)
                            \cup (IF e.type \in types THEN {Len(log) + 1} ELSE {})
<1> DEFINE N == Len(log)
<1>1. /\ N \in Nat /\ Ids = 1..N /\ Ids' = 1..(N + 1)
      /\ log'[N + 1] = e /\ \A i \in Ids : log'[i] = log[i]
  BY SeqSize DEF Grown, Ids
<1> HIDE DEF N
<1>2. ASSUME NEW types
      PROVE  /\ Of(types) \subseteq 1..N
             /\ Of(types)' = Of(types) \cup (IF e.type \in types THEN {N + 1} ELSE {})
  BY <1>1 DEF Of
<1>3. QED
  BY <1>1, <1>2 DEF N

LEMMA CountsGrow ==
  ASSUME IsSeq(log), NEW e, Grown(log, log', e), NEW t
  PROVE  /\ Cardinality(AuditedSince(t)) \in Nat
         /\ Cardinality(AuditedSince(t)') = Cardinality(AuditedSince(t))
              + OneIf(e.type = "audit" /\ e.tool \notin Plans /\ e.tick > t)
         /\ Cardinality(AuditsAt(t)) \in Nat
         /\ Cardinality(AuditsAt(t)') = Cardinality(AuditsAt(t)) + OneIf(e.type = "audit" /\ e.tick = t)
         /\ Cardinality(OutputsAt(t)) \in Nat
         /\ Cardinality(OutputsAt(t)') = Cardinality(OutputsAt(t)) + OneIf(e.type \in Outputs /\ e.tick = t)
<1> DEFINE N == Len(log)
           p == e.type = "audit" /\ e.tool \notin Plans /\ e.tick > t
           q == e.type = "audit" /\ e.tick = t
           r == e.type \in Outputs /\ e.tick = t
<1>1. /\ N \in Nat /\ Ids = 1..N /\ log'[N + 1] = e /\ \A i \in Ids : log'[i] = log[i]
      /\ \A types : /\ Of(types) \subseteq 1..N
                    /\ Of(types)' = Of(types) \cup (IF e.type \in types THEN {N + 1} ELSE {})
  BY SetsGrow
<1> HIDE DEF N
<1>2. /\ Of({"audit"})' = Of({"audit"}) \cup (IF e.type = "audit" THEN {N + 1} ELSE {})
      /\ Of(Outputs)' = Of(Outputs) \cup (IF e.type \in Outputs THEN {N + 1} ELSE {})
      /\ Of({"audit"}) \subseteq 1..N /\ Of(Outputs) \subseteq 1..N
  <2>1. Of({"audit"})' = Of({"audit"}) \cup (IF e.type \in {"audit"} THEN {N + 1} ELSE {})
    BY <1>1
  <2>2. QED
    BY <1>1, <2>1
<1>3. AuditedSince(t) \subseteq 1..N /\ AuditsAt(t) \subseteq 1..N /\ OutputsAt(t) \subseteq 1..N
  BY <1>2 DEF AuditedSince, AuditsAt, OutputsAt
<1>4. AuditedSince(t)' = AuditedSince(t) \cup (IF p THEN {N + 1} ELSE {})
  BY <1>1, <1>2 DEF AuditedSince
<1>5. AuditsAt(t)' = AuditsAt(t) \cup (IF q THEN {N + 1} ELSE {})
  BY <1>1, <1>2 DEF AuditsAt
<1>6. OutputsAt(t)' = OutputsAt(t) \cup (IF r THEN {N + 1} ELSE {})
  BY <1>1, <1>2 DEF OutputsAt
<1>7. p \in BOOLEAN /\ q \in BOOLEAN /\ r \in BOOLEAN
  OBVIOUS
<1> HIDE DEF p, q, r
<1>8. /\ Cardinality(AuditedSince(t)) \in Nat
      /\ Cardinality(AuditedSince(t)') = Cardinality(AuditedSince(t)) + OneIf(p)
  BY <1>1, <1>3, <1>4, <1>7, OneMoreCounted
<1>9. /\ Cardinality(AuditsAt(t)) \in Nat
      /\ Cardinality(AuditsAt(t)') = Cardinality(AuditsAt(t)) + OneIf(q)
  BY <1>1, <1>3, <1>5, <1>7, OneMoreCounted
<1>10. /\ Cardinality(OutputsAt(t)) \in Nat
       /\ Cardinality(OutputsAt(t)') = Cardinality(OutputsAt(t)) + OneIf(r)
  BY <1>1, <1>3, <1>6, <1>7, OneMoreCounted
<1>11. QED
  BY <1>8, <1>9, <1>10 DEF p, q, r

LEMMA AuditedFirstGrows ==
  ASSUME IsSeq(log), NEW e, Grown(log, log', e), AuditedFirst,
         e.type \in Outputs =>
           Cardinality(OutputsAt(e.tick)) + 1 <= Cardinality(AuditsAt(e.tick))
  PROVE  AuditedFirst'
<1> DEFINE N == Len(log)
<1>1. /\ N \in Nat /\ Ids = 1..N /\ log'[N + 1] = e /\ \A i \in Ids : log'[i] = log[i]
      /\ \A types : /\ Of(types) \subseteq 1..N
                    /\ Of(types)' = Of(types) \cup (IF e.type \in types THEN {N + 1} ELSE {})
  BY SetsGrow
<1>2. Cardinality(OutputsAt(e.tick)) \in Nat /\ Cardinality(AuditsAt(e.tick)) \in Nat
      /\ Cardinality(OutputsAt(e.tick)') = Cardinality(OutputsAt(e.tick))
           + OneIf(e.type \in Outputs /\ e.tick = e.tick)
  <2>1. PICK t : t = e.tick
    OBVIOUS
  <2>2. /\ Cardinality(OutputsAt(t)) \in Nat /\ Cardinality(AuditsAt(t)) \in Nat
        /\ Cardinality(OutputsAt(t)') = Cardinality(OutputsAt(t)) + OneIf(e.type \in Outputs /\ e.tick = t)
    BY CountsGrow
  <2>3. QED
    BY <2>1, <2>2
<1> HIDE DEF N
<1> DEFINE A == Of({"audit"})
           B == Of(Outputs)
           C == Of({"audit"})'
           D == Of(Outputs)'
<1>3. /\ A \subseteq 1..N /\ B \subseteq 1..N
      /\ C = A \cup (IF e.type \in {"audit"} THEN {N + 1} ELSE {})
      /\ D = B \cup (IF e.type \in Outputs THEN {N + 1} ELSE {})
  BY <1>1
<1>4. \A i \in B : Cardinality({j \in A : j < i /\ log[j].tick = log[i].tick})
                     >= Cardinality({j \in B : j <= i /\ log[j].tick = log[i].tick})
  BY DEF AuditedFirst
<1>5. AuditsAt(e.tick) = {j \in A : log[j].tick = e.tick}
      /\ OutputsAt(e.tick)' = {j \in D : log'[j].tick = e.tick}
  BY DEF AuditsAt, OutputsAt
<1> HIDE DEF A, B, C, D
<1>a. \A j \in A \cup B : j \in 1..N /\ log'[j] = log[j]
  BY <1>1, <1>3
<1>b. /\ \A j : j \in C <=> j \in A \/ (e.type \in {"audit"} /\ j = N + 1)
      /\ \A j : j \in D <=> j \in B \/ (e.type \in Outputs /\ j = N + 1)
  BY <1>3
<1>6. ASSUME NEW i \in D
      PROVE  Cardinality({j \in C : j < i /\ log'[j].tick = log'[i].tick})
               >= Cardinality({j \in D : j <= i /\ log'[j].tick = log'[i].tick})
  <2>1. CASE i \in B
    <3>1. i \in 1..N /\ log'[i] = log[i]
      BY <1>1, <1>3, <2>1
    <3>a. ~(N + 1 < i) /\ ~(N + 1 <= i)
      BY <1>1, <3>1
    <3>2. {j \in C : j < i /\ log'[j].tick = log'[i].tick}
            = {j \in A : j < i /\ log[j].tick = log[i].tick}
      BY <1>a, <1>b, <3>1, <3>a
    <3>3. {j \in D : j <= i /\ log'[j].tick = log'[i].tick}
            = {j \in B : j <= i /\ log[j].tick = log[i].tick}
      BY <1>a, <1>b, <3>1, <3>a
    <3>4. QED
      BY <1>4, <2>1, <3>2, <3>3
  <2>2. CASE i \notin B
    <3>1. i = N + 1 /\ e.type \in Outputs /\ log'[i] = e
      BY <1>1, <1>3, <2>2
    <3>a. (\A j \in A : j < i) /\ (\A j \in D : j <= i) /\ ~(i < i)
      BY <1>1, <1>a, <1>b, <3>1
    <3>b. e.type \notin {"audit"}
      BY <3>1 DEF Outputs
    <3>2. {j \in C : j < i /\ log'[j].tick = log'[i].tick} = AuditsAt(e.tick)
      BY <1>5, <1>a, <1>b, <3>1, <3>a, <3>b
    <3>3. {j \in D : j <= i /\ log'[j].tick = log'[i].tick} = OutputsAt(e.tick)'
      BY <1>5, <3>1, <3>a
    <3>4. Cardinality(OutputsAt(e.tick)') = Cardinality(OutputsAt(e.tick)) + 1
      BY <1>2, <3>1 DEF OneIf
    <3>5. QED
      BY <1>2, <3>1, <3>2, <3>3, <3>4
  <2>3. QED
    BY <2>1, <2>2
<1>7. QED
  BY <1>6 DEF AuditedFirst, C, D

LEMMA PlannedOnceGrows ==
  ASSUME IsSeq(log), NEW e, Grown(log, log', e), PlannedOnce,
         e.type \in Plans => \A i \in Of({e.type}) : DayOf(log[i].tick) # DayOf(e.tick)
  PROVE  PlannedOnce'
<1> DEFINE N == Len(log)
<1>1. /\ N \in Nat /\ Ids = 1..N /\ log'[N + 1] = e /\ \A i \in Ids : log'[i] = log[i]
      /\ Of(Plans) \subseteq 1..N
      /\ Of(Plans)' = Of(Plans) \cup (IF e.type \in Plans THEN {N + 1} ELSE {})
  BY SetsGrow
<1> HIDE DEF N
<1> DEFINE A == Of(Plans)
           B == Of(Plans)'
<1>2. \A i, j \in A : i # j /\ log[i].type = log[j].type => DayOf(log[i].tick) # DayOf(log[j].tick)
  BY DEF PlannedOnce, DayOf
<1>3. \A i \in A : log'[i] = log[i] /\ i # N + 1 /\ log[i].type \in Plans
                   /\ (log[i].type = e.type => DayOf(log[i].tick) # DayOf(e.tick))
  BY <1>1 DEF Of
<1>4. \A i \in B : i \in A \/ (i = N + 1 /\ log'[i] = e)
  BY <1>1
<1> HIDE DEF A, B
<1>5. \A i, j \in B : i # j /\ log'[i].type = log'[j].type => DayOf(log'[i].tick) # DayOf(log'[j].tick)
  BY <1>2, <1>3, <1>4
<1>6. QED
  BY <1>5 DEF PlannedOnce, DayOf, B

\* What is not the director's does not change what it has to keep to.
LEMMA StrangeEntry ==
  ASSUME StageOK, IsSeq(log), UNCHANGED directorVars, NEW e, Grown(log, log', e),
         e.type \notin Outputs \cup {"audit"}, e.type = "ticked" => e.tick \in Nat, TicksOK'
  PROVE  StageOK'
<1> DEFINE N == Len(log)
<1>1. /\ N \in Nat /\ Ids = 1..N /\ log'[N + 1] = e /\ \A i \in Ids : log'[i] = log[i]
      /\ \A types : /\ Of(types) \subseteq 1..N
                    /\ Of(types)' = Of(types) \cup (IF e.type \in types THEN {N + 1} ELSE {})
  BY SetsGrow
<1>2. /\ Of({"audit"})' = Of({"audit"}) /\ Of({"season"})' = Of({"season"})
      /\ Of({"arc"})' = Of({"arc"}) /\ Of(Plans)' = Of(Plans) /\ Of(Outputs)' = Of(Outputs)
  BY <1>1 DEF Outputs, Plans
<1>3. UNCHANGED <<dir, acked, fired>>
  BY DEF directorVars
<1> HIDE DEF N
<1>4. TypesOK'
  <2>1. MindIs(dir)' /\ Acts(dir)'
    BY <1>3 DEF StageOK, TypesOK, MindIs, Acts
  <2>2. \A i \in Of({"audit", "ticked"} \cup Outputs)' : log'[i].tick \in Nat
    <3> DEFINE S == {"audit", "ticked"} \cup Outputs
    <3>1. Of(S)' = Of(S) \cup (IF e.type \in S THEN {N + 1} ELSE {})
      BY <1>1
    <3>2. \A i \in Of(S) : i \in Ids /\ log[i].tick \in Nat
      BY DEF StageOK, TypesOK, Of
    <3>3. e.type \in S => e.tick \in Nat
      OBVIOUS
    <3> HIDE DEF S
    <3>4. \A i \in Of(S)' : log'[i].tick \in Nat
      BY <1>1, <3>1, <3>2, <3>3
    <3>5. QED
      BY <3>4 DEF S
  <2>3. \A i \in Of({"season"})' : log'[i].most \in Int
    BY <1>1, <1>2 DEF StageOK, TypesOK, Of
  <2>4. QED
    BY <1>3, <2>1, <2>2, <2>3 DEF StageOK, TypesOK
<1>5. BudgetOK'
  <2>1. \A t : Cardinality(AuditedSince(t)') = Cardinality(AuditedSince(t))
    <3> TAKE t
    <3>1. AuditedSince(t)' = AuditedSince(t)
      BY <1>1, <1>2 DEF AuditedSince, Of
    <3>2. QED
      BY <3>1
  <2>2. \A t : FiredSince(t)' = FiredSince(t)
    BY <1>3 DEF FiredSince
  <2>3. BudgetKept'
    BY <1>3 DEF StageOK, BudgetOK, BudgetKept
  <2>4. QED
    BY <1>3, <2>1, <2>2, <2>3 DEF StageOK, BudgetOK, Player
<1>6. PlansOK'
  <2>1. PlannedOnce'
    BY PlannedOnceGrows DEF StageOK, PlansOK, Outputs, Plans
  <2>2. \A i \in Of({"audit"}) \cup Of(Plans) \cup Of({"season"}) \cup Of({"arc"}) : log'[i] = log[i]
    BY <1>1 DEF Of
  <2>3. QED
    BY <1>2, <1>3, <2>1, <2>2 DEF StageOK, PlansOK, Planner, Seasoner
<1>7. AuditsOK'
  <2>1. AuditedFirst'
    BY AuditedFirstGrows DEF StageOK, AuditsOK
  <2>2. \A t : AuditsAt(t)' = AuditsAt(t) /\ OutputsAt(t)' = OutputsAt(t)
    BY <1>1, <1>2 DEF AuditsAt, OutputsAt, Of
  <2>3. QED
    BY <1>3, <2>1, <2>2 DEF StageOK, AuditsOK
<1>8. QED
  BY <1>4, <1>5, <1>6, <1>7 DEF StageOK

\* The ticks of the log are as before when the entry is none.
LEMMA TicksGrow ==
  ASSUME StageOK, IsSeq(log), NEW e, Grown(log, log', e), e.type # "ticked", script' = script,
         NEW d, dir' = d, NEW a \in [{"observe", "gravity", "system"} -> Nat], acked' = a,
         d.tick = dir.tick, d.at = "idle" \/ (dir.at # "idle" /\ d.msg = dir.msg),
         \/ a.system >= acked.system
         \/ dir.at # "idle" /\ a.system = dir.msg
  PROVE  TicksOK'
<1>1. Of({"ticked"})' = Of({"ticked"}) /\ \A j \in Of({"ticked"}) : log'[j] = log[j]
  <2>1. /\ Of({"ticked"})' = Of({"ticked"})
             \cup (IF e.type \in {"ticked"} THEN {Len(log) + 1} ELSE {})
        /\ \A i \in Ids : log'[i] = log[i]
    BY SetsGrow
  <2>2. QED
    BY <2>1 DEF Of
<1>2. \A j \in Of({"ticked"}) : j > a.system => log[j].tick >= dir.tick
  BY LaterTicks DEF StageOK
<1>3. QED
  BY <1>1, <1>2 DEF StageOK, TicksOK

LEMMA StrangersKeep ==
  ASSUME StageOK, IsSeq(log), UNCHANGED <<script, directorVars>>,
         \/ log' = log
         \/ \E e : Grown(log, log', e) /\ e.type \notin Outputs \cup {"audit", "ticked"}
  PROVE  StageOK'
<1>1. UNCHANGED <<dir, acked, fired>>
  BY DEF directorVars
<1>2. CASE log' = log
  <2>1. \A types : Of(types)' = Of(types)
    BY <1>1, <1>2, SetsStay
  <2>2. \A t : /\ FiredSince(t)' = FiredSince(t) /\ AuditedSince(t)' = AuditedSince(t)
               /\ AuditsAt(t)' = AuditsAt(t) /\ OutputsAt(t)' = OutputsAt(t)
    BY <1>1, <1>2, SetsStay
  <2>3. TypesOK'
    <3>1. MindIs(dir)' /\ Acts(dir)'
      BY <1>1 DEF StageOK, TypesOK, MindIs, Acts
    <3>2. QED
      BY <1>1, <1>2, <2>1, <3>1 DEF StageOK, TypesOK
  <2>4. TicksOK'
    BY <1>1, <1>2, <2>1 DEF StageOK, TicksOK
  <2>5. BudgetOK'
    <3>1. BudgetKept'
      BY <1>1, <1>2, PastStays DEF StageOK, BudgetOK
    <3>2. QED
      BY <1>1, <2>2, <3>1 DEF StageOK, BudgetOK, Player
  <2>6. PlansOK'
    <3>1. PlannedOnce'
      BY <1>1, <1>2, PastStays DEF StageOK, PlansOK
    <3>2. QED
      BY <1>1, <1>2, <2>1, <3>1 DEF StageOK, PlansOK, Planner, Seasoner
  <2>7. AuditsOK'
    <3>1. AuditedFirst'
      BY <1>1, <1>2, PastStays DEF StageOK, AuditsOK
    <3>2. QED
      BY <1>1, <2>2, <3>1 DEF StageOK, AuditsOK
  <2>8. QED
    BY <2>3, <2>4, <2>5, <2>6, <2>7 DEF StageOK
<1>3. ASSUME NEW e, Grown(log, log', e), e.type \notin Outputs \cup {"audit", "ticked"}
      PROVE  StageOK'
  <2>1. PICK d : dir' = d
    OBVIOUS
  <2>2. PICK a : acked' = a
    OBVIOUS
  <2>3. a \in [{"observe", "gravity", "system"} -> Nat] /\ a.system >= acked.system
    BY <1>1, <2>2 DEF StageOK, TypesOK
  <2>4. d.tick = dir.tick /\ (d.at = "idle" \/ (dir.at # "idle" /\ d.msg = dir.msg))
    BY <1>1, <2>1
  <2>5. TicksOK'
    BY <1>3, <2>1, <2>2, <2>3, <2>4, TicksGrow
  <2>6. QED
    BY <1>3, <2>5, StrangeEntry
<1>4. QED
  BY <1>2, <1>3

LEMMA WorldKeeps ==
  ASSUME StageOK, LogOK, World
  PROVE  StageOK'
<1> DEFINE e == script[1]
<1>1. /\ IsSeq(log) /\ IsSeq(script) /\ Len(script) \in Nat
      /\ script # <<>> /\ Write(<<Head(script)>>) /\ script' = Tail(script)
      /\ UNCHANGED directorVars
  BY SeqSize DEF World, WorldWrites, LogOK
<1>2. /\ Head(script) = script[1] /\ Len(script) \in Nat \ {0}
      /\ IsSeq(script') /\ Len(script') = Len(script) - 1
      /\ \A n \in 1..(Len(script) - 1) : script'[n] = script[n + 1]
  BY <1>1, Shrinks
<1>3. Grown(log, log', e)
  BY <1>1, <1>2, WriteOne
<1>4. UNCHANGED <<dir, acked, fired>>
  BY <1>1 DEF directorVars
<1>5. 1 \in 1..Len(script)
  BY <1>2
<1>6. /\ e.type \notin Outputs \cup {"audit"}
      /\ e.type = "ticked" =>
           /\ e.tick \in Nat /\ dir.tick <= e.tick
           /\ \A i \in Of({"ticked"}) : log[i].tick <= e.tick
  BY <1>5 DEF StageOK, TicksOK
<1>7. /\ Len(log) \in Nat /\ log'[Len(log) + 1] = e /\ \A i \in Ids : log'[i] = log[i]
      /\ Of({"ticked"}) \subseteq 1..Len(log)
      /\ Of({"ticked"})' = Of({"ticked"}) \cup (IF e.type = "ticked" THEN {Len(log) + 1} ELSE {})
  <2>1. Of({"ticked"})' = Of({"ticked"}) \cup (IF e.type \in {"ticked"} THEN {Len(log) + 1} ELSE {})
    BY <1>1, <1>3, SetsGrow
  <2>2. QED
    BY <1>1, <1>3, <2>1, SetsGrow
<1> DEFINE A == Of({"ticked"})
           B == Of({"ticked"})'
           N == Len(log)
<1>8. /\ \A j \in A : j \in 1..N /\ log'[j] = log[j] /\ log[j].tick \in Nat
      /\ \A j : j \in B <=> (j \in A \/ (e.type = "ticked" /\ j = N + 1))
  <2>1. \A j \in A : j \in Ids /\ log[j].tick \in Nat
    BY DEF StageOK, TypesOK, Of
  <2>2. QED
    BY <1>7, <2>1
<1> HIDE DEF A, B, N, e
<1>9. \A i, j \in A : i <= j => log[i].tick <= log[j].tick
  BY DEF StageOK, TicksOK, A
<1>10. \A i, j \in B : i <= j => log'[i].tick <= log'[j].tick
  <2> SUFFICES ASSUME NEW i \in B, NEW j \in B, i <= j PROVE log'[i].tick <= log'[j].tick
    OBVIOUS
  <2>1. CASE i \in A /\ j \in A
    BY <1>8, <1>9, <2>1
  <2>2. CASE i \in A /\ j \notin A
    BY <1>6, <1>7, <1>8, <2>2 DEF A, N
  <2>3. CASE i \notin A
    <3>1. i = N + 1 /\ j = N + 1 /\ log'[j] = e /\ e.type = "ticked"
      BY <1>7, <1>8, <2>3 DEF N
    <3>2. QED
      BY <1>6, <3>1
  <2>4. QED
    BY <2>1, <2>2, <2>3
<1>11. ASSUME NEW j \in B, j > acked'.system PROVE log'[j].tick >= dir'.tick
  <2>1. CASE j \in A
    BY <1>4, <1>8, <1>11, <2>1 DEF StageOK, TicksOK, A
  <2>2. CASE j \notin A
    BY <1>4, <1>6, <1>7, <1>8, <2>2 DEF N, StageOK, TypesOK, MindIs
  <2>3. QED
    BY <2>1, <2>2
<1>12. dir'.at # "idle" => dir'.msg \in B /\ log'[dir'.msg].tick = dir'.tick
  BY <1>4, <1>8 DEF StageOK, TicksOK, A
<1>13. ASSUME NEW n \in 1..Len(script')
       PROVE  /\ script'[n].type \notin Outputs \cup {"audit"}
              /\ script'[n].type = "ticked" =>
                   /\ script'[n].tick \in Nat /\ dir'.tick <= script'[n].tick
                   /\ \A i \in B : log'[i].tick <= script'[n].tick
                   /\ \A m \in 1..(n - 1) :
                        script'[m].type = "ticked" => script'[m].tick <= script'[n].tick
  <2>1. n \in 1..(Len(script) - 1) /\ n + 1 \in 1..Len(script) /\ script'[n] = script[n + 1]
    BY <1>2
  <2> DEFINE q == script[n + 1]
  <2>2. /\ q.type \notin Outputs \cup {"audit"}
        /\ q.type = "ticked" =>
             /\ q.tick \in Nat /\ dir.tick <= q.tick
             /\ \A i \in A : log[i].tick <= q.tick
             /\ \A m \in 1..((n + 1) - 1) : script[m].type = "ticked" => script[m].tick <= q.tick
    BY <2>1 DEF StageOK, TicksOK, A
  <2>3. ASSUME q.type = "ticked", NEW i \in B PROVE log'[i].tick <= q.tick
    <3>1. CASE i \in A
      BY <1>8, <2>2, <2>3, <3>1
    <3>2. CASE i \notin A
      <4>1. log'[i] = e /\ e.type = "ticked"
        BY <1>7, <1>8, <2>3, <3>2 DEF N
      <4>2. 1 \in 1..((n + 1) - 1)
        BY <2>1
      <4>3. QED
        BY <2>2, <2>3, <4>1, <4>2 DEF e
    <3>3. QED
      BY <3>1, <3>2
  <2>4. ASSUME q.type = "ticked", NEW m \in 1..(n - 1), script'[m].type = "ticked"
        PROVE  script'[m].tick <= q.tick
    <3>1. m \in 1..(Len(script) - 1) /\ m + 1 \in 1..((n + 1) - 1) /\ script'[m] = script[m + 1]
      BY <1>2, <2>1
    <3>2. QED
      BY <2>2, <2>4, <3>1
  <2>5. script'[n] = q
    BY <2>1
  <2> HIDE DEF q
  <2>6. QED
    BY <1>4, <2>2, <2>3, <2>4, <2>5
<1>14. TicksOK'
  BY <1>10, <1>11, <1>12, <1>13 DEF TicksOK, B
<1>15. QED
  BY <1>1, <1>3, <1>6, <1>14, StrangeEntry

-----------------------------------------------------------------------------
(* What the director writes: first the audit, then what it announces.        *)

LEMMA AppendAuditKeeps ==
  ASSUME StageOK, IsSeq(log), AppendAudit
  PROVE  StageOK'
<1> DEFINE e == [type |-> "audit", tool |-> dir.act.tool, selector |-> dir.act.selector,
                 kind |-> KindOf(dir.act), tick |-> dir.tick]
           N == Len(log)
<1>1. /\ dir.at = "audit" /\ Write(<<e>>) /\ UNCHANGED <<script, acked, fired>>
      /\ dir' = [dir EXCEPT !.at = "output", !.call = N + 1]
  BY DEF AppendAudit
<1>2. e.type = "audit" /\ e.tool = dir.act.tool /\ e.tick = dir.tick
  OBVIOUS
<1> HIDE DEF e
<1>3. Grown(log, log', e)
  BY <1>1, WriteOne
<1>4. PICK d : dir' = d
  OBVIOUS
<1>5. PICK a : acked' = a
  OBVIOUS
<1>6. MindIs(dir) /\ DOMAIN dir = Memory /\ Acts(dir) /\ dir.at \in Talking
  BY <1>1 DEF StageOK, TypesOK, MindIs, Talking
<1>7. /\ DOMAIN d = Memory /\ d.recent = dir.recent /\ d.tick = dir.tick /\ d.most = dir.most
      /\ d.day = dir.day /\ d.total = dir.total /\ d.msg = dir.msg /\ d.aim = dir.aim
      /\ d.act = dir.act /\ d.at = "output"
  <2>1. d = [dir EXCEPT !.at = "output", !.call = N + 1]
    BY <1>1, <1>4
  <2> HIDE DEF N
  <2>2. QED
    BY <1>6, <2>1 DEF Memory, Blank
<1>8. /\ MindIs(d) /\ Acts(d) /\ dir.aim \in Plans \cup {"drama"}
      /\ (Planner(d) <=> Planner(dir)) /\ (Seasoner(d) <=> Seasoner(dir))
      /\ (Player(d) <=> Player(dir)) /\ (Planner(dir) <=> dir.aim \in Plans)
  <2>1. MindIs(d)
    BY <1>6, <1>7 DEF MindIs
  <2>2. Acts(d) /\ dir.aim \in Plans \cup {"drama"}
    BY <1>1, <1>6, <1>7 DEF Acts, Talking
  <2>3. QED
    BY <1>1, <1>7, <2>1, <2>2 DEF Planner, Seasoner, Player, Talking
<1>9. /\ dir.aim \in Plans => e.tool \in Plans
      /\ dir.aim = "drama" => e.tool \notin Plans
  BY <1>1, <1>2, <1>6 DEF Acts
<1>10. /\ N \in Nat /\ Ids = 1..N /\ log'[N + 1] = e /\ \A i \in Ids : log'[i] = log[i]
       /\ \A types : /\ Of(types) \subseteq 1..N
                     /\ Of(types)' = Of(types) \cup (IF e.type \in types THEN {N + 1} ELSE {})
  BY <1>3, SetsGrow
<1> HIDE DEF N
<1>11. /\ Of({"audit"})' = Of({"audit"}) \cup {N + 1} /\ Of({"season"})' = Of({"season"})
       /\ Of({"arc"})' = Of({"arc"}) /\ Of(Plans)' = Of(Plans)
  <2>1. e.type \in {"audit"} /\ e.type \notin {"season"} /\ e.type \notin {"arc"} /\ e.type \notin Plans
    BY <1>2 DEF Plans
  <2>2. QED
    BY <1>10, <2>1
<1>12. dir.tick \in Nat /\ acked \in [{"observe", "gravity", "system"} -> Nat]
  BY <1>6 DEF StageOK, TypesOK, MindIs
<1>13. TypesOK'
  <2>1. MindIs(d)' /\ Acts(d)'
    BY <1>8 DEF MindIs, Acts
  <2>2. MindIs(dir)' /\ Acts(dir)'
    BY <1>4, <1>8 DEF MindIs, Acts
  <2>3. \A i \in Of({"audit", "ticked"} \cup Outputs)' : log'[i].tick \in Nat
    <3> DEFINE S == {"audit", "ticked"} \cup Outputs
    <3>1. Of(S)' = Of(S) \cup {N + 1}
      BY <1>2, <1>10
    <3>2. \A i \in Of(S) : i \in Ids /\ log[i].tick \in Nat
      BY DEF StageOK, TypesOK, Of
    <3> HIDE DEF S
    <3>3. \A i \in Of(S)' : log'[i].tick \in Nat
      BY <1>2, <1>10, <1>12, <3>1, <3>2
    <3>4. QED
      BY <3>3 DEF S
  <2>4. \A i \in Of({"season"})' : log'[i].most \in Int
    BY <1>10, <1>11 DEF StageOK, TypesOK, Of
  <2>5. QED
    BY <1>1, <2>2, <2>3, <2>4 DEF StageOK, TypesOK
<1>14. TicksOK'
  <2>1. a \in [{"observe", "gravity", "system"} -> Nat] /\ a.system >= acked.system
    BY <1>1, <1>5, <1>12
  <2>2. e.type # "ticked" /\ script' = script /\ d.tick = dir.tick /\ dir.at # "idle" /\ d.msg = dir.msg
    BY <1>1, <1>2, <1>7
  <2>3. QED
    BY <1>3, <1>4, <1>5, <2>1, <2>2, TicksGrow
<1>15. BudgetOK'
  <2>1. \A t : FiredSince(t)' = FiredSince(t)
    BY <1>1 DEF FiredSince
  <2>2. ASSUME NEW t \in Int
        PROVE  Cardinality(FiredSince(t)') + OneIf(d.at = "output" /\ d.aim = "drama" /\ d.tick > t)
                 <= Cardinality(AuditedSince(t)')
    <3>1. Cardinality(FiredSince(t))
            + OneIf(dir.at = "output" /\ dir.aim = "drama" /\ dir.tick > t)
              <= Cardinality(AuditedSince(t))
      BY DEF StageOK, BudgetOK
    <3>3. Cardinality(FiredSince(t)) \in Nat
      BY FiredFinite DEF StageOK, TypesOK
    <3>4. /\ Cardinality(AuditedSince(t)) \in Nat
          /\ Cardinality(AuditedSince(t)') = Cardinality(AuditedSince(t))
               + OneIf(e.type = "audit" /\ e.tool \notin Plans /\ e.tick > t)
      BY <1>3, CountsGrow
    <3>5. OneIf(dir.at = "output" /\ dir.aim = "drama" /\ dir.tick > t) = 0
      BY <1>1 DEF OneIf
    <3>6. (d.at = "output" /\ d.aim = "drama" /\ d.tick > t)
            <=> (e.type = "audit" /\ e.tool \notin Plans /\ e.tick > t)
      BY <1>2, <1>7, <1>8, <1>9 DEF Plans
    <3>7. OneIf(d.at = "output" /\ d.aim = "drama" /\ d.tick > t)
            = OneIf(e.type = "audit" /\ e.tool \notin Plans /\ e.tick > t)
          /\ OneIf(d.at = "output" /\ d.aim = "drama" /\ d.tick > t) \in {0, 1}
      BY <3>6 DEF OneIf
    <3>8. Cardinality(FiredSince(t)') = Cardinality(FiredSince(t))
      BY <2>1
    <3>9. QED
      BY <3>1, <3>3, <3>4, <3>5, <3>7, <3>8
  <2>3. ASSUME NEW t \in Int, t >= d.tick - BudgetWindow
        PROVE  Cardinality(FiredSince(t)') <= Cardinality(Since(d.recent, t))
    <3>1. Cardinality(FiredSince(t)') = Cardinality(FiredSince(t))
      BY <2>1
    <3>2. QED
      BY <1>7, <2>3, <3>1 DEF StageOK, BudgetOK
  <2>4. Player(d) => Len(d.recent) < d.most
    BY <1>7, <1>8 DEF StageOK, BudgetOK
  <2>5. BudgetKept'
    BY <1>1 DEF StageOK, BudgetOK, BudgetKept
  <2>6. QED
    BY <1>4, <2>2, <2>3, <2>4, <2>5 DEF BudgetOK, Player
<1>16. PlansOK'
  <2>1. /\ \A i \in Of({"audit"}) : /\ i \in Ids /\ log'[i] = log[i]
                                    /\ log[i].tool \in Plans => DayOf(log[i].tick) <= d.day
        /\ \A i \in Of(Plans) : log'[i] = log[i] /\ i \in Ids
        /\ \A i \in Of({"season"}) : log'[i] = log[i] /\ i \in Ids
        /\ \A i \in Of({"arc"}) : log'[i] = log[i] /\ i \in Ids
    BY <1>7, <1>10 DEF Of, StageOK, PlansOK
  <2>2. Planner(d) => DayOf(d.tick) = d.day
    BY <1>7, <1>8 DEF StageOK, PlansOK
  <2>3. e.tool \in Plans => DayOf(e.tick) = d.day /\ DayOf(e.tick) <= d.day
    <3>1. DayOf(dir.tick) \in Nat
      BY <1>12, DayNumber
    <3>2. e.tool \in Plans => dir.aim \in Plans
      BY <1>8, <1>9
    <3>3. QED
      BY <1>2, <1>7, <1>8, <2>2, <3>1, <3>2
  <2>4. \A i \in Of({"audit"})' : log'[i].tool \in Plans => DayOf(log'[i].tick) <= d.day
    BY <1>10, <1>11, <2>1, <2>3
  <2>5. \A i \in Of(Plans)' :
          \E j \in Of({"audit"})' : log'[j].tool \in Plans /\ DayOf(log'[j].tick) = DayOf(log'[i].tick)
    <3>1. ASSUME NEW i \in Of(Plans)
          PROVE  \E j \in Of({"audit"})' : log'[j].tool \in Plans /\ DayOf(log'[j].tick) = DayOf(log'[i].tick)
      <4>1. PICK j \in Of({"audit"}) : log[j].tool \in Plans /\ DayOf(log[j].tick) = DayOf(log[i].tick)
        BY DEF StageOK, PlansOK
      <4>2. QED
        BY <1>11, <2>1, <4>1
    <3>2. QED
      BY <1>11, <3>1
  <2>6. Planner(d) =>
          \E j \in Of({"audit"})' : log'[j].tool \in Plans /\ DayOf(log'[j].tick) = d.day
    <3>1. Planner(d) => e.tool \in Plans
      BY <1>8, <1>9
    <3>2. QED
      BY <1>10, <1>11, <2>3, <3>1
  <2>7. Seasoner(d) => \A i \in Of({"season"})' : DayOf(log'[i].tick) < d.day
    BY <1>7, <1>8, <1>11, <2>1 DEF StageOK, PlansOK
  <2>8. Planner(d) => \A i \in Of({"arc"})' : DayOf(log'[i].tick) < d.day
    BY <1>7, <1>8, <1>11, <2>1 DEF StageOK, PlansOK
  <2>9. PlannedOnce'
    <3>1. e.type \notin Plans
      BY <1>2 DEF Plans
    <3>2. QED
      BY <1>3, <3>1, PlannedOnceGrows DEF StageOK, PlansOK
  <2>10. QED
    BY <1>4, <2>2, <2>4, <2>5, <2>6, <2>7, <2>8, <2>9 DEF PlansOK, Planner, Seasoner
<1>17. AuditsOK'
  <2>1. e.type \notin Outputs
    BY <1>2 DEF Outputs
  <2>2. AuditedFirst'
    BY <1>3, <2>1, AuditedFirstGrows DEF StageOK, AuditsOK
  <2>3. ASSUME NEW t \in Nat
        PROVE  Cardinality(OutputsAt(t)') + OneIf(d.at = "output" /\ d.tick = t)
                 <= Cardinality(AuditsAt(t)')
    <3>1. Cardinality(OutputsAt(t)) + OneIf(dir.at = "output" /\ dir.tick = t)
            <= Cardinality(AuditsAt(t))
      BY DEF StageOK, AuditsOK
    <3>2. /\ Cardinality(AuditsAt(t)) \in Nat
          /\ Cardinality(AuditsAt(t)') = Cardinality(AuditsAt(t)) + OneIf(e.type = "audit" /\ e.tick = t)
          /\ Cardinality(OutputsAt(t)) \in Nat
          /\ Cardinality(OutputsAt(t)') = Cardinality(OutputsAt(t)) + OneIf(e.type \in Outputs /\ e.tick = t)
      BY <1>3, CountsGrow
    <3>3. OneIf(dir.at = "output" /\ dir.tick = t) = 0 /\ OneIf(e.type \in Outputs /\ e.tick = t) = 0
      BY <1>1, <2>1 DEF OneIf
    <3>4. OneIf(d.at = "output" /\ d.tick = t) = OneIf(e.type = "audit" /\ e.tick = t)
          /\ OneIf(d.at = "output" /\ d.tick = t) \in {0, 1}
      BY <1>2, <1>7 DEF OneIf
    <3>5. QED
      BY <3>1, <3>2, <3>3, <3>4
  <2>4. QED
    BY <1>4, <2>2, <2>3 DEF AuditsOK
<1>18. QED
  BY <1>13, <1>14, <1>15, <1>16, <1>17 DEF StageOK

\* One more is on stage, with room for it in the memory it is remembered in.
LEMMA FiredGrows ==
  ASSUME BudgetKept, BudgetWindow \in Nat,
         IsSeq(fired), \A n \in DOMAIN fired : fired[n].tick \in Nat /\ fired[n].most \in Int,
         NEW f, f.tick \in Nat, f.most \in Int, fired' = Append(fired, f),
         NEW k \in Nat, k < f.most, \A t \in Int : t >= f.tick - BudgetWindow => Cardinality(FiredSince(t)) <= k
  PROVE  /\ IsSeq(fired') /\ \A n \in DOMAIN fired' : fired'[n].tick \in Nat /\ fired'[n].most \in Int
         /\ \A t \in Int : /\ Cardinality(FiredSince(t)) \in Nat
                           /\ Cardinality(FiredSince(t)') = Cardinality(FiredSince(t)) + OneIf(f.tick > t)
         /\ BudgetKept'
<1> DEFINE L == Len(fired)
           g == Append(fired, f)
<1>1. L \in Nat /\ DOMAIN fired = 1..L
  BY SeqSize
<1>0. Grown(fired, g, f)
  BY Grows
<1> HIDE DEF g
<1>2. IsSeq(g) /\ Len(g) = L + 1 /\ g[L + 1] = f /\ \A n \in 1..L : g[n] = fired[n]
  BY <1>0 DEF Grown
<1>3. DOMAIN g = 1..(L + 1) /\ fired' = g
  BY <1>2, SeqSize DEF g
<1> HIDE DEF L
<1>4. \A n \in DOMAIN g : g[n].tick \in Nat /\ g[n].most \in Int
  BY <1>1, <1>2, <1>3
<1>5. ASSUME NEW t \in Int
      PROVE  /\ Cardinality(FiredSince(t)) \in Nat
             /\ Cardinality(FiredSince(t)') = Cardinality(FiredSince(t)) + OneIf(f.tick > t)
  <2> DEFINE later == f.tick > t
  <2>1. FiredSince(t) \subseteq 1..L /\ later \in BOOLEAN
    BY <1>1 DEF FiredSince
  <2>2. FiredSince(t)' = FiredSince(t) \cup (IF later THEN {L + 1} ELSE {})
    BY <1>1, <1>2, <1>3 DEF FiredSince
  <2> HIDE DEF later
  <2>3. Cardinality(FiredSince(t)) \in Nat
        /\ Cardinality(FiredSince(t)') = Cardinality(FiredSince(t)) + OneIf(later)
    BY <1>1, <2>1, <2>2, OneMoreCounted
  <2>4. QED
    BY <2>3 DEF later
<1>6. BudgetKept'
  <2> SUFFICES ASSUME NEW n \in DOMAIN g
               PROVE  Cardinality({m \in 1..n : g[m].tick > g[n].tick - BudgetWindow}) <= g[n].most
    BY <1>3 DEF BudgetKept
  <2>1. CASE n \in DOMAIN fired
    <3>1. {m \in 1..n : g[m].tick > g[n].tick - BudgetWindow}
            = {m \in 1..n : fired[m].tick > fired[n].tick - BudgetWindow}
      <4>1. n \in 1..L /\ \A m \in 1..n : m \in 1..L
        BY <1>1, <2>1
      <4>2. \A m \in 1..n : g[m] = fired[m] /\ g[n] = fired[n]
        BY <1>2, <4>1
      <4>3. QED
        BY <4>2
    <3>2. g[n] = fired[n]
      BY <1>1, <1>2, <2>1
    <3>3. QED
      BY <2>1, <3>1, <3>2 DEF BudgetKept
  <2>2. CASE n \notin DOMAIN fired
    <3>1. n = L + 1 /\ g[n] = f
      BY <1>1, <1>2, <1>3, <2>2
    <3> DEFINE t == f.tick - BudgetWindow
    <3>2. t \in Int /\ t >= f.tick - BudgetWindow
      OBVIOUS
    <3> HIDE DEF t
    <3>3. {m \in 1..n : g[m].tick > t} = FiredSince(t)'
      BY <1>3, <3>1 DEF FiredSince
    <3>4. Cardinality(FiredSince(t)) <= k /\ Cardinality(FiredSince(t)) \in Nat
          /\ Cardinality(FiredSince(t)') = Cardinality(FiredSince(t)) + OneIf(f.tick > t)
      BY <1>5, <3>2
    <3>5. OneIf(f.tick > t) \in {0, 1}
      BY DEF OneIf
    <3>6. Cardinality(FiredSince(t)') <= f.most
      BY <3>4, <3>5
    <3>7. QED
      BY <3>1, <3>3, <3>6 DEF t
  <2>3. QED
    BY <2>1, <2>2
<1>7. QED
  BY <1>2, <1>3, <1>4, <1>5, <1>6

\* What it is after it announced something.
Announced(d) ==
  /\ MindIs(d) /\ Acts(d) /\ d.tick = dir.tick /\ d.most = dir.most /\ d.day = dir.day
  /\ d.at # "output" /\ (d.at = "idle" \/ d.msg = dir.msg)
  /\ Planner(d) => Planner(dir) /\ dir.aim = "season"
  /\ ~Seasoner(d) /\ ~Player(d)
  /\ d.recent = IF dir.aim = "drama" THEN Append(dir.recent, dir.tick) ELSE dir.recent

LEMMA OutputAnnounces ==
  ASSUME StageOK, IsSeq(log), AppendOutput
  PROVE  Announced(dir')
<1> DEFINE known == [dir EXCEPT !.seen = @ \cup {dir.call}]
           paid == Recorded(known, dir.act.tool, KindOf(dir.act), dir.tick)
           calm == [paid EXCEPT !.quiet = 0]
<1>1. dir.at = "output" /\ dir' = IF dir.aim = "drama" THEN Idle(calm) ELSE Onward(known)
  BY DEF AppendOutput, Proceed
<1>2. MindIs(dir) /\ DOMAIN dir = Memory /\ dir.tick \in Nat /\ dir.aim \in {"season", "arc", "drama"}
  BY <1>1 DEF StageOK, TypesOK, MindIs, Acts, Talking, Plans
<1>3. /\ DOMAIN known = Memory /\ known.recent = dir.recent /\ known.tick = dir.tick
      /\ known.most = dir.most /\ known.day = dir.day /\ known.total = dir.total
      /\ known.msg = dir.msg /\ known.at = "output" /\ known.aim = dir.aim
  BY <1>1, <1>2 DEF Memory, Blank
<1> HIDE DEF known
<1>4. MindIs(known)
  BY <1>2, <1>3 DEF MindIs
<1>5. PICK d : dir' = d
  OBVIOUS
<1>6. CASE dir.aim = "drama"
  <2>1. /\ MindIs(paid) /\ paid.recent = Append(known.recent, dir.tick)
        /\ paid.tick = known.tick /\ paid.most = known.most /\ paid.day = known.day
    BY <1>2, <1>4, RecordedMind
  <2> HIDE DEF paid
  <2>2. /\ MindIs(calm) /\ calm.recent = paid.recent /\ calm.tick = paid.tick
        /\ calm.most = paid.most /\ calm.day = paid.day
    BY <2>1 DEF MindIs, Memory, Blank
  <2> HIDE DEF calm
  <2>3. Knows(calm, d) /\ d.at = "idle"
    BY <1>1, <1>5, <1>6, <2>2, IdleKnows
  <2>4. /\ MindIs(d) /\ d.tick = dir.tick /\ d.most = dir.most /\ d.day = dir.day
        /\ d.recent = Append(dir.recent, dir.tick)
    BY <1>3, <2>1, <2>2, <2>3 DEF Knows
  <2>5. Acts(d) /\ ~Planner(d) /\ ~Seasoner(d) /\ ~Player(d)
    BY <2>3 DEF Acts, Planner, Seasoner, Player, Talking
  <2>6. QED
    BY <1>5, <1>6, <2>3, <2>4, <2>5 DEF Announced
<1>7. CASE dir.aim # "drama"
  <2>1. d = Onward(known) /\ known.at \in Talking /\ known.aim \in Plans \cup {"drama"}
    BY <1>1, <1>2, <1>3, <1>5, <1>7 DEF Talking, Plans
  <2>2. /\ Knows(known, d) /\ d.at \in {"idle", "arcs", "judge"}
        /\ d.at = "idle" \/ d.msg = known.msg
        /\ d.at = "arcs" => known.aim = "season"
        /\ ~Seasoner(d) /\ ~Player(d) /\ Acts(d)
    BY <1>4, <2>1, OnwardKnows
  <2>3. Planner(d) => Planner(dir) /\ dir.aim = "season"
    BY <1>1, <1>3, <2>2 DEF Planner, Talking, Plans
  <2>4. MindIs(d) /\ d.tick = dir.tick /\ d.most = dir.most /\ d.day = dir.day
        /\ d.recent = dir.recent
    BY <1>3, <2>2 DEF Knows
  <2>5. QED
    BY <1>3, <1>5, <1>7, <2>2, <2>3, <2>4 DEF Announced
<1>8. QED
  BY <1>6, <1>7

LEMMA AppendOutputKeeps ==
  ASSUME StageOK, IsSeq(log), AppendOutput
  PROVE  StageOK'
<1> DEFINE e == dir.act.event
           N == Len(log)
           f == [tick |-> dir.tick, most |-> dir.most]
<1>1. /\ dir.at = "output" /\ Write(<<e>>) /\ UNCHANGED script
      /\ IF dir.aim = "drama" THEN fired' = Append(fired, f) ELSE fired' = fired
      /\ acked' = IF dir'.at = "idle" THEN [acked EXCEPT !.system = dir.msg] ELSE acked
  BY DEF AppendOutput, Proceed
<1>2. f.tick = dir.tick /\ f.most = dir.most
  OBVIOUS
<1> HIDE DEF f
<1>3. Grown(log, log', e)
  BY <1>1, WriteOne
<1>4. PICK d : dir' = d
  OBVIOUS
<1>5. PICK a : acked' = a
  OBVIOUS
<1>6. Announced(d)
  BY <1>4, OutputAnnounces
<1>7. /\ MindIs(dir) /\ dir.tick \in Nat /\ dir.most \in Int /\ IsTimes(dir.recent)
      /\ dir.aim \in {"season", "arc", "drama"} /\ e.tick = dir.tick
      /\ dir.aim \in Plans => e.type = dir.aim
      /\ dir.aim = "season" => e.most \in Int
      /\ dir.aim = "drama" => e.type \in Dramas
  BY <1>1 DEF StageOK, TypesOK, MindIs, Acts, Talking, Plans
<1>8. /\ Planner(dir) <=> dir.aim \in Plans
      /\ Seasoner(dir) <=> dir.aim = "season"
      /\ Player(dir) <=> dir.aim = "drama"
  BY <1>1 DEF Planner, Seasoner, Player, Talking
<1> HIDE DEF e
<1>9. /\ e.type \in Outputs /\ e.type \notin {"audit", "ticked"}
      /\ e.type \in Plans <=> dir.aim \in Plans
      /\ e.type = "season" <=> dir.aim = "season"
      /\ e.type = "arc" <=> dir.aim = "arc"
  BY <1>7 DEF Outputs, Dramas, Plans
<1>10. /\ N \in Nat /\ Ids = 1..N /\ log'[N + 1] = e /\ \A i \in Ids : log'[i] = log[i]
       /\ \A types : /\ Of(types) \subseteq 1..N
                     /\ Of(types)' = Of(types) \cup (IF e.type \in types THEN {N + 1} ELSE {})
  BY <1>3, SetsGrow
<1> HIDE DEF N
<1>11. /\ Of({"audit"})' = Of({"audit"})
       /\ Of({"season"})' = Of({"season"}) \cup (IF dir.aim = "season" THEN {N + 1} ELSE {})
       /\ Of({"arc"})' = Of({"arc"}) \cup (IF dir.aim = "arc" THEN {N + 1} ELSE {})
       /\ Of(Plans)' = Of(Plans) \cup (IF dir.aim \in Plans THEN {N + 1} ELSE {})
  <2>1. /\ e.type \notin {"audit"} /\ (e.type \in {"season"} <=> dir.aim = "season")
        /\ e.type \in {"arc"} <=> dir.aim = "arc"
    BY <1>9
  <2>2. QED
    BY <1>9, <1>10, <2>1
<1>12. /\ acked \in [{"observe", "gravity", "system"} -> Nat] /\ dir.msg \in Nat
       /\ IsSeq(fired) /\ \A n \in DOMAIN fired : fired[n].tick \in Nat /\ fired[n].most \in Int
  BY <1>1, SeqSize DEF StageOK, TypesOK, TicksOK, Of, Ids
<1>13. BudgetWindow \in Nat
  BY RulesAssumption
<1>14. /\ IsSeq(fired') /\ \A n \in DOMAIN fired' : fired'[n].tick \in Nat /\ fired'[n].most \in Int
       /\ \A t \in Int : /\ Cardinality(FiredSince(t)) \in Nat
                         /\ Cardinality(FiredSince(t)') = Cardinality(FiredSince(t))
                              + OneIf(dir.aim = "drama" /\ dir.tick > t)
       /\ BudgetKept'
  <2>1. CASE dir.aim = "drama"
    <3>1. Len(dir.recent) \in Nat /\ Len(dir.recent) < dir.most
      BY <1>7, <1>8, <2>1, SeqSize DEF IsTimes, StageOK, BudgetOK
    <3>2. ASSUME NEW t \in Int, t >= dir.tick - BudgetWindow
          PROVE  Cardinality(FiredSince(t)) <= Len(dir.recent)
      <4>1. Cardinality(FiredSince(t)) <= Cardinality(Since(dir.recent, t))
        BY <3>2 DEF StageOK, BudgetOK
      <4>2. Cardinality(Since(dir.recent, t)) \in Nat /\ Cardinality(Since(dir.recent, t)) <= Len(dir.recent)
        BY <1>7, SinceSize
      <4>4. Cardinality(FiredSince(t)) \in Nat
        BY <1>12, FiredFinite
      <4>5. QED
        BY <3>1, <4>1, <4>2, <4>4
    <3>3. BudgetKept
      BY DEF StageOK, BudgetOK
    <3>4. /\ IsSeq(fired')
          /\ \A n \in DOMAIN fired' : fired'[n].tick \in Nat /\ fired'[n].most \in Int
          /\ \A t \in Int : /\ Cardinality(FiredSince(t)) \in Nat
                            /\ Cardinality(FiredSince(t)') = Cardinality(FiredSince(t)) + OneIf(f.tick > t)
          /\ BudgetKept'
      <4>1. fired' = Append(fired, f) /\ f.tick \in Nat /\ f.most \in Int
        BY <1>1, <1>2, <1>7, <2>1
      <4>2. \A t \in Int : t >= f.tick - BudgetWindow => Cardinality(FiredSince(t)) <= Len(dir.recent)
        BY <1>2, <3>2
      <4>3. Len(dir.recent) < f.most
        BY <1>2, <3>1
      <4>4. QED
        BY <1>12, <1>13, <3>1, <3>3, <4>1, <4>2, <4>3, FiredGrows
    <3>5. \A t \in Int : OneIf(f.tick > t) = OneIf(dir.aim = "drama" /\ dir.tick > t)
      BY <1>2, <2>1 DEF OneIf
    <3>6. QED
      BY <3>4, <3>5
  <2>2. CASE dir.aim # "drama"
    <3>1. fired' = fired
      BY <1>1, <2>2
    <3>2. ASSUME NEW t \in Int
          PROVE  /\ Cardinality(FiredSince(t)) \in Nat
                 /\ Cardinality(FiredSince(t)') = Cardinality(FiredSince(t))
                      + OneIf(dir.aim = "drama" /\ dir.tick > t)
      <4>1. FiredSince(t)' = FiredSince(t)
        BY <3>1 DEF FiredSince
      <4>3. Cardinality(FiredSince(t)) \in Nat
        BY <1>12, FiredFinite
      <4>4. OneIf(dir.aim = "drama" /\ dir.tick > t) = 0
        BY <2>2 DEF OneIf
      <4>5. QED
        BY <4>1, <4>3, <4>4
    <3>3. BudgetKept'
      BY <3>1 DEF StageOK, BudgetOK, BudgetKept
    <3>4. QED
      BY <1>12, <3>1, <3>2, <3>3
  <2>3. QED
    BY <2>1, <2>2
<1>15. TypesOK'
  <2>1. MindIs(dir)' /\ Acts(dir)'
    BY <1>4, <1>6 DEF Announced, MindIs, Acts
  <2>2. acked' \in [{"observe", "gravity", "system"} -> Nat]
    BY <1>1, <1>12
  <2>3. \A i \in Of({"audit", "ticked"} \cup Outputs)' : log'[i].tick \in Nat
    <3> DEFINE S == {"audit", "ticked"} \cup Outputs
    <3>1. Of(S)' = Of(S) \cup {N + 1}
      BY <1>9, <1>10
    <3>2. \A i \in Of(S) : i \in Ids /\ log[i].tick \in Nat
      BY DEF StageOK, TypesOK, Of
    <3> HIDE DEF S
    <3>3. \A i \in Of(S)' : log'[i].tick \in Nat
      BY <1>7, <1>10, <3>1, <3>2
    <3>4. QED
      BY <3>3 DEF S
  <2>4. \A i \in Of({"season"})' : log'[i].most \in Int
    <3>1. \A i \in Of({"season"}) : i \in Ids /\ log[i].most \in Int
      BY DEF StageOK, TypesOK, Of
    <3>2. QED
      BY <1>7, <1>10, <1>11, <3>1
  <2>5. QED
    BY <1>14, <2>1, <2>2, <2>3, <2>4 DEF TypesOK
<1>16. TicksOK'
  <2>1. a \in [{"observe", "gravity", "system"} -> Nat]
        /\ (a.system >= acked.system \/ a.system = dir.msg)
    BY <1>1, <1>5, <1>12
  <2>2. e.type # "ticked" /\ script' = script /\ d.tick = dir.tick /\ dir.at # "idle"
        /\ (d.at = "idle" \/ d.msg = dir.msg)
    BY <1>1, <1>6, <1>9 DEF Announced
  <2>3. QED
    BY <1>3, <1>4, <1>5, <2>1, <2>2, TicksGrow
<1>17. BudgetOK'
  <2>1. ASSUME NEW t \in Int, t >= d.tick - BudgetWindow
        PROVE  Cardinality(FiredSince(t)') <= Cardinality(Since(d.recent, t))
    <3> DEFINE more == OneIf(dir.aim = "drama" /\ dir.tick > t)
    <3>1. /\ Cardinality(FiredSince(t)) \in Nat
          /\ Cardinality(FiredSince(t)') = Cardinality(FiredSince(t)) + more
      BY <1>14
    <3>2. Cardinality(FiredSince(t)) <= Cardinality(Since(dir.recent, t))
          /\ Cardinality(Since(dir.recent, t)) \in Nat
      BY <1>6, <1>7, <2>1, SinceSize DEF Announced, StageOK, BudgetOK
    <3>3. more \in {0, 1}
      BY DEF OneIf
    <3>4. Cardinality(Since(d.recent, t)) = Cardinality(Since(dir.recent, t)) + more
      <4>1. CASE dir.aim = "drama"
        <5>1. d.recent = Append(dir.recent, dir.tick) /\ dir.tick \in Int
          BY <1>6, <1>7, <4>1 DEF Announced
        <5>2. Cardinality(Since(d.recent, t)) = Cardinality(Since(dir.recent, t)) + OneIf(dir.tick > t)
          BY <1>7, <5>1, SinceGrows
        <5>3. more = OneIf(dir.tick > t)
          BY <4>1 DEF OneIf
        <5>4. QED
          BY <5>2, <5>3
      <4>2. CASE dir.aim # "drama"
        <5>1. d.recent = dir.recent /\ more = 0
          BY <1>6, <4>2 DEF Announced, OneIf
        <5>2. QED
          BY <3>2, <5>1
      <4>3. QED
        BY <4>1, <4>2
    <3> HIDE DEF more
    <3>5. QED
      BY <3>1, <3>2, <3>3, <3>4
  <2>2. ASSUME NEW t \in Int
        PROVE  Cardinality(FiredSince(t)') + OneIf(d.at = "output" /\ d.aim = "drama" /\ d.tick > t)
                 <= Cardinality(AuditedSince(t)')
    <3> DEFINE more == OneIf(dir.aim = "drama" /\ dir.tick > t)
    <3>1. /\ Cardinality(FiredSince(t)) \in Nat
          /\ Cardinality(FiredSince(t)') = Cardinality(FiredSince(t)) + more
      BY <1>14
    <3>2. Cardinality(FiredSince(t))
            + OneIf(dir.at = "output" /\ dir.aim = "drama" /\ dir.tick > t)
              <= Cardinality(AuditedSince(t))
      BY DEF StageOK, BudgetOK
    <3>3. OneIf(dir.at = "output" /\ dir.aim = "drama" /\ dir.tick > t) = more /\ more \in {0, 1}
      BY <1>1 DEF OneIf
    <3>4. OneIf(d.at = "output" /\ d.aim = "drama" /\ d.tick > t) = 0
      BY <1>6 DEF Announced, OneIf
    <3>5. Cardinality(AuditedSince(t)) \in Nat
          /\ Cardinality(AuditedSince(t)') = Cardinality(AuditedSince(t))
               + OneIf(e.type = "audit" /\ e.tool \notin Plans /\ e.tick > t)
      BY <1>3, CountsGrow
    <3>6. OneIf(e.type = "audit" /\ e.tool \notin Plans /\ e.tick > t) = 0
      BY <1>9 DEF OneIf
    <3> HIDE DEF more
    <3>7. QED
      BY <3>1, <3>2, <3>3, <3>4, <3>5, <3>6
  <2>3. ~Player(d)
    BY <1>6 DEF Announced
  <2>4. QED
    BY <1>4, <1>14, <2>1, <2>2, <2>3 DEF BudgetOK, Player
<1>18. PlansOK'
  <2>1. /\ \A i \in Of({"audit"}) : /\ i \in Ids /\ log'[i] = log[i]
                                    /\ log[i].tool \in Plans => DayOf(log[i].tick) <= d.day
        /\ \A i \in Of(Plans) : log'[i] = log[i] /\ i \in Ids
        /\ \A i \in Of({"season"}) : log'[i] = log[i] /\ i \in Ids
        /\ \A i \in Of({"arc"}) : log'[i] = log[i] /\ i \in Ids
    BY <1>6, <1>10 DEF Of, StageOK, PlansOK, Announced
  <2>2. dir.aim \in Plans => DayOf(e.tick) = dir.day
    BY <1>7, <1>8 DEF StageOK, PlansOK
  <2>3. \A i \in Of({"audit"})' : log'[i].tool \in Plans => DayOf(log'[i].tick) <= d.day
    BY <1>11, <2>1
  <2>4. \A i \in Of(Plans)' :
          \E j \in Of({"audit"})' : log'[j].tool \in Plans /\ DayOf(log'[j].tick) = DayOf(log'[i].tick)
    <3>1. ASSUME NEW i \in Of(Plans)
          PROVE  \E j \in Of({"audit"})' : log'[j].tool \in Plans /\ DayOf(log'[j].tick) = DayOf(log'[i].tick)
      <4>1. PICK j \in Of({"audit"}) : log[j].tool \in Plans /\ DayOf(log[j].tick) = DayOf(log[i].tick)
        BY DEF StageOK, PlansOK
      <4>2. QED
        BY <1>11, <2>1, <4>1
    <3>2. ASSUME dir.aim \in Plans
          PROVE  \E j \in Of({"audit"})' : log'[j].tool \in Plans /\ DayOf(log'[j].tick) = DayOf(log'[N + 1].tick)
      <4>1. PICK j \in Of({"audit"}) : log[j].tool \in Plans /\ DayOf(log[j].tick) = dir.day
        BY <1>1, <1>8, <3>2 DEF StageOK, PlansOK
      <4>2. QED
        BY <1>10, <1>11, <2>1, <2>2, <3>2, <4>1
    <3>3. QED
      BY <1>11, <3>1, <3>2
  <2>5. Planner(d) => DayOf(d.tick) = d.day
    BY <1>6 DEF Announced, StageOK, PlansOK
  <2>6. Planner(d) => \A i \in Of({"arc"})' : DayOf(log'[i].tick) < d.day
    <3> SUFFICES ASSUME Planner(d), NEW i \in Of({"arc"})' PROVE DayOf(log'[i].tick) < d.day
      OBVIOUS
    <3>1. Planner(dir) /\ dir.aim = "season" /\ d.day = dir.day
      BY <1>6 DEF Announced
    <3>2. i \in Of({"arc"})
      BY <1>11, <3>1
    <3>3. QED
      BY <2>1, <3>1, <3>2 DEF StageOK, PlansOK
  <2>7. ~Seasoner(d) /\ d.at # "output"
    BY <1>6 DEF Announced
  <2>8. PlannedOnce'
    <3>1. ASSUME e.type \in Plans, NEW i \in Of({e.type}) PROVE DayOf(log[i].tick) # DayOf(e.tick)
      <4>1. dir.aim \in Plans /\ e.type = dir.aim /\ DayOf(e.tick) = dir.day
        BY <1>7, <1>9, <2>2, <3>1
      <4>2. DayOf(log[i].tick) < dir.day
        BY <1>8, <3>1, <4>1 DEF StageOK, PlansOK, Plans
      <4>3. DayOf(log[i].tick) \in Nat /\ dir.day \in Int
        <5>1. log[i].tick \in Nat
          BY <3>1 DEF StageOK, TypesOK, Of, Outputs, Plans
        <5>2. QED
          BY <1>7, <5>1, DayNumber DEF MindIs
      <4>4. QED
        BY <4>1, <4>2, <4>3
    <3>2. QED
      BY <1>3, <3>1, PlannedOnceGrows DEF StageOK, PlansOK
  <2>9. QED
    BY <1>4, <2>3, <2>4, <2>5, <2>6, <2>7, <2>8 DEF PlansOK, Planner, Seasoner
<1>19. AuditsOK'
  <2>1. ASSUME NEW t \in Nat
        PROVE  /\ Cardinality(OutputsAt(t)) \in Nat /\ Cardinality(AuditsAt(t)) \in Nat
               /\ Cardinality(OutputsAt(t)) + OneIf(dir.tick = t) <= Cardinality(AuditsAt(t))
               /\ Cardinality(OutputsAt(t)') = Cardinality(OutputsAt(t)) + OneIf(dir.tick = t)
               /\ Cardinality(AuditsAt(t)') = Cardinality(AuditsAt(t))
    <3>1. Cardinality(OutputsAt(t)) + OneIf(dir.at = "output" /\ dir.tick = t)
            <= Cardinality(AuditsAt(t))
      BY DEF StageOK, AuditsOK
    <3>2. /\ Cardinality(AuditsAt(t)) \in Nat
          /\ Cardinality(AuditsAt(t)') = Cardinality(AuditsAt(t)) + OneIf(e.type = "audit" /\ e.tick = t)
          /\ Cardinality(OutputsAt(t)) \in Nat
          /\ Cardinality(OutputsAt(t)') = Cardinality(OutputsAt(t)) + OneIf(e.type \in Outputs /\ e.tick = t)
      BY <1>3, CountsGrow
    <3>3. /\ OneIf(dir.at = "output" /\ dir.tick = t) = OneIf(dir.tick = t)
          /\ OneIf(e.type \in Outputs /\ e.tick = t) = OneIf(dir.tick = t)
          /\ OneIf(e.type = "audit" /\ e.tick = t) = 0
      BY <1>1, <1>7, <1>9 DEF OneIf
    <3>4. QED
      BY <3>1, <3>2, <3>3
  <2>2. Cardinality(OutputsAt(e.tick)) + 1 <= Cardinality(AuditsAt(e.tick))
    <3>1. Cardinality(OutputsAt(dir.tick)) + OneIf(dir.tick = dir.tick) <= Cardinality(AuditsAt(dir.tick))
      BY <1>7, <2>1
    <3>2. OneIf(dir.tick = dir.tick) = 1
      BY DEF OneIf
    <3>3. QED
      BY <1>7, <3>1, <3>2
  <2>3. AuditedFirst'
    BY <1>3, <2>2, AuditedFirstGrows DEF StageOK, AuditsOK
  <2>4. ASSUME NEW t \in Nat
        PROVE  Cardinality(OutputsAt(t)') + OneIf(d.at = "output" /\ d.tick = t)
                 <= Cardinality(AuditsAt(t)')
    <3>1. OneIf(d.at = "output" /\ d.tick = t) = 0 /\ OneIf(dir.tick = t) \in {0, 1}
      BY <1>6 DEF Announced, OneIf
    <3>2. QED
      BY <2>1, <3>1
  <2>5. QED
    BY <1>4, <2>3, <2>4 DEF AuditsOK
<1>20. QED
  BY <1>15, <1>16, <1>17, <1>18, <1>19 DEF StageOK

\* Who has a director has one that keeps to all this.
StageInd == Scene.directing => StageOK

LEMMA StageStarts ==
  ASSUME Init
  PROVE  StageInd
<1> SUFFICES ASSUME Scene.directing PROVE StageOK
  BY DEF StageInd
<1>1. /\ scene \in DOMAIN Scenes /\ log = <<>> /\ script = Scene.script
      /\ dir = Blank /\ fired = <<>> /\ acked = [observe |-> 0, gravity |-> 0, system |-> 0]
      /\ \A types : Of(types) = {}
  BY DEF Init, LogInit, DirectorInit, Of, Ids
<1>2. /\ dir.at = "idle" /\ dir.tick = 0 /\ dir.recent = <<>> /\ dir.day = -1 /\ dir.total = 0
      /\ dir.most \in Int /\ DOMAIN dir = Memory
  BY <1>1, DirectorAssumption DEF Memory, Blank
<1>3. ~Planner(dir) /\ ~Seasoner(dir) /\ ~Player(dir) /\ Acts(dir)
  BY <1>2 DEF Planner, Seasoner, Player, Acts, Talking
<1>4. IsSeq(<<>>) /\ IsTimes(<<>>)
  BY DEF IsSeq, IsTimes
<1>5. acked \in [{"observe", "gravity", "system"} -> Nat]
  BY <1>1
<1>6. TypesOK
  <2>1. MindIs(dir)
    BY <1>2, <1>4 DEF MindIs
  <2>2. IsSeq(fired) /\ \A n \in DOMAIN fired : fired[n].tick \in Nat /\ fired[n].most \in Int
    BY <1>1, <1>4
  <2>3. QED
    BY <1>1, <1>3, <1>5, <2>1, <2>2 DEF TypesOK
<1>7. TicksOK
  <2>1. DOMAIN script = 1..Len(script)
    BY <1>1, LogStarts, SeqSize DEF LogOK
  <2>2. \A n \in 1..Len(script) : Scripted(Scene, n)
    BY <1>1, <2>1, ScriptAssumption DEF Scene
  <2>3. ASSUME NEW n \in 1..Len(script)
        PROVE  /\ script[n].type \notin Outputs \cup {"audit"}
               /\ script[n].type = "ticked" =>
                    /\ script[n].tick \in Nat /\ dir.tick <= script[n].tick
                    /\ \A m \in 1..(n - 1) : script[m].type = "ticked" => script[m].tick <= script[n].tick
    <3>1. /\ script[n].type \notin Outputs \cup {"audit"}
          /\ script[n].type = "ticked" =>
               /\ script[n].tick \in Nat
               /\ \A m \in 1..(n - 1) : script[m].type = "ticked" => script[m].tick <= script[n].tick
      BY <1>1, <2>2 DEF Scripted
    <3>2. QED
      BY <1>2, <3>1
  <2>4. QED
    BY <1>1, <1>2, <2>3 DEF TicksOK
<1>8. BudgetOK
  <2>1. \A t : FiredSince(t) = {} /\ AuditedSince(t) = {} /\ Since(dir.recent, t) = {}
    BY <1>1, <1>2 DEF FiredSince, AuditedSince, Since
  <2>2. Cardinality({}) = 0
    BY FS_EmptySet
  <2>3. \A t : OneIf(dir.at = "output" /\ dir.aim = "drama" /\ dir.tick > t) = 0
    BY <1>2 DEF OneIf
  <2>4. BudgetKept
    BY <1>1 DEF BudgetKept
  <2>5. \A t : /\ Cardinality(FiredSince(t)) = 0 /\ Cardinality(AuditedSince(t)) = 0
               /\ Cardinality(Since(dir.recent, t)) = 0
    BY <2>1, <2>2
  <2>6. QED
    BY <1>3, <2>3, <2>4, <2>5 DEF BudgetOK
<1>9. PlansOK
  BY <1>1, <1>3 DEF PlansOK, PlannedOnce
<1>10. AuditsOK
  <2>1. \A t : AuditsAt(t) = {} /\ OutputsAt(t) = {}
    BY <1>1 DEF AuditsAt, OutputsAt
  <2>2. Cardinality({}) = 0
    BY FS_EmptySet
  <2>3. \A t : OneIf(dir.at = "output" /\ dir.tick = t) = 0
    BY <1>2 DEF OneIf
  <2>4. AuditedFirst
    BY <1>1 DEF AuditedFirst
  <2>5. QED
    BY <2>1, <2>2, <2>3, <2>4 DEF AuditsOK
<1>11. QED
  BY <1>6, <1>7, <1>8, <1>9, <1>10 DEF StageOK

\* The others write posts and what players do.
LEMMA StrangersWrite ==
  ASSUME AllOK, [Next]_vars,
         Composing \/ Playing \/ ActorAsks \/ Thinking \/ Projecting \/ UNCHANGED vars
  PROVE  /\ UNCHANGED <<script, directorVars>>
         /\ \/ log' = log
            \/ \E e : Grown(log, log', e) /\ e.type \notin Outputs \cup {"audit", "ticked"}
<1>0. LogOK /\ FeedOK /\ IsSeq(log)
  BY DEF AllOK, FeedInv, LogOK
<1>1. "post" \notin Outputs \cup {"audit", "ticked"} /\ "player" \notin Outputs \cup {"audit", "ticked"}
  BY DEF Outputs
<1> DEFINE Goal == /\ UNCHANGED <<script, directorVars>>
                   /\ \/ log' = log
                      \/ \E e : Grown(log, log', e) /\ e.type \in {"post", "player"}
<1>2. ASSUME Composing PROVE Goal
  <2>1. PICK k \in Scene.crew : k \in Composers /\ ComposerStep(k)
    BY <1>0, <1>2, ComposingSteps
  <2>2. UNCHANGED directorVars
    BY <1>2 DEF Composing
  <2>3. CASE AppendPost(k)
    <3>1. log' = log \/ \E e : Grown(log, log', e) /\ e.type = "post"
      BY <1>0, <2>1, <2>3, AppendKeeps
    <3>2. script' = script
      BY <2>3 DEF AppendPost
    <3>3. QED
      BY <2>2, <3>1, <3>2
  <2>4. CASE ~AppendPost(k)
    <3>1. UNCHANGED <<log, script>>
      BY <2>1, <2>4 DEF ComposerStep, Compose, AckSource, ComposeFails, Poison, ComposerCrash,
                        HearNarration, AskNarration, logVars
    <3>2. QED
      BY <2>2, <3>1
  <2>5. QED
    BY <2>3, <2>4
<1>3. ASSUME Playing PROVE Goal
  <2>1. log' = log \/ \E e : Grown(log, log', e) /\ e.type = "player"
    BY <1>3, PlayingKeeps
  <2>2. UNCHANGED directorVars
    BY <1>3 DEF Playing
  <2>3. script' = script
    BY <1>3 DEF Playing, GatewayStep, OpenSession, ReadHead, AppendCommand, CommandFails,
                ShowReply, CloseSession, Subscribe, Receive, Leave, PresenceExpires, PickLetter,
                PushCrash, PushTo, ChangeSubscription, logVars
  <2>4. QED
    BY <2>1, <2>2, <2>3
<1>4. ASSUME ActorAsks \/ Thinking \/ Projecting \/ UNCHANGED vars PROVE Goal
  BY <1>4, OthersWriteNothing
<1>5. QED
  BY <1>1, <1>2, <1>3, <1>4

LEMMA StageKeeps ==
  ASSUME AllOK, StageInd, [Next]_vars
  PROVE  StageInd'
<1>0. LogOK /\ IsSeq(log) /\ Scene' = Scene
  BY SceneKept DEF AllOK, FeedInv, LogOK, Scene
<1> SUFFICES ASSUME Scene.directing PROVE StageOK'
  BY <1>0 DEF StageInd
<1>1. StageOK
  BY DEF StageInd
<1>2. CASE World
  BY <1>0, <1>1, <1>2, WorldKeeps
<1>3. CASE Directing
  <2>1. CASE DirectorStep
    <3>1. CASE Observe \/ Attend
      BY <1>0, <1>1, <3>1, ListeningKeeps
    <3>2. CASE CloseTick
      BY <1>0, <1>1, <3>2, CloseTickKeeps
    <3>3. CASE Recall
      BY <1>0, <1>1, <3>3, RecallKeeps
    <3>4. CASE SkipPlan
      BY <1>0, <1>1, <3>4, SkipPlanKeeps
    <3>5. CASE AppendAudit
      BY <1>0, <1>1, <3>5, AppendAuditKeeps
    <3>6. CASE AppendOutput
      BY <1>0, <1>1, <3>6, AppendOutputKeeps
    <3>7. CASE AppendFails
      BY <1>0, <1>1, <3>7, AppendFailsKeeps
    <3>8. CASE DirectorCrash
      BY <1>0, <1>1, <3>8, CrashKeeps
    <3>9. QED
      BY <2>1, <3>1, <3>2, <3>3, <3>4, <3>5, <3>6, <3>7, <3>8 DEF DirectorStep
  <2>2. CASE DirectorAsks
    <3>1. PICK c : AskPlan(c) \/ Judge(c)
      BY <2>2 DEF DirectorAsks
    <3>2. QED
      BY <1>0, <1>1, <3>1, AskPlanKeeps, JudgeKeeps
  <2>3. CASE DirectorHears
    <3>1. PICK plan : Hear(plan)
      BY <2>3 DEF DirectorHears
    <3>2. QED
      BY <1>0, <1>1, <3>1, HearKeeps
  <2>4. QED
    BY <1>3, <2>1, <2>2, <2>3 DEF Directing
<1>4. CASE Composing \/ Playing \/ ActorAsks \/ Thinking \/ Projecting \/ UNCHANGED vars
  BY <1>0, <1>1, <1>4, StrangersWrite, StrangersKeep
<1>5. QED
  BY <1>2, <1>3, <1>4 DEF Next

\* StageInv, of every behaviour: what is staged keeps to the budget that was in
\* force, is planned once a day and audited beforehand, whatever is redelivered,
\* fails or crashes (director.py run, _restore_from_history, _append_intervention;
\* rules.py BudgetState).
THEOREM StageIsKept == Spec => []StageInv
<1>1. Init => AllOK /\ StageInd
  BY AllStart, StageStarts
<1>2. AllOK /\ StageInd /\ [Next]_vars => (AllOK /\ StageInd)'
  BY AllKeep, StageKeeps
<1>3. StageInd => StageInv
  BY DEF StageInd, StageOK, BudgetOK, PlansOK, AuditsOK, StageInv
<1>4. QED
  BY <1>1, <1>2, <1>3, PTL DEF Spec
=============================================================================
