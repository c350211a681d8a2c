--------------------------- MODULE ActorTickProofs ---------------------------
(* What is said to an actor is answered once, what it does is told in order, *)
(* and its mailbox stays small: for any number of actors, players, items and *)
(* ticks, and whatever crashes.                                              *)
EXTENDS ActorTick, SequenceTheorems, FiniteSetTheorems, TLAPS

-----------------------------------------------------------------------------
(* What Where and Times yield, for every sequence.  Induction over the length *)
(* of a sequence goes through sets of numbers: a set that holds 0 and the     *)
(* successor of each of its members holds every number.                       *)

\* A set with 0 and the successor of each member holds every number: by the least
\* number outside it.
LEMMA NatSetInduction ==
  ASSUME NEW I, 0 \in I, \A n \in Nat : n \in I => n + 1 \in I
  PROVE  Nat \subseteq I
<1> SUFFICES ASSUME Nat \ I # {} PROVE FALSE
  OBVIOUS
<1> DEFINE R == OpToRel(<, Nat)
<1>1. PICK n \in Nat \ I : \A m \in Nat \ I : ~ (<<m, n>> \in R)
  BY NatLessThanWellFounded, WFMin
<1>2. \A m \in Nat \ I : ~ (m < n)
  BY <1>1 DEF OpToRel
<1>3. n # 0 /\ n - 1 \in Nat /\ n - 1 \in I
  BY <1>2
<1>4. QED
  BY <1>3

\* w[n] selects from the first n items.
Selects(w, seq, S) ==
  /\ w[0] = <<>>
  /\ \A n \in 1..Len(seq) :
       w[n] = IF seq[n] \in S THEN Append(w[n - 1], seq[n]) ELSE w[n - 1]

\* The function Where computes exists, one selection per prefix.
LEMMA WherePrefixes ==
  ASSUME NEW X, NEW seq \in Seq(X), NEW S
  PROVE  \E w \in [0..Len(seq) -> Seq(X)] :
           Selects(w, seq, S) /\ Where(seq, S) = w[Len(seq)]
<1> DEFINE Step(v, n) == IF n = 0 THEN <<>>
                         ELSE IF seq[n] \in S THEN Append(v[n - 1], seq[n])
                              ELSE v[n - 1]
           Sel(v, k) == v = [n \in 0..k |-> Step(v, n)]
           Some(k) == \E v \in [0..k -> Seq(X)] : Sel(v, k)
           I == {k \in Nat : k <= Len(seq) => Some(k)}
<1>0. Len(seq) \in Nat
  OBVIOUS
<1>1. Some(0)
  <2>1. Sel([n \in 0..0 |-> <<>>], 0)
    OBVIOUS
  <2>2. [n \in 0..0 |-> <<>>] \in [0..0 -> Seq(X)]
    OBVIOUS
  <2>3. QED
    BY <2>1, <2>2
<1>2. ASSUME NEW k \in Nat, k + 1 <= Len(seq), Some(k) PROVE Some(k + 1)
  <2>1. PICK v \in [0..k -> Seq(X)] : Sel(v, k)
    BY <1>2
  <2> DEFINE u == [n \in 0..(k + 1) |-> IF n <= k THEN v[n] ELSE Step(v, n)]
  <2>2. Step(v, k + 1) \in Seq(X)
    BY <1>0, <1>2
  <2>3. u \in [0..(k + 1) -> Seq(X)]
    BY <2>2
  <2>4. \A n \in 0..(k + 1) : Step(u, n) = Step(v, n)
    <3> SUFFICES ASSUME NEW n \in 0..(k + 1), n # 0 PROVE u[n - 1] = v[n - 1]
      OBVIOUS
    <3>1. n - 1 \in 0..(k + 1) /\ n - 1 <= k
      OBVIOUS
    <3>2. QED
      BY <3>1
  <2>5. \A n \in 0..k : v[n] = Step(v, n)
    BY <2>1
  <2>6. \A n \in 0..(k + 1) : u[n] = Step(u, n)
    <3> HIDE DEF Step
    <3> QED
      BY <2>4, <2>5
  <2>7. Sel(u, k + 1)
    <3> HIDE DEF Step
    <3> QED
      BY <2>6
  <2>8. QED
    <3> HIDE DEF Sel, u
    <3> QED
      BY <2>3, <2>7
<1>3. Some(Len(seq))
  <2> HIDE DEF Some
  <2>1. 0 \in I /\ \A k \in Nat : k \in I => k + 1 \in I
    BY <1>0, <1>1, <1>2
  <2>2. Nat \subseteq I
    <3> HIDE DEF I
    <3> QED
      BY <2>1, NatSetInduction
  <2>3. QED
    BY <1>0, <2>2
<1>4. \E v : Sel(v, Len(seq)) /\ Where(seq, S) = v[Len(seq)]
  <2> DEFINE v == CHOOSE v : Sel(v, Len(seq))
  <2>1. Where(seq, S) = v[Len(seq)]
    BY DEF Where
  <2> HIDE DEF Sel
  <2>2. Sel(v, Len(seq))
    BY <1>3
  <2> HIDE DEF v
  <2>3. QED
    BY <2>1, <2>2
<1>5. PICK w : Sel(w, Len(seq)) /\ Where(seq, S) = w[Len(seq)]
  BY <1>4
<1> HIDE DEF I, Some
<1>6. /\ DOMAIN w = 0..Len(seq)
      /\ w = [n \in 0..Len(seq) |-> w[n]]
      /\ \A n \in 0..Len(seq) : w[n] = Step(w, n)
  <2> HIDE DEF Step
  <2> QED
    BY <1>5
<1> HIDE DEF Sel
<1>7. Selects(w, seq, S)
  BY <1>0, <1>6 DEF Selects
<1> HIDE DEF Step
<1>8. \A k \in 0..Len(seq) : w[k] \in Seq(X)
  <2> DEFINE J == {k \in Nat : k <= Len(seq) => w[k] \in Seq(X)}
  <2>1. w[0] \in Seq(X)
    BY <1>7, EmptySeq DEF Selects
  <2>2. ASSUME NEW k \in Nat, k + 1 <= Len(seq), w[k] \in Seq(X)
        PROVE  w[k + 1] \in Seq(X)
    <3>1. k + 1 \in 1..Len(seq) /\ (k + 1) - 1 = k
      BY <1>0, <2>2
    <3>2. seq[k + 1] \in X
      BY <3>1, ElementOfSeq
    <3>3. Append(w[k], seq[k + 1]) \in Seq(X)
      BY <2>2, <3>2, AppendProperties
    <3>4. QED
      BY <1>7, <2>2, <3>1, <3>3 DEF Selects
  <2>3. 0 \in J /\ \A k \in Nat : k \in J => k + 1 \in J
    BY <1>0, <2>1, <2>2
  <2>4. Nat \subseteq J
    <3> HIDE DEF J
    <3> QED
      BY <2>3, NatSetInduction
  <2>5. QED
    BY <1>0, <2>4
<1>9. w \in [0..Len(seq) -> Seq(X)]
  BY <1>6, <1>8
<1>10. QED
  BY <1>5, <1>7, <1>9

-----------------------------------------------------------------------------
\* Counting is over a finite set of positions.
LEMMA TimesType ==
  ASSUME NEW X, NEW seq \in Seq(X), NEW S
  PROVE  /\ At(seq, S) \in SUBSET Nat /\ IsFiniteSet(At(seq, S))
         /\ Times(seq, S) \in Nat
<1>1. Len(seq) \in Nat /\ At(seq, S) \in SUBSET (1..Len(seq))
  BY DEF At
<1>2. IsFiniteSet(1..Len(seq))
  BY <1>1, FS_Interval
<1>3. IsFiniteSet(At(seq, S))
  BY <1>1, <1>2, FS_Subset
<1>4. QED
  BY <1>1, <1>3, FS_CardinalityType DEF Times

\* Nothing is in the empty sequence.
LEMMA TimesEmpty ==
  ASSUME NEW S PROVE Times(<<>>, S) = 0
<1>1. At(<<>>, S) = {}
  BY DEF At
<1>2. QED
  BY <1>1, FS_EmptySet DEF Times

\* A count of 0 says that no position holds a member.
LEMMA TimesNone ==
  ASSUME NEW X, NEW seq \in Seq(X), NEW S
  PROVE  Times(seq, S) = 0 <=> \A n \in 1..Len(seq) : seq[n] \notin S
<1>1. Times(seq, S) = 0 <=> At(seq, S) = {}
  BY TimesType, FS_EmptySet DEF Times
<1>2. QED
  BY <1>1 DEF At

\* More members, no fewer positions.
LEMMA TimesMonotone ==
  ASSUME NEW X, NEW seq \in Seq(X), NEW S, NEW T,
         \A n \in 1..Len(seq) : seq[n] \in S => seq[n] \in T
  PROVE  Times(seq, S) <= Times(seq, T)
<1>1. At(seq, S) \in SUBSET At(seq, T)
  BY DEF At
<1>2. QED
  BY <1>1, TimesType, FS_Subset DEF Times

\* Two sequences of one length with hits at the same positions.
LEMMA TimesSame ==
  ASSUME NEW seq, NEW other, NEW S, NEW T, Len(seq) = Len(other),
         \A n \in 1..Len(seq) : seq[n] \in S <=> other[n] \in T
  PROVE  Times(seq, S) = Times(other, T)
<1>1. At(seq, S) = At(other, T)
  BY DEF At
<1>2. QED
  BY <1>1 DEF Times

\* At most one, when all hits are at one position.
LEMMA TimesOnce ==
  ASSUME NEW X, NEW seq \in Seq(X), NEW S
  PROVE  Times(seq, S) <= 1
           <=> \A m, n \in 1..Len(seq) : seq[m] \in S /\ seq[n] \in S => m = n
<1> DEFINE P == At(seq, S)
<1>1. IsFiniteSet(P) /\ Cardinality(P) \in Nat
  BY TimesType, FS_CardinalityType
<1>2. ASSUME Cardinality(P) <= 1, NEW m \in P, NEW n \in P PROVE m = n
  <2>1. CASE Cardinality(P) = 0
    BY <1>1, <2>1, FS_EmptySet
  <2>2. CASE Cardinality(P) = 1
    <3>1. PICK x : P = {x}
      BY <1>1, <2>2, FS_Singleton
    <3> HIDE DEF P
    <3>2. QED
      BY <1>2, <3>1
  <2>3. QED
    BY <1>1, <1>2, <2>1, <2>2
<1>3. ASSUME \A m, n \in P : m = n PROVE Cardinality(P) <= 1
  <2>1. CASE P = {}
    BY <2>1, FS_EmptySet
  <2>2. CASE P # {}
    <3>1. PICK x \in P : TRUE
      BY <2>2
    <3>2. P = {x}
      BY <1>3, <3>1
    <3> HIDE DEF P
    <3>3. Cardinality({x}) = 1
      BY FS_Singleton
    <3>4. QED
      BY <3>2, <3>3
  <2>3. QED
    BY <2>1, <2>2
<1>4. QED
  BY <1>2, <1>3 DEF At, Times

\* An item appended counts if it is a member.
LEMMA TimesAppend ==
  ASSUME NEW X, NEW seq \in Seq(X), NEW x \in X, NEW S
  PROVE  Times(Append(seq, x), S) = Times(seq, S) + IF x \in S THEN 1 ELSE 0
<1> DEFINE k == Len(seq) + 1
           longer == Append(seq, x)
<1>1. /\ Len(seq) \in Nat /\ Len(longer) = k
      /\ \A n \in 1..Len(seq) : longer[n] = seq[n]
      /\ longer[k] = x
  BY AppendProperties
<1>2. IsFiniteSet(At(seq, S)) /\ Cardinality(At(seq, S)) \in Nat
  BY TimesType DEF Times
<1>3. CASE x \in S
  <2>1. At(longer, S) = At(seq, S) \cup {k}
    <3> HIDE DEF longer
    <3> QED
      BY <1>1, <1>3 DEF At
  <2>2. k \notin At(seq, S)
    BY <1>1 DEF At
  <2>3. QED
    BY <1>2, <1>3, <2>1, <2>2, FS_AddElement DEF Times
<1>4. CASE x \notin S
  <2>1. At(longer, S) = At(seq, S)
    <3> HIDE DEF longer
    <3> QED
      BY <1>1, <1>4 DEF At
  <2>2. QED
    BY <1>2, <1>4, <2>1 DEF Times
<1>5. QED
  BY <1>3, <1>4

\* A concatenation holds what its parts hold.
LEMMA TimesConcat ==
  ASSUME NEW X, NEW s \in Seq(X), NEW t \in Seq(X), NEW S
  PROVE  Times(s \o t, S) = Times(s, S) + Times(t, S)
<1> DEFINE k == Len(s)
           st == s \o t
           Right == {n \in (k + 1)..(k + Len(t)) : st[n] \in S}
           f == [n \in At(t, S) |-> n + k]
<1>1. /\ k \in Nat /\ Len(t) \in Nat /\ Len(st) = k + Len(t)
      /\ \A n \in 1..(k + Len(t)) : st[n] = IF n <= k THEN s[n] ELSE t[n - k]
  BY ConcatProperties
<1> HIDE DEF st, k
<1>2. At(st, S) = At(s, S) \cup Right /\ At(s, S) \cap Right = {}
  BY <1>1 DEF At, k
<1>3. /\ IsFiniteSet(At(s, S)) /\ IsFiniteSet(At(t, S))
      /\ Times(s, S) \in Nat /\ Times(t, S) \in Nat
  BY TimesType
<1>4. IsFiniteSet(Right) /\ Cardinality(Right) = Times(t, S)
  <2>1. f \in [At(t, S) -> Right]
    BY <1>1 DEF At
  <2>2. \A m, n \in At(t, S) : f[m] = f[n] => m = n
    BY <1>1 DEF At
  <2>3. \A r \in Right : \E n \in At(t, S) : f[n] = r
    <3> SUFFICES ASSUME NEW r \in Right PROVE \E n \in At(t, S) : f[n] = r
      OBVIOUS
    <3>1. r - k \in At(t, S) /\ (r - k) + k = r
      BY <1>1 DEF At
    <3>2. QED
      BY <3>1
  <2>4. f \in Bijection(At(t, S), Right)
    <3> HIDE DEF f, Right
    <3> QED
      BY <2>1, <2>2, <2>3 DEF Bijection, Injection, Surjection, IsInjective
  <2>5. QED
    BY <1>3, <2>4, FS_Bijection DEF ExistsBijection, Times
<1>5. Cardinality(At(st, S))
        = Cardinality(At(s, S)) + Cardinality(Right) - Cardinality({})
  BY <1>2, <1>3, <1>4, FS_Union
<1>6. Cardinality({}) = 0
  BY FS_EmptySet
<1>7. Times(st, S) = Times(s, S) + Times(t, S)
  BY <1>3, <1>4, <1>5, <1>6 DEF Times
<1>8. QED
  BY <1>7 DEF st

\* What the tail holds, and the head.
LEMMA TimesTail ==
  ASSUME NEW X, NEW seq \in Seq(X), seq # <<>>, NEW S
  PROVE  Times(seq, S) = Times(Tail(seq), S) + IF Head(seq) \in S THEN 1 ELSE 0
<1>1. Head(seq) \in X /\ Tail(seq) \in Seq(X) /\ <<Head(seq)>> \in Seq(X)
  BY HeadTailProperties
<1>2. seq = <<Head(seq)>> \o Tail(seq)
  <2> DEFINE h == Head(seq)
             t == Tail(seq)
  <2>1. /\ Len(t) = Len(seq) - 1 /\ \A n \in 1..Len(t) : t[n] = seq[n + 1]
        /\ h = seq[1] /\ Len(seq) \in Nat
    BY HeadTailProperties
  <2>2. h \in X /\ t \in Seq(X)
    BY <1>1
  <2> HIDE DEF h, t
  <2>3. /\ Len(<<h>> \o t) = 1 + Len(t)
        /\ \A n \in 1..(1 + Len(t)) :
             (<<h>> \o t)[n] = IF n <= 1 THEN h ELSE t[n - 1]
    <3>1. <<h>> \in Seq(X) /\ Len(<<h>>) = 1 /\ <<h>>[1] = h
      BY <2>2
    <3> DEFINE one == <<h>>
    <3>2. one \in Seq(X) /\ Len(one) = 1 /\ one[1] = h
      BY <3>1
    <3> HIDE DEF one
    <3>3. /\ Len(one \o t) = Len(one) + Len(t)
          /\ \A n \in 1..(Len(one) + Len(t)) :
               (one \o t)[n] = IF n <= Len(one) THEN one[n] ELSE t[n - Len(one)]
      BY <2>2, <3>2, ConcatProperties
    <3>4. \A n \in 1..(1 + Len(t)) : n <= 1 => n = 1
      BY <2>1
    <3>5. QED
      BY <3>2, <3>3, <3>4 DEF one
  <2>4. <<h>> \o t \in Seq(X)
    BY <1>1, ConcatProperties DEF h, t
  <2> DEFINE both == <<h>> \o t
  <2> HIDE DEF both
  <2>5. both \in Seq(X) /\ Len(both) = Len(seq)
    BY <2>1, <2>3, <2>4 DEF both
  <2>6. \A n \in 1..Len(seq) : both[n] = seq[n]
    <3> SUFFICES ASSUME NEW n \in 1..Len(seq) PROVE both[n] = seq[n]
      OBVIOUS
    <3>1. CASE n = 1
      BY <2>1, <2>3, <3>1 DEF both
    <3>2. CASE n # 1
      <4>1. n - 1 \in 1..Len(t) /\ (n - 1) + 1 = n /\ n \in 1..(1 + Len(t))
        BY <2>1, <3>2
      <4>2. t[n - 1] = seq[n] /\ both[n] = t[n - 1]
        BY <2>1, <2>3, <3>2, <4>1 DEF both
      <4>3. QED
        BY <4>2
    <3>3. QED
      BY <3>1, <3>2
  <2>7. both = seq
    BY <2>5, <2>6, SeqEqual
  <2>8. QED
    BY <2>7 DEF both, h, t
<1>3. Times(<<Head(seq)>>, S) = IF Head(seq) \in S THEN 1 ELSE 0
  <2> DEFINE h == Head(seq)
  <2> HIDE DEF h
  <2>1. <<h>> = Append(<<>>, h) /\ <<>> \in Seq(X) /\ h \in X
    BY <1>1 DEF h
  <2>2. Times(Append(<<>>, h), S) = Times(<<>>, S) + IF h \in S THEN 1 ELSE 0
    BY <2>1, TimesAppend
  <2>3. Times(<<>>, S) = 0
    BY TimesEmpty
  <2>4. QED
    BY <2>1, <2>2, <2>3 DEF h
<1>4. Times(seq, S) = Times(<<Head(seq)>>, S) + Times(Tail(seq), S)
  <2> DEFINE one == <<Head(seq)>>
             t == Tail(seq)
  <2>1. one \in Seq(X) /\ t \in Seq(X) /\ seq = one \o t
    BY <1>1, <1>2
  <2> HIDE DEF one, t
  <2>2. Times(one \o t, S) = Times(one, S) + Times(t, S)
    BY <2>1, TimesConcat
  <2>3. QED
    BY <2>1, <2>2 DEF one, t
<1>5. Times(Tail(seq), S) \in Nat
  BY <1>1, TimesType
<1>6. QED
  BY <1>3, <1>4, <1>5

-----------------------------------------------------------------------------
\* A selection has the items of its sequence.
LEMMA WhereType ==
  ASSUME NEW X, NEW seq \in Seq(X), NEW S
  PROVE  Where(seq, S) \in Seq(X)
<1>1. Len(seq) \in 0..Len(seq)
  OBVIOUS
<1>2. QED
  BY <1>1, WherePrefixes

\* A selection holds the selected items as often as the sequence does.
LEMMA WhereTimes ==
  ASSUME NEW X, NEW seq \in Seq(X), NEW S, NEW T
  PROVE  Times(Where(seq, S), T) = Times(seq, S \cap T)
<1>1. PICK w \in [0..Len(seq) -> Seq(X)] :
        Selects(w, seq, S) /\ Where(seq, S) = w[Len(seq)]
  BY WherePrefixes
<1> DEFINE U == S \cap T
           Same(k) == Times(w[k], T) = Times(SubSeq(seq, 1, k), U)
           I == {k \in Nat : k <= Len(seq) => Same(k)}
<1>2. Len(seq) \in Nat
  OBVIOUS
<1>3. Same(0)
  <2>1. SubSeq(seq, 1, 0) = <<>>
    BY SubSeqEmpty
  <2>2. QED
    BY <1>1, <2>1, TimesEmpty DEF Selects
<1>4. ASSUME NEW k \in Nat, k + 1 <= Len(seq), Same(k) PROVE Same(k + 1)
  <2> DEFINE x == seq[k + 1]
             before == SubSeq(seq, 1, k)
  <2>1. k + 1 \in 1..Len(seq) /\ (k + 1) - 1 = k /\ x \in X
    BY <1>2, <1>4
  <2>2. before \in Seq(X) /\ w[k] \in Seq(X)
    <3>1. \A i \in 1..k : seq[i] \in X
      BY <1>2, <1>4
    <3>2. QED
      BY <1>1, <1>2, <1>4, <3>1, SubSeqProperties
  <2>3. SubSeq(seq, 1, k + 1) = Append(before, x)
    <3>1. SubSeq(seq, 1, k + 1) = before \o <<x>>
      BY <2>1, SubSeqRecursiveSecond
    <3>2. QED
      BY <2>1, <2>2, <3>1, AppendIsConcat
  <2>4. w[k + 1] = IF x \in S THEN Append(w[k], x) ELSE w[k]
    BY <1>1, <2>1 DEF Selects
  <2>5. /\ Times(w[k], T) \in Nat /\ Times(before, U) \in Nat
        /\ Times(w[k], T) = Times(before, U)
    BY <1>4, <2>2, TimesType
  <2>6. Times(Append(w[k], x), T) = Times(w[k], T) + IF x \in T THEN 1 ELSE 0
    BY <2>1, <2>2, TimesAppend
  <2>7. Times(Append(before, x), U)
          = Times(before, U) + IF x \in U THEN 1 ELSE 0
    <3> HIDE DEF x, before, U
    <3> QED
      BY <2>1, <2>2, TimesAppend
  <2>8. x \in U <=> x \in S /\ x \in T
    OBVIOUS
  <2> HIDE DEF x, before, U
  <2>9. CASE x \in S
    BY <2>3, <2>4, <2>5, <2>6, <2>7, <2>8, <2>9
  <2>10. CASE x \notin S
    <3>1. Times(w[k + 1], T) = Times(before, U)
      BY <2>4, <2>5, <2>10
    <3>2. Times(Append(before, x), U) = Times(before, U)
      BY <2>5, <2>7, <2>8, <2>10
    <3>3. QED
      BY <2>3, <3>1, <3>2
  <2>11. QED
    BY <2>9, <2>10
<1>5. Same(Len(seq))
  <2> HIDE DEF Same
  <2>1. 0 \in I /\ \A k \in Nat : k \in I => k + 1 \in I
    BY <1>2, <1>3, <1>4
  <2>2. Nat \subseteq I
    <3> HIDE DEF I
    <3> QED
      BY <2>1, NatSetInduction
  <2>3. QED
    BY <1>2, <2>2
<1>6. SubSeq(seq, 1, Len(seq)) = seq
  BY SubSeqFull
<1>7. QED
  BY <1>1, <1>5, <1>6

-----------------------------------------------------------------------------
Types == {"shift", "decision", "reply", "act", "episode", "insight", "belief"}

\* The bounds are numbers, and Cap leaves room for one item.
LEMMA Constants ==
  /\ Cap \in Nat \ {0} /\ ReflectEvery \in Nat \ {0} /\ MaxDeliver \in Nat \ {0}
  /\ GreetMax \in Nat /\ MaxTick \in Nat /\ MaxFaults \in Nat
BY ActorAssumption

-----------------------------------------------------------------------------
(* What DECIDE prepares.                                                     *)

\* An event of the running tick.
LEMMA NowType ==
  ASSUME tick \in Nat, NEW type \in Types, NEW i \in Items \cup {Nothing}
  PROVE  /\ Now(type, i) \in Event
         /\ Now(type, i).type = type /\ Now(type, i).of = i
         /\ Now(type, i).tick = tick
BY DEF Now, Event, Types

\* One event per item, in the order of the items.
LEMMA EachType ==
  ASSUME tick \in Nat, NEW type \in Types, NEW seq \in Seq(Items)
  PROVE  /\ Each(type, seq) \in Seq(Event)
         /\ Len(Each(type, seq)) = Len(seq)
         /\ \A n \in 1..Len(seq) :
              /\ Each(type, seq)[n].type = type
              /\ Each(type, seq)[n].of = seq[n]
              /\ Each(type, seq)[n].tick = tick
<1>1. Len(seq) \in Nat /\ \A n \in 1..Len(seq) : seq[n] \in Items \cup {Nothing}
  BY ElementOfSeq
<1>2. \A n \in 1..Len(seq) : /\ Now(type, seq[n]) \in Event
                             /\ Now(type, seq[n]).type = type
                             /\ Now(type, seq[n]).of = seq[n]
                             /\ Now(type, seq[n]).tick = tick
  BY <1>1, NowType
<1>3. QED
  BY <1>1, <1>2 DEF Each

\* At most one event, for an actor whose tier is due.
LEMMA IfDueType ==
  ASSUME tick \in Nat, NEW type \in Types, NEW a \in Actors
  PROVE  /\ IfDue(a, type) \in Seq(Event)
         /\ Len(IfDue(a, type)) \in 0..1
         /\ \A n \in 1..Len(IfDue(a, type)) :
              /\ IfDue(a, type)[n].type = type
              /\ IfDue(a, type)[n].tick = tick
<1>1. Now(type, Nothing) \in Event /\ Now(type, Nothing).type = type
      /\ Now(type, Nothing).tick = tick
  BY NowType
<1> DEFINE e == Now(type, Nothing)
<1> HIDE DEF e
<1>2. e \in Event /\ e.type = type /\ e.tick = tick
  BY <1>1 DEF e
<1>3. /\ <<e>> \in Seq(Event) /\ Len(<<e>>) = 1
      /\ \A n \in 1..1 : <<e>>[n].type = type /\ <<e>>[n].tick = tick
  BY <1>2
<1>4. CASE tick <= MaxTick /\ a \in Due[tick]
  BY <1>3, <1>4 DEF IfDue, e
<1>5. CASE ~ (tick <= MaxTick /\ a \in Due[tick])
  BY <1>5 DEF IfDue
<1>6. QED
  BY <1>4, <1>5

\* What is answered are items of the inbox.
LEMMA AnswersType ==
  ASSUME TypeOK, NEW a \in Actors
  PROVE  Answers(a) \in Seq(Items)
<1>1. inbox[a] \in Seq(Items)
  BY DEF TypeOK, PerActor
<1>2. /\ Where(inbox[a], OfKind("word")) \in Seq(Items)
      /\ Where(inbox[a], greet[a]) \in Seq(Items)
  BY <1>1, WhereType
<1>3. QED
  BY <1>2, ConcatProperties DEF Answers

\* What DECIDE notes and prepares for an actor.
LEMMA DecideEffect ==
  ASSUME TypeOK, Decide, NEW a \in Actors
  PROVE  /\ notes'[a] \in Seq(Event) /\ out'[a] \in Seq(Event)
         /\ shifts'[a] \in Seq(Event)
         /\ \A n \in 1..Len(notes'[a]) :
              notes'[a][n].type = "decision" /\ notes'[a][n].tick = tick
         /\ \A n \in 1..Len(shifts'[a]) :
              shifts'[a][n].type = "shift" /\ shifts'[a][n].tick = tick
         /\ out'[a] = (notes'[a] \o Each("reply", Answers(a))) \o IfDue(a, "act")
<1>1. tick \in Nat /\ inbox[a] \in Seq(Items) /\ Answers(a) \in Seq(Items)
      /\ {"decision", "shift", "reply", "act"} \subseteq Types
  BY AnswersType DEF TypeOK, PerActor, Types
<1>2. /\ Each("decision", Answers(a)) \in Seq(Event)
      /\ \A n \in 1..Len(Each("decision", Answers(a))) :
           /\ Each("decision", Answers(a))[n].type = "decision"
           /\ Each("decision", Answers(a))[n].tick = tick
  BY <1>1, EachType
<1>3. /\ IfDue(a, "decision") \in Seq(Event)
      /\ \A n \in 1..Len(IfDue(a, "decision")) :
           /\ IfDue(a, "decision")[n].type = "decision"
           /\ IfDue(a, "decision")[n].tick = tick
  BY <1>1, IfDueType
<1>4. notes'[a] = Each("decision", Answers(a)) \o IfDue(a, "decision")
  BY DEF Decide
<1>5. /\ notes'[a] \in Seq(Event)
      /\ \A n \in 1..Len(notes'[a]) :
           notes'[a][n].type = "decision" /\ notes'[a][n].tick = tick
  <2> DEFINE s == Each("decision", Answers(a))
             t == IfDue(a, "decision")
  <2>1. /\ s \o t \in Seq(Event) /\ Len(s \o t) = Len(s) + Len(t)
        /\ Len(s) \in Nat /\ Len(t) \in Nat
        /\ \A n \in 1..(Len(s) + Len(t)) :
             (s \o t)[n] = IF n <= Len(s) THEN s[n] ELSE t[n - Len(s)]
    BY <1>2, <1>3, ConcatProperties
  <2> HIDE DEF s, t
  <2>2. /\ \A n \in 1..Len(s) : s[n].type = "decision" /\ s[n].tick = tick
        /\ \A n \in 1..Len(t) : t[n].type = "decision" /\ t[n].tick = tick
    BY <1>2, <1>3 DEF s, t
  <2>3. notes'[a] = s \o t
    BY <1>4 DEF s, t
  <2>4. QED
    BY <2>1, <2>2, <2>3
<1>6. shifts'[a] \in Seq(Event)
      /\ \A n \in 1..Len(shifts'[a]) :
           shifts'[a][n].type = "shift" /\ shifts'[a][n].tick = tick
  <2> DEFINE words == Where(inbox[a], OfKind("word"))
  <2>1. words \in Seq(Items)
    BY <1>1, WhereType
  <2>2. /\ Each("shift", words) \in Seq(Event)
        /\ \A n \in 1..Len(Each("shift", words)) :
             /\ Each("shift", words)[n].type = "shift"
             /\ Each("shift", words)[n].tick = tick
    BY <1>1, <2>1, EachType
  <2>3. shifts'[a] = Each("shift", words) \/ shifts'[a] = <<>>
    BY DEF Decide
  <2> HIDE DEF words
  <2>4. CASE shifts'[a] = <<>>
    BY <2>4
  <2>5. CASE shifts'[a] = Each("shift", words)
    BY <2>2, <2>5
  <2>6. QED
    BY <2>3, <2>4, <2>5
<1>7. out'[a] = (notes'[a] \o Each("reply", Answers(a))) \o IfDue(a, "act")
  BY DEF Decide
<1>8. out'[a] \in Seq(Event)
  <2>1. Each("reply", Answers(a)) \in Seq(Event) /\ IfDue(a, "act") \in Seq(Event)
    BY <1>1, EachType, IfDueType
  <2>2. notes'[a] \o Each("reply", Answers(a)) \in Seq(Event)
    BY <1>5, <2>1, ConcatProperties
  <2>3. QED
    BY <1>7, <2>1, <2>2, ConcatProperties
<1>9. QED
  BY <1>5, <1>6, <1>7, <1>8

-----------------------------------------------------------------------------
(* Which steps touch what.                                                   *)

\* The router touches nothing of the tick, and only a failed push counts as a
\* fault.
LEMMA RouterFrame ==
  ASSUME TypeOK, Router \/ \E a \in Actors : PushFails(a)
  PROVE  /\ UNCHANGED <<pc, tick, inbox, greet, notes, shifts, out, fresh, todo>>
         /\ UNCHANGED <<bonds, met, stream>>
         /\ faults' = faults \/ faults' = faults + 1
<1>1. CASE \E i \in Items : Fetch(i)
  BY <1>1 DEF Fetch, mindVars, storeVars
<1>2. CASE (\E a \in Actors : Push(a)) \/ Ack \/ Refuse
  BY <1>2 DEF Push, Ack, Refuse, Settle, mindVars, storeVars
<1>3. CASE \E a \in Actors : PushFails(a)
  BY <1>3 DEF PushFails, Settle, Fault, mindVars, storeVars
<1>4. QED
  BY <1>1, <1>2, <1>3 DEF Router

\* The tick touches nothing of the router, and does not fail.
LEMMA TickFrame ==
  ASSUME Tick
  PROVE  UNCHANGED <<bus, tries, routing, dropped, pushed, faults>>
<1>1. CASE Restart \/ Perceive \/ Decide
  BY <1>1 DEF Restart, Perceive, Decide, routerVars, boxVars
<1>2. CASE \E a \in Actors : AppendShifts(a) \/ AppendEvents(a)
  BY <1>2 DEF AppendShifts, AppendEvents, routerVars, boxVars
<1>3. CASE Resolved \/ SaveEdges \/ Bonded
  BY <1>3 DEF Resolved, SaveEdges, Bonded, routerVars, boxVars
<1>4. CASE \E a \in Actors, p \in Players : AppendMilestone(a, p)
  BY <1>4 DEF AppendMilestone, routerVars, boxVars
<1>5. CASE \E a \in Actors : AppendEpisode(a) \/ Reflect(a)
  BY <1>5 DEF AppendEpisode, Reflect, routerVars, boxVars
<1>6. CASE Remembered \/ Finish
  BY <1>6 DEF Remembered, Finish, routerVars, boxVars
<1>7. QED
  BY <1>1, <1>2, <1>3, <1>4, <1>5, <1>6 DEF Tick

\* PERCEIVE alone takes from the mailboxes.
LEMMA MailFrame ==
  ASSUME Tick, ~ Perceive
  PROVE  UNCHANGED mail
<1>1. CASE Restart \/ Decide
  BY <1>1 DEF Restart, Decide, routerVars, boxVars
<1>2. CASE \E a \in Actors : AppendShifts(a) \/ AppendEvents(a)
  BY <1>2 DEF AppendShifts, AppendEvents, routerVars, boxVars
<1>3. CASE Resolved \/ SaveEdges \/ Bonded
  BY <1>3 DEF Resolved, SaveEdges, Bonded, routerVars, boxVars
<1>4. CASE \E a \in Actors, p \in Players : AppendMilestone(a, p)
  BY <1>4 DEF AppendMilestone, routerVars, boxVars
<1>5. CASE \E a \in Actors : AppendEpisode(a) \/ Reflect(a)
  BY <1>5 DEF AppendEpisode, Reflect, routerVars, boxVars
<1>6. CASE Remembered \/ Finish
  BY <1>6 DEF Remembered, Finish, routerVars, boxVars
<1>7. QED
  BY <1>1, <1>2, <1>3, <1>4, <1>5, <1>6 DEF Tick

\* PERCEIVE alone leads to DECIDE.
LEMMA DecideFrame ==
  ASSUME Tick, ~ Perceive
  PROVE  pc' # "decide" /\ (~ Decide => pc # "decide")
<1>1. CASE \E b \in Actors : AppendShifts(b) \/ AppendEvents(b)
  BY <1>1 DEF AppendShifts, AppendEvents
<1>2. CASE \E b \in Actors, p \in Players : AppendMilestone(b, p)
  BY <1>2 DEF AppendMilestone
<1>3. CASE \E b \in Actors : AppendEpisode(b) \/ Reflect(b)
  BY <1>3 DEF AppendEpisode, Reflect
<1>4. CASE Restart \/ Resolved \/ SaveEdges \/ Bonded \/ Remembered \/ Finish
  BY <1>4 DEF Restart, Resolved, SaveEdges, Bonded, Remembered, Finish, Phase
<1>5. CASE Decide
  BY <1>5 DEF Decide
<1>6. QED
  BY <1>1, <1>2, <1>3, <1>4, <1>5 DEF Tick

\* A counter per item and actor that goes up in one place.
LEMMA OneMore ==
  ASSUME NEW R, NEW A, NEW f \in [R -> [A -> Nat]], NEW r \in R, NEW b \in A,
         NEW g, g = [f EXCEPT ![r][b] = @ + 1]
  PROVE  /\ g \in [R -> [A -> Nat]]
         /\ \A i \in R, a \in A :
              g[i][a] = IF i = r /\ a = b THEN f[i][a] + 1 ELSE f[i][a]
<1> DEFINE row == [f[r] EXCEPT ![b] = @ + 1]
<1>1. f[r] \in [A -> Nat] /\ f[r][b] + 1 \in Nat
  OBVIOUS
<1>2. /\ row \in [A -> Nat]
      /\ \A a \in A : row[a] = IF a = b THEN f[r][a] + 1 ELSE f[r][a]
  BY <1>1
<1>3. g = [f EXCEPT ![r] = row]
  OBVIOUS
<1> HIDE DEF row
<1>4. /\ g \in [R -> [A -> Nat]]
      /\ \A i \in R : g[i] = IF i = r THEN row ELSE f[i]
  BY <1>2, <1>3
<1>5. \A i \in R, a \in A :
        g[i][a] = IF i = r /\ a = b THEN f[i][a] + 1 ELSE f[i][a]
  BY <1>2, <1>4
<1>6. QED
  BY <1>4, <1>5

\* One push: the item is at the end of the list, or the list was full and its
\* oldest item is gone.
LEMMA PushEffect ==
  ASSUME TypeOK, MailInv, NEW b \in Actors, Readable, PushTo(b)
  PROVE  /\ mail' \in PerActor(Seq(Items))
         /\ dropped' \in [Items -> PerActor(Nat)]
         /\ pushed' \in [Items -> PerActor(Nat)]
         /\ MailInv'
         /\ routing.item \in Items
         /\ \A i \in Items, a \in Actors :
              pushed'[i][a] = pushed[i][a]
                              + (IF i = routing.item /\ a = b THEN 1 ELSE 0)
         /\ \A i \in Items, a \in Actors :
              /\ dropped'[i][a] >= dropped[i][a]
              /\ Copies(i, mail'[a]) + dropped'[i][a] + pushed[i][a]
                   = Copies(i, mail[a]) + dropped[i][a] + pushed'[i][a]
<1> DEFINE r == routing.item
           longer == Append(mail[b], r)
           h == Head(longer)
           full == Len(longer) > Cap
           box == IF full THEN Tail(longer) ELSE longer
<1>1. r \in Items /\ mail[b] \in Seq(Items) /\ Len(mail[b]) \in Nat
      /\ Len(mail[b]) <= Cap /\ Cap \in Nat \ {0}
  BY Constants DEF TypeOK, PerActor, Readable, NoRoute, MailInv
<1>2. /\ longer \in Seq(Items) /\ longer # <<>>
      /\ Len(longer) = Len(mail[b]) + 1
      /\ h \in Items /\ Tail(longer) \in Seq(Items)
      /\ Len(Tail(longer)) = Len(longer) - 1
  BY <1>1, AppendProperties, HeadTailProperties
<1>3. /\ mail' = [mail EXCEPT ![b] = box]
      /\ pushed' = [pushed EXCEPT ![r][b] = @ + 1]
      /\ dropped' = IF full THEN [dropped EXCEPT ![h][b] = @ + 1] ELSE dropped
  BY DEF PushTo
<1>4. \A i \in Items :
        /\ Times(longer, {i}) = Times(mail[b], {i}) + IF r \in {i} THEN 1 ELSE 0
        /\ Times(longer, {i}) = Times(Tail(longer), {i})
                                + IF h \in {i} THEN 1 ELSE 0
  <2> SUFFICES ASSUME NEW i \in Items
               PROVE  /\ Times(longer, {i})
                           = Times(mail[b], {i}) + IF r \in {i} THEN 1 ELSE 0
                      /\ Times(longer, {i})
                           = Times(Tail(longer), {i})
                             + IF h \in {i} THEN 1 ELSE 0
    OBVIOUS
  <2>1. Times(longer, {i}) = Times(mail[b], {i}) + IF r \in {i} THEN 1 ELSE 0
    <3> HIDE DEF r
    <3> QED
      BY <1>1, TimesAppend
  <2>2. Times(longer, {i}) = Times(Tail(longer), {i}) + IF h \in {i} THEN 1 ELSE 0
    <3> HIDE DEF longer
    <3> QED
      BY <1>2, TimesTail
  <2>3. QED
    BY <2>1, <2>2
<1> HIDE DEF longer, h, r
<1>5. box \in Seq(Items) /\ Len(box) <= Cap
  BY <1>1, <1>2
<1>6. /\ mail \in [Actors -> Seq(Items)] /\ dropped \in [Items -> [Actors -> Nat]]
      /\ pushed \in [Items -> [Actors -> Nat]]
  BY DEF TypeOK, PerActor
<1>7. \A i \in Items :
        /\ Times(mail[b], {i}) \in Nat /\ Times(box, {i}) \in Nat
        /\ Times(box, {i}) = Times(mail[b], {i})
             + (IF i = r THEN 1 ELSE 0) - (IF full /\ i = h THEN 1 ELSE 0)
  <2> SUFFICES ASSUME NEW i \in Items
               PROVE  /\ Times(mail[b], {i}) \in Nat /\ Times(box, {i}) \in Nat
                      /\ Times(box, {i}) = Times(mail[b], {i})
                           + (IF i = r THEN 1 ELSE 0)
                           - (IF full /\ i = h THEN 1 ELSE 0)
    OBVIOUS
  <2>1. Times(mail[b], {i}) \in Nat /\ Times(box, {i}) \in Nat
        /\ Times(longer, {i}) \in Nat /\ Times(Tail(longer), {i}) \in Nat
    BY <1>1, <1>2, <1>5, TimesType
  <2>2. CASE full
    BY <1>4, <2>1, <2>2
  <2>3. CASE ~ full
    BY <1>4, <2>1, <2>3
  <2>4. QED
    BY <2>1, <2>2, <2>3
<1> HIDE DEF full, box
<1>8. /\ mail' \in [Actors -> Seq(Items)]
      /\ \A a \in Actors : mail'[a] = IF a = b THEN box ELSE mail[a]
  BY <1>3, <1>5, <1>6
<1>9. /\ pushed' \in [Items -> [Actors -> Nat]]
      /\ \A i \in Items, a \in Actors :
           pushed'[i][a] = IF i = r /\ a = b THEN pushed[i][a] + 1
                           ELSE pushed[i][a]
  <2>1. pushed' = [pushed EXCEPT ![r][b] = @ + 1]
    BY <1>3
  <2>2. r \in Items /\ pushed \in [Items -> [Actors -> Nat]] /\ b \in Actors
    BY <1>1, <1>6
  <2> HIDE DEF r
  <2>3. QED
    BY <2>1, <2>2, OneMore
<1>10. /\ dropped' \in [Items -> [Actors -> Nat]]
       /\ \A i \in Items, a \in Actors :
            dropped'[i][a] = IF full /\ i = h /\ a = b THEN dropped[i][a] + 1
                             ELSE dropped[i][a]
  <2>1. CASE full
    <3>1. dropped' = [dropped EXCEPT ![h][b] = @ + 1]
      BY <1>3, <2>1
    <3>2. h \in Items /\ dropped \in [Items -> [Actors -> Nat]] /\ b \in Actors
      BY <1>2, <1>6, <2>1
    <3>3. /\ dropped' \in [Items -> [Actors -> Nat]]
          /\ \A i \in Items, a \in Actors :
               dropped'[i][a] = IF i = h /\ a = b THEN dropped[i][a] + 1
                                ELSE dropped[i][a]
      BY <3>1, <3>2, OneMore
    <3>4. QED
      BY <2>1, <3>3
  <2>2. CASE ~ full
    <3>1. dropped' = dropped
      BY <1>3, <2>2
    <3>2. QED
      BY <1>6, <2>2, <3>1
  <2>3. QED
    BY <2>1, <2>2
<1>11. MailInv'
  BY <1>5, <1>8 DEF MailInv
<1>12. ASSUME NEW i \in Items, NEW a \in Actors
       PROVE  /\ dropped'[i][a] >= dropped[i][a]
              /\ Copies(i, mail'[a]) + dropped'[i][a] + pushed[i][a]
                   = Copies(i, mail[a]) + dropped[i][a] + pushed'[i][a]
  <2>1. pushed[i][a] \in Nat /\ dropped[i][a] \in Nat
    BY <1>6
  <2>2. Times(mail[a], {i}) \in Nat
    BY <1>6, TimesType
  <2>3. CASE a = b
    <3> DEFINE c == Times(mail[b], {i})
               d == Times(box, {i})
    <3>1. Copies(i, mail'[a]) = d /\ Copies(i, mail[a]) = c
      BY <1>8, <2>3 DEF Copies
    <3>2. c \in Nat /\ d \in Nat
          /\ d = c + (IF i = r THEN 1 ELSE 0) - (IF full /\ i = h THEN 1 ELSE 0)
      BY <1>7
    <3>3. /\ pushed'[i][a] = pushed[i][a] + (IF i = r THEN 1 ELSE 0)
          /\ dropped'[i][a] = dropped[i][a] + (IF full /\ i = h THEN 1 ELSE 0)
      BY <1>9, <1>10, <2>1, <2>3
    <3> HIDE DEF c, d
    <3>4. QED
      BY <2>1, <3>1, <3>2, <3>3
  <2>4. CASE a # b
    BY <1>8, <1>9, <1>10, <2>1, <2>2, <2>4 DEF Copies
  <2>5. QED
    BY <2>3, <2>4
<1>13. \A i \in Items, a \in Actors :
         pushed'[i][a] = pushed[i][a]
                         + (IF i = routing.item /\ a = b THEN 1 ELSE 0)
  BY <1>6, <1>9 DEF r
<1>14. QED
  BY <1>1, <1>8, <1>9, <1>10, <1>11, <1>12, <1>13 DEF r, PerActor

-----------------------------------------------------------------------------
(* Types.                                                                    *)

\* The initial state is typed.
LEMMA InitTypeOK == Init => TypeOK
<1> SUFFICES ASSUME Init PROVE TypeOK
  OBVIOUS
<1>1. 0 \in 0..MaxFaults /\ 0 \in Nat
  BY Constants
<1>2. \A S : <<>> \in Seq(S)
  BY EmptySeq
<1>3. bus \in [Items -> {"unsent", "queued", "held", "acked", "dead"}]
  BY DEF Init
<1>4. QED
  BY <1>1, <1>2, <1>3 DEF Init, TypeOK, PerActor, All

\* The router keeps the types.
LEMMA RouterTypeOK ==
  ASSUME TypeOK, MailInv, Router \/ \E a \in Actors : PushFails(a)
  PROVE  TypeOK'
<1> DEFINE Fates == {"unsent", "queued", "held", "acked", "dead"}
<1>1. /\ UNCHANGED <<pc, tick, inbox, greet, notes, shifts, out, fresh, todo>>
      /\ UNCHANGED <<bonds, met, stream>>
  BY RouterFrame
<1>2. /\ bus' \in [Items -> Fates] /\ tries' \in [Items -> Nat]
      /\ routing' \in [item : Items, left : SUBSET Actors] \cup {NoRoute}
      /\ faults' \in 0..MaxFaults
  <2>1. /\ bus \in [Items -> Fates] /\ tries \in [Items -> Nat]
        /\ routing \in [item : Items, left : SUBSET Actors] \cup {NoRoute}
        /\ faults \in 0..MaxFaults /\ MaxFaults \in Nat
    BY Constants DEF TypeOK
  <2>2. CASE \E i \in Items : Fetch(i)
    <3>1. PICK i \in Items : Fetch(i)
      BY <2>2
    <3>2. To[i] \in SUBSET Actors
      BY ActorAssumption
    <3>3. QED
      BY <2>1, <3>1, <3>2 DEF Fetch
  <2>3. CASE \E a \in Actors : Push(a)
    <3>1. routing' = [routing EXCEPT !.left = routing'.left]
          /\ routing # NoRoute /\ routing'.left \subseteq routing.left
          /\ UNCHANGED <<bus, tries, faults>>
      BY <2>1, <2>3 DEF Push, Readable
    <3>2. QED
      BY <2>1, <3>1
  <2>4. CASE Ack \/ Refuse
    BY <2>1, <2>4 DEF Ack, Refuse, Settle
  <2>5. CASE \E a \in Actors : PushFails(a)
    <3>1. \E how \in {"dead", "queued"} : Settle(how)
      BY <2>5 DEF PushFails
    <3>2. faults' \in 0..MaxFaults
      BY <2>1, <2>5 DEF PushFails, Fault
    <3>3. QED
      BY <2>1, <3>1, <3>2 DEF Settle
  <2>6. QED
    BY <2>2, <2>3, <2>4, <2>5 DEF Router
<1>3. /\ mail' \in PerActor(Seq(Items)) /\ dropped' \in [Items -> PerActor(Nat)]
      /\ pushed' \in [Items -> PerActor(Nat)]
  <2>1. CASE UNCHANGED boxVars
    BY <2>1 DEF TypeOK, boxVars
  <2>2. CASE \E a \in Actors : Readable /\ PushTo(a)
    BY <2>2, PushEffect
  <2>3. QED
    BY <2>1, <2>2 DEF Router, Fetch, Push, Ack, Refuse, PushFails
<1>4. QED
  BY <1>1, <1>2, <1>3 DEF TypeOK

\* The tick and a crash keep the types.
LEMMA TickTypeOK ==
  ASSUME TypeOK, Tick \/ Crash
  PROVE  TypeOK'
<1> DEFINE RouterOK == /\ bus \in [Items -> {"unsent", "queued", "held", "acked",
                                             "dead"}]
                       /\ tries \in [Items -> Nat]
                       /\ routing \in [item : Items, left : SUBSET Actors]
                                      \cup {NoRoute}
                       /\ dropped \in [Items -> PerActor(Nat)]
                       /\ pushed \in [Items -> PerActor(Nat)]
                       /\ faults \in 0..MaxFaults
           Own == /\ mail \in PerActor(Seq(Items))
                  /\ inbox \in PerActor(Seq(Items))
                  /\ greet \in PerActor(SUBSET Items)
                  /\ notes \in PerActor(Seq(Event))
                  /\ shifts \in PerActor(Seq(Event))
                  /\ out \in PerActor(Seq(Event))
                  /\ fresh \in PerActor(SUBSET Players) /\ todo \subseteq Actors
                  /\ bonds \in PerActor(SUBSET Players)
                  /\ met \in [Actors -> [Players -> Nat]]
                  /\ stream \in PerActor(Seq(Event))
                  /\ tick \in Nat
                  /\ pc \in {"down", "idle", "decide", "resolve", "edges",
                             "milestones", "episodes", "reflect"}
<1>1. RouterOK /\ Own
  BY DEF TypeOK
<1>2. SUFFICES RouterOK' /\ Own'
  BY DEF TypeOK
<1>3. CASE Tick
  <2>1. RouterOK'
    BY <1>1, <1>3, TickFrame
  <2>2. Own'
    <3>0. tick \in Nat /\ Nothing \in Items \cup {Nothing}
          /\ {"episode", "insight", "belief"} \subseteq Types
      BY <1>1 DEF Types
    <3>1. CASE Restart
      BY <1>1, <3>1 DEF Restart, routerVars, boxVars, mindVars, storeVars
    <3>2. CASE Perceive
      <4>1. \A a \in Actors : FirstLikes(a) \in SUBSET Items
        <5> SUFFICES ASSUME NEW a \in Actors PROVE FirstLikes(a) \in SUBSET Items
          OBVIOUS
        <5>1. \A n \in 1..Len(mail[a]) : mail[a][n] \in Items
          BY <1>1, ElementOfSeq DEF PerActor
        <5>2. QED
          BY <5>1 DEF FirstLikes
      <4>2. mail' \in PerActor(Seq(Items)) /\ greet' \in PerActor(SUBSET Items)
        BY <3>2, <4>1, EmptySeq DEF Perceive, Wake, PerActor, All
      <4>3. QED
        BY <1>1, <3>2, <4>2 DEF Perceive, Wake, storeVars
    <3>3. CASE Decide
      <4>1. \A a \in Actors : /\ notes'[a] \in Seq(Event)
                              /\ out'[a] \in Seq(Event)
                              /\ shifts'[a] \in Seq(Event)
        BY <3>3, DecideEffect
      <4>2. /\ notes' = [a \in Actors |-> notes'[a]]
            /\ out' = [a \in Actors |-> out'[a]]
            /\ shifts' = [a \in Actors |-> shifts'[a]]
            /\ todo' \subseteq Actors
        BY <3>3 DEF Decide
      <4>3. /\ notes' \in PerActor(Seq(Event)) /\ out' \in PerActor(Seq(Event))
            /\ shifts' \in PerActor(Seq(Event))
        BY <4>1, <4>2 DEF PerActor
      <4>4. QED
        BY <1>1, <3>3, <4>2, <4>3 DEF Decide, routerVars, boxVars, storeVars
    <3>4. CASE \E a \in Actors : AppendShifts(a) \/ AppendEvents(a)
      <4>1. PICK a \in Actors : AppendShifts(a) \/ AppendEvents(a)
        BY <3>4
      <4>2. /\ stream[a] \o shifts[a] \in Seq(Event)
            /\ stream[a] \o out[a] \in Seq(Event)
            /\ <<>> \in Seq(Event)
        BY <1>1, ConcatProperties, EmptySeq DEF PerActor
      <4>3. /\ stream' \in PerActor(Seq(Event)) /\ out' \in PerActor(Seq(Event))
            /\ shifts' \in PerActor(Seq(Event)) /\ todo' \subseteq Actors
        <5>1. PICK s \in Seq(Event) : stream' = [stream EXCEPT ![a] = s]
          BY <4>1, <4>2 DEF AppendShifts, AppendEvents
        <5>2. stream' \in PerActor(Seq(Event))
          BY <1>1, <5>1 DEF PerActor
        <5>3. out' = out \/ out' = [out EXCEPT ![a] = <<>>]
          BY <4>1 DEF AppendShifts, AppendEvents
        <5>4. shifts' = shifts \/ shifts' = [shifts EXCEPT ![a] = <<>>]
          BY <4>1 DEF AppendShifts, AppendEvents
        <5>5. todo' = todo \/ todo' = todo \ {a}
          BY <4>1 DEF AppendShifts, AppendEvents
        <5>6. /\ out \in [Actors -> Seq(Event)] /\ shifts \in [Actors -> Seq(Event)]
              /\ todo \subseteq Actors
          BY <1>1 DEF PerActor
        <5>7. out' \in [Actors -> Seq(Event)]
          BY <4>2, <5>3, <5>6
        <5>8. shifts' \in [Actors -> Seq(Event)]
          BY <4>2, <5>4, <5>6
        <5>9. QED
          BY <5>2, <5>5, <5>6, <5>7, <5>8 DEF PerActor
      <4>4. QED
        BY <1>1, <4>1, <4>3
           DEF AppendShifts, AppendEvents, routerVars, boxVars
    <3>5. CASE Resolved \/ Bonded \/ Remembered
      BY <1>1, <3>5 DEF Resolved, Bonded, Remembered, Phase, routerVars, boxVars,
                        storeVars
    <3>6. CASE SaveEdges
      <4>1. \A a \in Actors : Known(a) \subseteq Players
        <5> SUFFICES ASSUME NEW a \in Actors PROVE Known(a) \subseteq Players
          OBVIOUS
        <5>1. \A n \in 1..Len(inbox[a]) : inbox[a][n] \in Items
          BY <1>1, ElementOfSeq DEF PerActor
        <5>2. QED
          BY <5>1, ActorAssumption DEF Known
      <4>2. /\ bonds' \in PerActor(SUBSET Players)
            /\ fresh' \in PerActor(SUBSET Players) /\ todo' \subseteq Actors
        BY <1>1, <3>6, <4>1 DEF SaveEdges, Phase, PerActor
      <4>3. QED
        BY <1>1, <3>6, <4>2 DEF SaveEdges, Phase, routerVars, boxVars
    <3>7. CASE \E a \in Actors, p \in Players : AppendMilestone(a, p)
      <4>1. PICK a \in Actors, p \in Players : AppendMilestone(a, p)
        BY <3>7
      <4>2. met' \in [Actors -> [Players -> Nat]]
        <5>1. met[a][p] + 1 \in Nat
          BY <1>1
        <5>2. met' = [met EXCEPT ![a] = [@ EXCEPT ![p] = met[a][p] + 1]]
          BY <4>1 DEF AppendMilestone
        <5>3. QED
          BY <1>1, <5>1, <5>2
      <4>3. fresh' \in PerActor(SUBSET Players) /\ todo' \subseteq Actors
        BY <1>1, <4>1 DEF AppendMilestone, PerActor
      <4>4. QED
        BY <1>1, <4>1, <4>2, <4>3 DEF AppendMilestone, routerVars, boxVars
    <3>8. CASE \E a \in Actors : AppendEpisode(a) \/ Reflect(a)
      <4>1. PICK a \in Actors : AppendEpisode(a) \/ Reflect(a)
        BY <3>8
      <4>2. /\ Now("episode", Nothing) \in Event
            /\ Now("insight", Nothing) \in Event
            /\ Now("belief", Nothing) \in Event
        BY <3>0, NowType
      <4>3. \A e \in Event : /\ Append(stream[a], e) \in Seq(Event)
                             /\ Append(notes[a], e) \in Seq(Event)
        BY <1>1, AppendProperties DEF PerActor
      <4>4. \A e \in Event :
              /\ [stream EXCEPT ![a] = Append(@, e)] \in PerActor(Seq(Event))
              /\ [notes EXCEPT ![a] = Append(@, e)] \in PerActor(Seq(Event))
        BY <1>1, <4>3 DEF PerActor
      <4>5. /\ stream' \in PerActor(Seq(Event)) /\ notes' \in PerActor(Seq(Event))
            /\ todo' \subseteq Actors
        <5>1. CASE AppendEpisode(a)
          <6>1. /\ stream' = [stream EXCEPT ![a] = Append(@, Now("episode", Nothing))]
                /\ notes' = notes /\ todo' = todo \ {a}
            BY <5>1 DEF AppendEpisode
          <6>2. QED
            BY <1>1, <4>2, <4>4, <6>1
        <5>2. CASE Reflect(a)
          <6>1. stream' \in PerActor(Seq(Event))
            BY <1>1, <4>2, <4>4, <5>2 DEF Reflect
          <6>2. notes' \in PerActor(Seq(Event))
            BY <1>1, <4>2, <4>4, <5>2 DEF Reflect
          <6>3. todo' \subseteq Actors
            BY <1>1, <5>2 DEF Reflect
          <6>4. QED
            BY <6>1, <6>2, <6>3
        <5>3. QED
          BY <4>1, <5>1, <5>2
      <4>6. QED
        <5>1. CASE AppendEpisode(a)
          BY <1>1, <4>5, <5>1 DEF AppendEpisode, routerVars, boxVars
        <5>2. CASE Reflect(a)
          BY <1>1, <4>5, <5>2 DEF Reflect, routerVars, boxVars
        <5>3. QED
          BY <4>1, <5>1, <5>2
    <3>9. CASE Finish
      <4>1. inbox' \in PerActor(Seq(Items)) /\ greet' \in PerActor(SUBSET Items)
        BY <3>9, EmptySeq DEF Finish, PerActor, All
      <4>2. QED
        BY <1>1, <3>9, <4>1 DEF Finish, Phase, routerVars, boxVars, storeVars
    <3>10. QED
      BY <1>3, <3>1, <3>2, <3>3, <3>4, <3>5, <3>6, <3>7, <3>8, <3>9 DEF Tick
  <2>3. QED
    BY <2>1, <2>2
<1>4. CASE Crash
  <2>1. RouterOK'
    <3>1. bus' \in [Items -> {"unsent", "queued", "held", "acked", "dead"}]
      BY <1>1, <1>4 DEF Crash
    <3>2. faults' \in 0..MaxFaults
      BY <1>1, <1>4, Constants DEF Crash, Fault
    <3>3. QED
      BY <1>1, <1>4, <3>1, <3>2 DEF Crash, boxVars
  <2>2. Own'
    BY <1>1, <1>4, EmptySeq DEF Crash, PerActor, All, boxVars, storeVars
  <2>3. QED
    BY <2>1, <2>2
<1>5. QED
  BY <1>3, <1>4

-----------------------------------------------------------------------------
(* The router and the phases.                                                *)

\* The router and JetStream agree about the item in flight, and without faults an
\* item is pushed to an actor once.
LEMMA RouterInvStep ==
  ASSUME TypeOK, MailInv, RouterInv, Router \/ (\E a \in Actors : PushFails(a))
         \/ Tick \/ Crash
  PROVE  RouterInv'
<1>1. faults \in Nat /\ Nothing \notin Items
      /\ bus \in [Items -> {"unsent", "queued", "held", "acked", "dead"}]
      /\ routing \in [item : Items, left : SUBSET Actors] \cup {NoRoute}
  BY Constants, ActorAssumption DEF TypeOK
<1>2. CASE \E i \in Items : Fetch(i)
  <2>1. PICK i \in Items : Fetch(i)
    BY <1>2
  <2>2. /\ bus' = [bus EXCEPT ![i] = "held"] /\ bus[i] = "queued"
        /\ routing' = [item |-> i, left |-> To[i]] /\ routing = NoRoute
        /\ UNCHANGED <<pushed, faults>>
    BY <2>1 DEF Fetch, boxVars
  <2>3. QED
    BY <1>1, <2>2 DEF RouterInv, NoRoute
<1>3. CASE \E b \in Actors : Push(b)
  <2>1. PICK b \in Actors : Push(b)
    BY <1>3
  <2>2. /\ routing' = [routing EXCEPT !.left = @ \ {b}] /\ b \in routing.left
        /\ UNCHANGED <<bus, faults>>
    BY <2>1 DEF Push, Least
  <2>3. /\ routing.item \in Items
        /\ \A i \in Items, a \in Actors :
             pushed'[i][a] = pushed[i][a]
                             + (IF i = routing.item /\ a = b THEN 1 ELSE 0)
    BY <2>1, PushEffect DEF Push
  <2>4. routing'.item = routing.item /\ routing'.left = routing.left \ {b}
    BY <1>1, <2>2, <2>3 DEF NoRoute
  <2>5. bus[routing.item] = "held"
    BY <2>3 DEF RouterInv
  <2>6. \A i \in Items, a \in Actors : pushed[i][a] \in Nat
    BY DEF TypeOK, PerActor
  <2>7. ASSUME NEW i \in Items, NEW a \in Actors, faults' = 0
        PROVE  /\ pushed'[i][a] <= 1
               /\ \/ bus'[i] \in {"unsent", "queued"}
                  \/ routing'.item = i /\ a \in routing'.left
                  => pushed'[i][a] = 0
    <3>1. /\ pushed[i][a] <= 1
          /\ \/ bus[i] \in {"unsent", "queued"}
             \/ routing.item = i /\ a \in routing.left
             => pushed[i][a] = 0
      BY <2>2, <2>7 DEF RouterInv
    <3>2. CASE i = routing.item /\ a = b
      BY <2>2, <2>3, <2>4, <2>5, <2>6, <3>1, <3>2
    <3>3. CASE ~ (i = routing.item /\ a = b)
      BY <2>2, <2>3, <2>4, <2>6, <3>1, <3>3
    <3>4. QED
      BY <3>2, <3>3
  <2>8. QED
    BY <2>2, <2>4, <2>7 DEF RouterInv
<1>4. CASE Ack \/ Refuse
  <2>1. PICK how \in {"acked", "dead"} : Settle(how)
    BY <1>4 DEF Ack, Refuse
  <2>2. /\ bus' = [bus EXCEPT ![routing.item] = how] /\ routing' = NoRoute
        /\ routing.item \in Items
        /\ UNCHANGED <<pushed, faults>>
    BY <1>1, <1>4, <2>1 DEF Ack, Refuse, Readable, Settle, NoRoute, boxVars
  <2>3. QED
    BY <1>1, <2>1, <2>2 DEF RouterInv, NoRoute
<1>5. CASE \E a \in Actors : PushFails(a)
  <2>1. /\ \E how \in {"dead", "queued"} : Settle(how)
        /\ routing.item \in Items /\ faults' # 0
    BY <1>1, <1>5 DEF PushFails, Readable, NoRoute, Fault
  <2>2. PICK how \in {"dead", "queued"} :
          bus' = [bus EXCEPT ![routing.item] = how] /\ routing' = NoRoute
    BY <2>1 DEF Settle
  <2>3. QED
    BY <1>1, <2>1, <2>2 DEF RouterInv, NoRoute
<1>6. CASE Tick
  BY <1>6, TickFrame DEF RouterInv
<1>7. CASE Crash
  <2>1. /\ bus' = [i \in Items |-> IF bus[i] = "held" THEN "queued" ELSE bus[i]]
        /\ routing' = NoRoute /\ faults' # 0
    BY <1>1, <1>7 DEF Crash, Fault
  <2>2. QED
    BY <1>1, <2>1 DEF RouterInv, NoRoute
<1>8. QED
  BY <1>2, <1>3, <1>4, <1>5, <1>6, <1>7 DEF Router

\* RPUSH and LTRIM in one MULTI keep every list at its cap.
LEMMA MailInvStep ==
  ASSUME TypeOK, MailInv, Router \/ (\E a \in Actors : PushFails(a))
         \/ Tick \/ Crash
  PROVE  MailInv'
<1>1. CASE UNCHANGED mail
  BY <1>1 DEF MailInv
<1>2. CASE \E a \in Actors : Readable /\ PushTo(a)
  BY <1>2, PushEffect
<1>3. CASE Perceive
  <2>1. mail' = All(<<>>) /\ Cap \in Nat
    BY <1>3, Constants DEF Perceive
  <2>2. QED
    BY <2>1 DEF MailInv, All
<1>4. QED
  BY <1>1, <1>2, <1>3, MailFrame
     DEF Router, Fetch, Push, Ack, Refuse, PushFails, Crash, boxVars

\* A phase leaves nothing behind for the next one.
LEMMA PhaseInvStep ==
  ASSUME TypeOK, PhaseInv, Router \/ (\E a \in Actors : PushFails(a))
         \/ Tick \/ Crash
  PROVE  PhaseInv'
<1>1. /\ faults \in Nat /\ todo \subseteq Actors
      /\ fresh \in [Actors -> SUBSET Players]
      /\ shifts \in [Actors -> Seq(Event)] /\ out \in [Actors -> Seq(Event)]
  BY Constants DEF TypeOK, PerActor
<1>2. CASE Router \/ \E a \in Actors : PushFails(a)
  BY <1>1, <1>2, RouterFrame DEF PhaseInv
<1>3. CASE Restart \/ Perceive
  BY <1>3 DEF PhaseInv, Restart, Perceive, Wake, mindVars
<1>4. CASE Decide
  BY <1>4 DEF PhaseInv, Decide, All
<1>5. CASE \E a \in Actors : AppendShifts(a) \/ AppendEvents(a)
  <2>1. PICK a \in Actors : AppendShifts(a) \/ AppendEvents(a)
    BY <1>5
  <2>2. CASE AppendShifts(a)
    <3>1. /\ pc = "resolve" /\ a \in todo
          /\ shifts' = [shifts EXCEPT ![a] = <<>>]
          /\ UNCHANGED <<pc, out, fresh, todo, faults>>
      BY <2>2 DEF AppendShifts, Least
    <3>2. QED
      BY <1>1, <3>1 DEF PhaseInv
  <2>3. CASE AppendEvents(a)
    <3>1. /\ pc = "resolve" /\ a \in todo /\ shifts[a] = <<>>
          /\ out' = [out EXCEPT ![a] = <<>>] /\ todo' = todo \ {a}
          /\ UNCHANGED <<pc, shifts, fresh, faults>>
      BY <2>3 DEF AppendEvents, Least
    <3>2. fresh = All({})
      BY <3>1 DEF PhaseInv
    <3>3. QED
      BY <1>1, <3>1, <3>2 DEF PhaseInv, All
  <2>4. QED
    BY <2>1, <2>2, <2>3
<1>6. CASE Resolved
  <2>1. /\ pc = "resolve" /\ todo = {} /\ pc' = "edges" /\ todo' = {}
        /\ UNCHANGED <<shifts, out, fresh, faults>>
    BY <1>6 DEF Resolved, Phase
  <2>2. shifts = All(<<>>) /\ out = All(<<>>)
    BY <1>1, <2>1 DEF PhaseInv, All
  <2>3. QED
    BY <2>1, <2>2 DEF PhaseInv
<1>7. CASE SaveEdges
  <2>1. /\ pc = "edges" /\ pc' = "milestones"
        /\ todo' = {a \in Actors : Known(a) \ bonds[a] # {}}
        /\ fresh' = [a \in Actors |-> Known(a) \ bonds[a]]
        /\ UNCHANGED <<shifts, out, faults>>
    BY <1>7 DEF SaveEdges, Phase
  <2>2. shifts = All(<<>>) /\ out = All(<<>>)
    BY <2>1 DEF PhaseInv
  <2>3. QED
    BY <2>1, <2>2 DEF PhaseInv, All
<1>8. CASE \E a \in Actors, p \in Players : AppendMilestone(a, p)
  <2>1. PICK a \in Actors, p \in Players : AppendMilestone(a, p)
    BY <1>8
  <2>2. /\ pc = "milestones" /\ a \in todo
        /\ fresh' = [fresh EXCEPT ![a] = @ \ {p}]
        /\ todo' = IF fresh[a] = {p} THEN todo \ {a} ELSE todo
        /\ UNCHANGED <<pc, shifts, out, faults>>
    BY <2>1 DEF AppendMilestone, Least
  <2>3. shifts = All(<<>>) /\ out = All(<<>>)
    BY <2>2 DEF PhaseInv
  <2>4. QED
    BY <1>1, <2>2, <2>3 DEF PhaseInv, All
<1>9. CASE Bonded
  <2>1. /\ pc = "milestones" /\ todo = {} /\ pc' = "episodes"
        /\ UNCHANGED <<shifts, out, fresh, faults>>
    BY <1>9 DEF Bonded, Phase, storeVars
  <2>2. fresh = All({}) /\ shifts = All(<<>>) /\ out = All(<<>>)
    BY <1>1, <2>1 DEF PhaseInv, All
  <2>3. QED
    BY <2>1, <2>2 DEF PhaseInv, All
<1>10. CASE (\E a \in Actors : AppendEpisode(a) \/ Reflect(a)) \/ Remembered
             \/ Finish
  <2>1. /\ pc \in {"episodes", "reflect"} /\ pc' \in {"episodes", "reflect", "idle"}
        /\ pc' = "idle" => todo' = {}
        /\ UNCHANGED <<shifts, out, fresh, faults>>
    BY <1>10 DEF AppendEpisode, Reflect, Remembered, Finish, Phase, storeVars
  <2>2. fresh = All({}) /\ shifts = All(<<>>) /\ out = All(<<>>)
    BY <2>1 DEF PhaseInv
  <2>3. QED
    BY <2>1, <2>2 DEF PhaseInv, All
<1>11. CASE Crash
  BY <1>1, <1>11 DEF PhaseInv, Crash, Fault, All
<1>12. QED
  BY <1>2, <1>3, <1>4, <1>5, <1>6, <1>7, <1>8, <1>9, <1>10, <1>11 DEF Tick

-----------------------------------------------------------------------------
(* Counting replies.                                                         *)

RepliesTo(U) == {e \in Event : e.type = "reply" /\ e.of \in U}

\* Replies to the items in U that a has given or is about to append.
Told(a, U) == Times(stream[a], RepliesTo(U)) + Times(out[a], RepliesTo(U))

\* Replies to one item, as RepliesTo counts them.
LEMMA ReplyCount ==
  ASSUME NEW seq \in Seq(Event), NEW i
  PROVE  /\ Replies(i, seq) = Times(seq, RepliesTo({i}))
         /\ Replies(i, seq) \in Nat
<1>1. {e \in Event : e.type = "reply" /\ e.of = i} = RepliesTo({i})
  BY DEF RepliesTo
<1>2. Replies(i, seq) = Times(seq, RepliesTo({i}))
  BY <1>1 DEF Replies
<1>3. Times(seq, RepliesTo({i})) \in Nat
  BY TimesType
<1>4. QED
  BY <1>2, <1>3

\* Events of other types are no replies.
LEMMA NoReplies ==
  ASSUME NEW seq \in Seq(Event), NEW U,
         \A n \in 1..Len(seq) : seq[n].type # "reply"
  PROVE  Times(seq, RepliesTo(U)) = 0
<1>1. \A n \in 1..Len(seq) : seq[n] \notin RepliesTo(U)
  BY DEF RepliesTo
<1>2. QED
  BY <1>1, TimesNone

\* A step that adds to a stream what is no reply.
LEMMA ToldMore ==
  ASSUME TypeOK, NEW b \in Actors, NEW more \in Seq(Event),
         \A n \in 1..Len(more) : more[n].type # "reply",
         stream' = [stream EXCEPT ![b] = @ \o more], out' = out,
         NEW a \in Actors, NEW U
  PROVE  Told(a, U)' = Told(a, U)
<1>1. stream \in [Actors -> Seq(Event)] /\ stream[b] \in Seq(Event)
  BY DEF TypeOK, PerActor
<1>2. CASE a # b
  <2>1. stream'[a] = stream[a]
    BY <1>1, <1>2
  <2>2. QED
    BY <2>1 DEF Told
<1>3. CASE a = b
  <2>1. stream'[a] = stream[a] \o more
    BY <1>1, <1>3
  <2>2. Times(stream[a] \o more, RepliesTo(U))
          = Times(stream[a], RepliesTo(U)) + Times(more, RepliesTo(U))
    BY <1>1, <1>3, TimesConcat
  <2>3. Times(more, RepliesTo(U)) = 0 /\ Times(stream[a], RepliesTo(U)) \in Nat
    BY <1>1, <1>3, NoReplies, TimesType
  <2>4. QED
    BY <2>1, <2>2, <2>3 DEF Told
<1>4. QED
  BY <1>2, <1>3

\* Only DECIDE makes replies.
LEMMA ToldStep ==
  ASSUME TypeOK, StoryInv, Tick, ~ Decide, NEW a \in Actors, NEW U
  PROVE  Told(a, U)' = Told(a, U)
<1>0. /\ stream \in [Actors -> Seq(Event)] /\ out \in [Actors -> Seq(Event)]
      /\ shifts \in [Actors -> Seq(Event)] /\ tick \in Nat
  BY DEF TypeOK, PerActor
<1>1. CASE UNCHANGED <<stream, out>>
  BY <1>1 DEF Told
<1>2. CASE \E b \in Actors : AppendShifts(b)
  <2>1. PICK b \in Actors : AppendShifts(b)
    BY <1>2
  <2>2. \A n \in 1..Len(shifts[b]) : shifts[b][n].type # "reply"
    BY DEF StoryInv
  <2>3. stream' = [stream EXCEPT ![b] = @ \o shifts[b]] /\ out' = out
    BY <2>1 DEF AppendShifts
  <2>4. QED
    BY <1>0, <2>2, <2>3, ToldMore
<1>3. CASE \E b \in Actors : AppendEvents(b)
  <2>1. PICK b \in Actors : AppendEvents(b)
    BY <1>3
  <2>2. /\ stream' = [stream EXCEPT ![b] = @ \o out[b]]
        /\ out' = [out EXCEPT ![b] = <<>>]
    BY <2>1 DEF AppendEvents
  <2>3. CASE a # b
    <3>1. stream'[a] = stream[a] /\ out'[a] = out[a]
      BY <1>0, <2>2, <2>3
    <3>2. QED
      BY <3>1 DEF Told
  <2>4. CASE a = b
    <3>1. stream'[a] = stream[a] \o out[a] /\ out'[a] = <<>>
      BY <1>0, <2>2, <2>4
    <3>2. stream[a] \in Seq(Event) /\ out[a] \in Seq(Event)
      BY <1>0
    <3>3. Times(stream[a] \o out[a], RepliesTo(U))
            = Times(stream[a], RepliesTo(U)) + Times(out[a], RepliesTo(U))
      BY <3>2, TimesConcat
    <3>4. Times(<<>>, RepliesTo(U)) = 0
          /\ Times(stream[a], RepliesTo(U)) \in Nat
          /\ Times(out[a], RepliesTo(U)) \in Nat
      BY <3>2, TimesEmpty, TimesType
    <3>5. QED
      BY <3>1, <3>3, <3>4 DEF Told
  <2>5. QED
    BY <2>3, <2>4
<1>4. CASE \E b \in Actors : AppendEpisode(b) \/ Reflect(b)
  <2>1. PICK b \in Actors : AppendEpisode(b) \/ Reflect(b)
    BY <1>4
  <2>2. /\ stream' = stream
             \/ \E type \in {"episode", "belief"} :
                  stream' = [stream EXCEPT ![b] = Append(@, Now(type, Nothing))]
        /\ out' = out
    BY <2>1 DEF AppendEpisode, Reflect
  <2>3. CASE stream' = stream
    BY <2>2, <2>3 DEF Told
  <2>4. ASSUME NEW type \in {"episode", "belief"},
               stream' = [stream EXCEPT ![b] = Append(@, Now(type, Nothing))]
        PROVE  Told(a, U)' = Told(a, U)
    <3> DEFINE e == Now(type, Nothing)
    <3>1. e \in Event /\ e.type = type
      BY <1>0, NowType DEF Types
    <3> HIDE DEF e
    <3>2. /\ <<e>> \in Seq(Event)
          /\ \A n \in 1..Len(<<e>>) : <<e>>[n].type # "reply"
      BY <3>1
    <3>3. Append(stream[b], e) = stream[b] \o <<e>>
      BY <1>0, <3>1, AppendIsConcat
    <3>4. stream' = [stream EXCEPT ![b] = @ \o <<e>>]
      BY <2>4, <3>3 DEF e
    <3>5. QED
      BY <2>2, <3>2, <3>4, ToldMore
  <2>5. QED
    BY <2>2, <2>3, <2>4
<1>5. QED
  <2>1. Restart \/ Perceive => UNCHANGED <<stream, out>>
    BY DEF Restart, Perceive, mindVars, storeVars
  <2>2. Resolved \/ SaveEdges \/ Bonded \/ Remembered \/ Finish
          => UNCHANGED <<stream, out>>
    BY DEF Resolved, SaveEdges, Bonded, Remembered, Finish, storeVars
  <2>3. (\E b \in Actors, p \in Players : AppendMilestone(b, p))
          => UNCHANGED <<stream, out>>
    BY DEF AppendMilestone
  <2>4. QED
    BY <1>1, <1>2, <1>3, <1>4, <2>1, <2>2, <2>3 DEF Tick

\* DECIDE makes one reply per answer.
LEMMA ToldDecide ==
  ASSUME TypeOK, PhaseInv, Decide, NEW a \in Actors, NEW U
  PROVE  /\ Told(a, U)' = Told(a, U)
                          + Times(inbox[a], OfKind("word") \cap U)
                          + Times(inbox[a], greet[a] \cap U)
         /\ Told(a, U) \in Nat /\ Times(stream[a], RepliesTo(U)) = Told(a, U)
<1> DEFINE R == RepliesTo(U)
           made == Each("reply", Answers(a))
           due == IfDue(a, "act")
<1>1. /\ stream[a] \in Seq(Event) /\ inbox[a] \in Seq(Items) /\ tick \in Nat
      /\ Answers(a) \in Seq(Items) /\ {"reply", "act"} \subseteq Types
  BY AnswersType DEF TypeOK, PerActor, Types
<1>2. out[a] = <<>> /\ stream' = stream
  BY DEF Decide, PhaseInv, All, storeVars
<1>3. /\ made \in Seq(Event) /\ Len(made) = Len(Answers(a))
      /\ \A n \in 1..Len(Answers(a)) :
           made[n].type = "reply" /\ made[n].of = Answers(a)[n]
  BY <1>1, EachType
<1>4. due \in Seq(Event) /\ \A n \in 1..Len(due) : due[n].type # "reply"
  BY <1>1, IfDueType
<1>5. /\ notes'[a] \in Seq(Event)
      /\ \A n \in 1..Len(notes'[a]) : notes'[a][n].type # "reply"
      /\ out'[a] = (notes'[a] \o made) \o due
  BY DecideEffect
<1>6. Times(made, R) = Times(Answers(a), U)
  <2>1. \A n \in 1..Len(made) : made[n] \in Event
    BY <1>3, ElementOfSeq
  <2> HIDE DEF made
  <2>2. \A n \in 1..Len(made) : made[n] \in R <=> Answers(a)[n] \in U
    BY <1>3, <2>1 DEF RepliesTo
  <2> HIDE DEF R
  <2>3. QED
    BY <1>3, <2>2, TimesSame
<1>7. Times(notes'[a], R) = 0 /\ Times(due, R) = 0
  BY <1>4, <1>5, NoReplies
<1> HIDE DEF made, due
<1>8. notes'[a] \o made \in Seq(Event)
  BY <1>3, <1>5, ConcatProperties
<1> HIDE DEF R
<1>9. /\ Times(out'[a], R) = Times(notes'[a] \o made, R) + Times(due, R)
      /\ Times(notes'[a] \o made, R) = Times(notes'[a], R) + Times(made, R)
  <2> DEFINE front == notes'[a] \o made
  <2>1. Times(front, R) = Times(notes'[a], R) + Times(made, R)
    BY <1>3, <1>5, TimesConcat
  <2>2. front \in Seq(Event) /\ out'[a] = front \o due
    BY <1>5, <1>8
  <2> HIDE DEF front
  <2>3. Times(out'[a], R) = Times(front, R) + Times(due, R)
    BY <1>4, <2>2, TimesConcat
  <2>4. QED
    BY <2>1, <2>3 DEF front
<1>10. Times(made, R) \in Nat /\ Times(stream[a], R) \in Nat
       /\ Times(<<>>, R) = 0
  BY <1>1, <1>3, TimesType, TimesEmpty
<1>11. Times(out'[a], R) = Times(Answers(a), U)
  BY <1>6, <1>7, <1>9, <1>10
<1>12. Times(Answers(a), U) = Times(inbox[a], OfKind("word") \cap U)
                              + Times(inbox[a], greet[a] \cap U)
  <2> DEFINE words == Where(inbox[a], OfKind("word"))
             likes == Where(inbox[a], greet[a])
  <2>1. words \in Seq(Items) /\ likes \in Seq(Items)
    BY <1>1, WhereType
  <2>2. /\ Times(words, U) = Times(inbox[a], OfKind("word") \cap U)
        /\ Times(likes, U) = Times(inbox[a], greet[a] \cap U)
    BY <1>1, WhereTimes
  <2>3. Answers(a) = words \o likes
    BY DEF Answers
  <2> HIDE DEF words, likes
  <2>4. Times(words \o likes, U) = Times(words, U) + Times(likes, U)
    BY <2>1, TimesConcat
  <2>5. QED
    BY <2>2, <2>3, <2>4
<1>13. Times(inbox[a], OfKind("word") \cap U) \in Nat
       /\ Times(inbox[a], greet[a] \cap U) \in Nat
  BY <1>1, TimesType
<1>14. Told(a, U) = Times(stream[a], R) + 0
  BY <1>2, <1>10 DEF Told, R
<1>15. Told(a, U)' = Times(stream[a], R) + Times(out'[a], R)
  BY <1>2 DEF Told, R
<1>16. QED
  BY <1>10, <1>11, <1>12, <1>13, <1>14, <1>15 DEF R

-----------------------------------------------------------------------------
(* Words, copy by copy.                                                      *)

\* Where the copies of i are that a has answered or will.
Ledger(i, a) ==
  Copies(i, mail[a])
  + (IF pc = "decide" THEN Copies(i, inbox[a]) ELSE 0)
  + Told(a, {i})

\* What NoReplyTwice and WordsAreAnswered add up is the ledger, a number.
LEMMA LedgerIs ==
  ASSUME TypeOK, NEW a \in Actors, NEW i
  PROVE  /\ Waiting(i, a) + Replies(i, stream[a]) = Ledger(i, a)
         /\ Ledger(i, a) \in Nat /\ Told(a, {i}) \in Nat
         /\ Copies(i, mail[a]) \in Nat /\ Copies(i, inbox[a]) \in Nat
<1>1. /\ mail[a] \in Seq(Items) /\ inbox[a] \in Seq(Items)
      /\ stream[a] \in Seq(Event) /\ out[a] \in Seq(Event)
  BY DEF TypeOK, PerActor
<1>2. Copies(i, mail[a]) \in Nat /\ Copies(i, inbox[a]) \in Nat
  BY <1>1, TimesType DEF Copies
<1>3. /\ Replies(i, out[a]) \in Nat /\ Replies(i, stream[a]) \in Nat
      /\ Replies(i, out[a]) = Times(out[a], RepliesTo({i}))
      /\ Replies(i, stream[a]) = Times(stream[a], RepliesTo({i}))
  BY <1>1, ReplyCount
<1>4. Told(a, {i}) = Replies(i, stream[a]) + Replies(i, out[a])
  BY <1>3 DEF Told
<1>5. QED
  BY <1>2, <1>3, <1>4 DEF Waiting, Ledger

\* The same of the next state.
LEMMA LedgerIsNext ==
  ASSUME TypeOK', NEW a \in Actors, NEW i
  PROVE  (/\ Waiting(i, a) + Replies(i, stream[a]) = Ledger(i, a)
          /\ Ledger(i, a) \in Nat)'
<1>1. /\ mail'[a] \in Seq(Items) /\ inbox'[a] \in Seq(Items)
      /\ stream'[a] \in Seq(Event) /\ out'[a] \in Seq(Event)
  BY DEF TypeOK, PerActor
<1>2. Copies(i, mail'[a]) \in Nat /\ Copies(i, inbox'[a]) \in Nat
  BY <1>1, TimesType DEF Copies
<1>3. /\ Replies(i, out'[a]) \in Nat /\ Replies(i, stream'[a]) \in Nat
      /\ Replies(i, out'[a]) = Times(out'[a], RepliesTo({i}))
      /\ Replies(i, stream'[a]) = Times(stream'[a], RepliesTo({i}))
  BY <1>1, ReplyCount
<1>4. Told(a, {i})' = Replies(i, stream'[a]) + Replies(i, out'[a])
  BY <1>3 DEF Told, RepliesTo
<1>5. QED
  BY <1>2, <1>3, <1>4 DEF Waiting, Ledger, Copies, Replies

\* Of the copies an actor drained, DECIDE answers every one of a word and none
\* twice.
LEMMA AnswerCount ==
  ASSUME TypeOK, GreetInv, pc = "decide", NEW a \in Actors, NEW i \in Items
  PROVE  LET n == Times(inbox[a], OfKind("word") \cap {i})
                  + Times(inbox[a], greet[a] \cap {i})
         IN /\ n <= Copies(i, inbox[a])
            /\ Kind[i] = "word" => n = Copies(i, inbox[a])
<1> DEFINE box == inbox[a]
           word == OfKind("word") \cap {i}
           like == greet[a] \cap {i}
<1>1. box \in Seq(Items)
  BY DEF TypeOK, PerActor
<1>2. /\ Times(box, word) \in Nat /\ Times(box, like) \in Nat
      /\ Times(box, {i}) \in Nat
  BY <1>1, TimesType
<1>3. Times(box, {}) = 0
  BY <1>1, TimesNone
<1>4. CASE Kind[i] = "word"
  <2>1. word = {i} /\ like = {}
    BY <1>4 DEF OfKind, GreetInv
  <2> HIDE DEF box, word, like
  <2>2. Times(box, word) = Times(box, {i}) /\ Times(box, like) = 0
    BY <1>3, <2>1
  <2>3. Times(box, word) + Times(box, like) = Times(box, {i})
    BY <1>2, <2>2
  <2>4. Times(box, {i}) <= Times(box, {i})
    BY <1>2
  <2>5. QED
    BY <2>3, <2>4 DEF Copies, box, word, like
<1>5. CASE Kind[i] # "word"
  <2>1. word = {} /\ (like = {} \/ like = {i})
    BY <1>5 DEF OfKind
  <2> HIDE DEF box, word, like
  <2>2. /\ Times(box, word) = 0
        /\ Times(box, like) = 0 \/ Times(box, like) = Times(box, {i})
    BY <1>3, <2>1
  <2>3. Times(box, word) + Times(box, like) <= Times(box, {i})
    BY <1>2, <2>2
  <2>4. QED
    BY <1>5, <2>3 DEF Copies, box, word, like
<1>6. QED
  BY <1>4, <1>5

\* What is held besides does not matter to a balance.
LEMMA Balance ==
  ASSUME NEW pre \in Nat, NEW post \in Nat, NEW rest \in Nat, NEW in \in Nat,
         NEW out1 \in Nat, NEW out2 \in Nat, NEW in2 \in Nat,
         post + out2 + in = pre + out1 + in2
  PROVE  (post + rest) + out2 + in = (pre + rest) + out1 + in2
OBVIOUS

\* The router adds to the ledger what it pushes, less what is trimmed.
LEMMA LedgerRouter ==
  ASSUME TypeOK, MailInv, Router \/ \E b \in Actors : PushFails(b),
         NEW a \in Actors, NEW i \in Items
  PROVE  /\ Ledger(i, a)' + dropped'[i][a] + pushed[i][a]
              = Ledger(i, a) + dropped[i][a] + pushed'[i][a]
         /\ dropped[i][a] \in Nat /\ pushed[i][a] \in Nat
         /\ dropped'[i][a] \in Nat /\ pushed'[i][a] \in Nat
         /\ dropped'[i][a] >= dropped[i][a]
<1>1. TypeOK'
  BY RouterTypeOK
<1>2. /\ dropped[i][a] \in Nat /\ pushed[i][a] \in Nat
      /\ dropped'[i][a] \in Nat /\ pushed'[i][a] \in Nat
  BY <1>1 DEF TypeOK, PerActor
<1>3. Told(a, {i})' = Told(a, {i}) /\ pc' = pc /\ inbox' = inbox
  BY RouterFrame DEF Told
<1>4. /\ Copies(i, mail'[a]) + dropped'[i][a] + pushed[i][a]
           = Copies(i, mail[a]) + dropped[i][a] + pushed'[i][a]
      /\ dropped'[i][a] >= dropped[i][a]
  <2>1. CASE UNCHANGED boxVars
    BY <1>2, <2>1 DEF boxVars
  <2>2. CASE \E b \in Actors : Readable /\ PushTo(b)
    BY <2>2, PushEffect
  <2>3. QED
    BY <2>1, <2>2 DEF Router, Fetch, Push, Ack, Refuse, PushFails
<1>5. /\ Copies(i, mail[a]) \in Nat /\ Copies(i, inbox[a]) \in Nat
      /\ Told(a, {i}) \in Nat
  BY LedgerIs
<1>6. mail'[a] \in Seq(Items)
  BY <1>1 DEF TypeOK, PerActor
<1>7. Copies(i, mail'[a]) \in Nat
  BY <1>6, TimesType DEF Copies
<1>8. Ledger(i, a)' = Copies(i, mail'[a])
                      + (IF pc = "decide" THEN Copies(i, inbox[a]) ELSE 0)
                      + Told(a, {i})
  BY <1>3 DEF Ledger, Copies
<1> DEFINE rest == (IF pc = "decide" THEN Copies(i, inbox[a]) ELSE 0)
                   + Told(a, {i})
<1>9. rest \in Nat
  BY <1>5
<1>10. /\ Ledger(i, a)' = Copies(i, mail'[a]) + rest
       /\ Ledger(i, a) = Copies(i, mail[a]) + rest
  BY <1>5, <1>7, <1>8 DEF Ledger
<1> HIDE DEF rest
<1>11. (Copies(i, mail'[a]) + rest) + dropped'[i][a] + pushed[i][a]
         = (Copies(i, mail[a]) + rest) + dropped[i][a] + pushed'[i][a]
  BY <1>2, <1>4, <1>5, <1>7, <1>9, Balance
<1>12. QED
  BY <1>2, <1>4, <1>10, <1>11

\* The tick moves words from mailbox to inbox to answer, and loses none.
LEMMA LedgerTick ==
  ASSUME TypeOK, PhaseInv, GreetInv, StoryInv, Tick,
         NEW a \in Actors, NEW i \in Items
  PROVE  /\ Ledger(i, a)' <= Ledger(i, a)
         /\ Kind[i] = "word" => Ledger(i, a)' = Ledger(i, a)
<1>1. /\ Copies(i, mail[a]) \in Nat /\ Copies(i, inbox[a]) \in Nat
      /\ Told(a, {i}) \in Nat
  BY LedgerIs
<1>2. CASE Perceive
  <2>1. /\ pc = "idle" /\ pc' = "decide" /\ mail'[a] = <<>> /\ inbox' = mail
    BY <1>2 DEF Perceive, Wake, All
  <2>2. Told(a, {i})' = Told(a, {i})
    BY <1>2 DEF Perceive, Told, storeVars
  <2>3. Copies(i, mail'[a]) = 0
    BY <2>1, TimesEmpty DEF Copies
  <2>4. /\ Ledger(i, a)' = 0 + Copies(i, mail[a]) + Told(a, {i})
        /\ Ledger(i, a) = Copies(i, mail[a]) + 0 + Told(a, {i})
    BY <2>1, <2>2, <2>3 DEF Ledger, Copies
  <2>5. QED
    BY <1>1, <2>4
<1>3. CASE Decide
  <2>1. pc = "decide" /\ pc' = "resolve" /\ mail' = mail
    BY <1>3 DEF Decide, routerVars, boxVars
  <2> DEFINE n == Times(inbox[a], OfKind("word") \cap {i})
             k == Times(inbox[a], greet[a] \cap {i})
  <2>2. Told(a, {i})' = Told(a, {i}) + n + k
    BY <1>3, ToldDecide
  <2>3. /\ n + k <= Copies(i, inbox[a])
        /\ Kind[i] = "word" => n + k = Copies(i, inbox[a])
    BY <2>1, AnswerCount
  <2>4. inbox[a] \in Seq(Items)
    BY DEF TypeOK, PerActor
  <2>5. n \in Nat /\ k \in Nat
    BY <2>4, TimesType
  <2> HIDE DEF n, k
  <2>6. /\ Ledger(i, a)' = Copies(i, mail[a]) + 0 + (Told(a, {i}) + n + k)
        /\ Ledger(i, a) = Copies(i, mail[a]) + Copies(i, inbox[a]) + Told(a, {i})
    BY <2>1, <2>2 DEF Ledger, Copies
  <2>7. QED
    BY <1>1, <2>3, <2>5, <2>6
<1>4. CASE ~ Perceive /\ ~ Decide
  <2>1. mail' = mail
    BY <1>4, MailFrame
  <2>2. Told(a, {i})' = Told(a, {i})
    BY <1>4, ToldStep
  <2>3. pc # "decide" /\ pc' # "decide"
    BY <1>4, DecideFrame
  <2>4. Ledger(i, a)' = Ledger(i, a)
    BY <2>1, <2>2, <2>3 DEF Ledger, Copies
  <2>5. Ledger(i, a) \in Nat
    BY LedgerIs
  <2>6. QED
    BY <2>4, <2>5
<1>5. QED
  BY <1>2, <1>3, <1>4

\* A crash loses the copies that were drained and not yet answered.
LEMMA LedgerCrash ==
  ASSUME TypeOK, Crash, NEW a \in Actors, NEW i \in Items
  PROVE  Ledger(i, a)' <= Ledger(i, a)
<1>1. /\ mail' = mail /\ pc' # "decide" /\ stream' = stream /\ out'[a] = <<>>
  BY DEF Crash, boxVars, storeVars, All
<1>2. stream[a] \in Seq(Event) /\ out[a] \in Seq(Event)
  BY DEF TypeOK, PerActor
<1> DEFINE R == RepliesTo({i})
<1>3. /\ Told(a, {i})' = Times(stream[a], R) + Times(out'[a], R)
      /\ Told(a, {i}) = Times(stream[a], R) + Times(out[a], R)
  BY <1>1 DEF Told, RepliesTo
<1> HIDE DEF R
<1>4. /\ Times(out'[a], R) = 0
      /\ Times(stream[a], R) \in Nat /\ Times(out[a], R) \in Nat
  BY <1>1, <1>2, TimesEmpty, TimesType
<1>5. Copies(i, mail[a]) \in Nat /\ Copies(i, inbox[a]) \in Nat
  BY LedgerIs
<1>6. Ledger(i, a)' = Copies(i, mail[a]) + 0 + Told(a, {i})'
  BY <1>1 DEF Ledger, Copies
<1>7. QED
  BY <1>3, <1>4, <1>5, <1>6 DEF Ledger

\* No step makes an answer that was not delivered.
LEMMA NoReplyTwiceStep ==
  ASSUME TypeOK, MailInv, RouterInv, PhaseInv, GreetInv, StoryInv, NoReplyTwice,
         Router \/ (\E b \in Actors : PushFails(b)) \/ Tick \/ Crash
  PROVE  NoReplyTwice'
<1>1. TypeOK'
  BY RouterTypeOK, TickTypeOK
<1> SUFFICES ASSUME NEW i \in Items, NEW a \in Actors
             PROVE  (Waiting(i, a) + Replies(i, stream[a]) <= pushed[i][a])'
  BY DEF NoReplyTwice
<1>2. /\ Waiting(i, a) + Replies(i, stream[a]) = Ledger(i, a)
      /\ Ledger(i, a) \in Nat
  BY LedgerIs
<1>3. (/\ Waiting(i, a) + Replies(i, stream[a]) = Ledger(i, a)
       /\ Ledger(i, a) \in Nat)'
  BY <1>1, LedgerIsNext
<1>4. Ledger(i, a) <= pushed[i][a] /\ pushed[i][a] \in Nat
  BY <1>2 DEF NoReplyTwice, TypeOK, PerActor
<1>5. CASE Router \/ \E b \in Actors : PushFails(b)
  <2>1. /\ Ledger(i, a)' + dropped'[i][a] + pushed[i][a]
             = Ledger(i, a) + dropped[i][a] + pushed'[i][a]
        /\ dropped[i][a] \in Nat /\ dropped'[i][a] \in Nat
        /\ pushed'[i][a] \in Nat /\ dropped'[i][a] >= dropped[i][a]
    BY <1>5, LedgerRouter
  <2>2. Ledger(i, a)' <= pushed'[i][a]
    BY <1>2, <1>3, <1>4, <2>1
  <2>3. QED
    BY <1>3, <2>2
<1>6. CASE Tick \/ Crash
  <2>1. Ledger(i, a)' <= Ledger(i, a)
    BY <1>6, LedgerTick, LedgerCrash
  <2>2. pushed' = pushed
    BY <1>6, TickFrame DEF Crash, boxVars
  <2>3. QED
    BY <1>2, <1>3, <1>4, <2>1, <2>2
<1>7. QED
  BY <1>5, <1>6

\* Without faults the balance of pushed, answered, waiting and trimmed words holds.
LEMMA WordsStep ==
  ASSUME TypeOK, MailInv, PhaseInv, GreetInv, StoryInv, WordsAreAnswered,
         Router \/ (\E b \in Actors : PushFails(b)) \/ Tick \/ Crash
  PROVE  WordsAreAnswered'
<1>1. TypeOK'
  BY RouterTypeOK, TickTypeOK
<1>2. faults \in Nat /\ (faults' = faults \/ faults' = faults + 1)
  <2>1. faults \in Nat
    BY Constants DEF TypeOK
  <2>2. QED
    BY <2>1, RouterFrame, TickFrame DEF Crash, Fault
<1> SUFFICES ASSUME faults' = 0, NEW i \in Words, NEW a \in Actors
             PROVE  (Waiting(i, a) + Replies(i, stream[a]) + dropped[i][a]
                       = pushed[i][a])'
  BY DEF WordsAreAnswered, Words
<1>3. faults = 0 /\ i \in Items /\ Kind[i] = "word"
  BY <1>2 DEF Words
<1>4. /\ Waiting(i, a) + Replies(i, stream[a]) = Ledger(i, a)
      /\ Ledger(i, a) \in Nat
  BY <1>3, LedgerIs
<1>5. (/\ Waiting(i, a) + Replies(i, stream[a]) = Ledger(i, a)
       /\ Ledger(i, a) \in Nat)'
  BY <1>1, <1>3, LedgerIsNext
<1>6. Ledger(i, a) + dropped[i][a] = pushed[i][a]
      /\ pushed[i][a] \in Nat /\ dropped[i][a] \in Nat
  BY <1>3, <1>4 DEF WordsAreAnswered, TypeOK, PerActor
<1>7. CASE Router \/ \E b \in Actors : PushFails(b)
  <2>1. /\ Ledger(i, a)' + dropped'[i][a] + pushed[i][a]
             = Ledger(i, a) + dropped[i][a] + pushed'[i][a]
        /\ dropped'[i][a] \in Nat /\ pushed'[i][a] \in Nat
    BY <1>3, <1>7, LedgerRouter
  <2>2. QED
    BY <1>4, <1>5, <1>6, <2>1
<1>8. CASE Tick
  <2>1. Ledger(i, a)' = Ledger(i, a)
    BY <1>3, <1>8, LedgerTick
  <2>2. pushed' = pushed /\ dropped' = dropped
    BY <1>8, TickFrame
  <2>3. QED
    BY <1>4, <1>5, <1>6, <2>1, <2>2
<1>9. CASE Crash
  BY <1>2, <1>3, <1>9 DEF Crash, Fault
<1>10. QED
  BY <1>7, <1>8, <1>9

-----------------------------------------------------------------------------
(* Greetings.                                                                *)

\* While nothing failed an item is in a mailbox once.
LEMMA MailedOnce ==
  ASSUME TypeOK, RouterInv, NoReplyTwice, faults = 0, NEW a \in Actors,
         NEW m \in 1..Len(mail[a]), NEW n \in 1..Len(mail[a]),
         mail[a][m] = mail[a][n]
  PROVE  m = n
<1> DEFINE i == mail[a][m]
<1>1. mail[a] \in Seq(Items)
  BY DEF TypeOK, PerActor
<1>2. i \in Items
  BY <1>1, ElementOfSeq
<1> HIDE DEF i
<1>3. Ledger(i, a) <= pushed[i][a] /\ pushed[i][a] <= 1
  <2>1. Waiting(i, a) + Replies(i, stream[a]) = Ledger(i, a)
    BY LedgerIs
  <2>2. Waiting(i, a) + Replies(i, stream[a]) <= pushed[i][a]
    BY <1>2 DEF NoReplyTwice
  <2>3. QED
    BY <1>2, <2>1, <2>2 DEF RouterInv
<1>4. /\ Copies(i, mail[a]) \in Nat /\ Copies(i, inbox[a]) \in Nat
      /\ Told(a, {i}) \in Nat /\ pushed[i][a] \in Nat
  BY <1>2, LedgerIs DEF TypeOK, PerActor
<1>5. Times(mail[a], {i}) <= 1
  BY <1>3, <1>4 DEF Ledger, Copies
<1>6. mail[a][m] \in {i} /\ mail[a][n] \in {i}
  BY DEF i
<1>7. QED
  BY <1>1, <1>5, <1>6, TimesOnce

\* What a drain chooses to greet: likes of players without an edge, one each.
LEMMA FirstLikesOnce ==
  ASSUME TypeOK, NEW a \in Actors
  PROVE  /\ FirstLikes(a) \subseteq Items
         /\ \A i \in FirstLikes(a) : Kind[i] = "like" /\ From[i] \notin bonds[a]
         /\ \A i, j \in FirstLikes(a) :
              From[i] = From[j] =>
                \E m \in 1..Len(mail[a]) : mail[a][m] = i /\ mail[a][m] = j
<1> DEFINE box == mail[a]
           first == {n \in 1..Len(box) :
                       /\ Kind[box[n]] = "like"
                       /\ From[box[n]] \notin bonds[a]
                       /\ \A m \in 1..(n - 1) :
                            Kind[box[m]] = "like" => From[box[m]] # From[box[n]]}
<1>1. box \in Seq(Items) /\ Len(box) \in Nat
  BY DEF TypeOK, PerActor
<1>2. \A n \in 1..Len(box) : box[n] \in Items
  BY <1>1, ElementOfSeq
<1>3. \A i \in FirstLikes(a) : \E n \in first : i = box[n]
  BY DEF FirstLikes
<1> HIDE DEF box
<1>4. \A m, n \in first : From[box[m]] = From[box[n]] => m = n
  <2> SUFFICES ASSUME NEW m \in first, NEW n \in first,
                      From[box[m]] = From[box[n]]
               PROVE  m = n
    OBVIOUS
  <2>1. m \in 1..Len(box) /\ n \in 1..Len(box)
    OBVIOUS
  <2>2. m < n => m \in 1..(n - 1)
    BY <1>1, <2>1
  <2>3. n < m => n \in 1..(m - 1)
    BY <1>1, <2>1
  <2>4. QED
    BY <1>1, <2>1, <2>2, <2>3
<1>5. QED
  BY <1>2, <1>3, <1>4 DEF box

\* What is about to be greeted is one like per player without an edge.
LEMMA GreetInvStep ==
  ASSUME TypeOK, RouterInv, PhaseInv, NoReplyTwice, GreetInv,
         Router \/ (\E b \in Actors : PushFails(b)) \/ Tick \/ Crash
  PROVE  GreetInv'
<1>1. CASE Router \/ \E b \in Actors : PushFails(b)
  <2>1. /\ UNCHANGED <<pc, inbox, greet, bonds>>
        /\ faults' = 0 => faults = 0
    <3>1. faults \in Nat
      BY Constants DEF TypeOK
    <3>2. QED
      BY <1>1, <3>1, RouterFrame
  <2>2. QED
    BY <2>1 DEF GreetInv
<1>2. CASE Perceive
  <2>1. /\ inbox' = mail /\ faults' = faults /\ bonds' = bonds
        /\ \A a \in Actors : greet'[a] = FirstLikes(a)
    BY <1>2 DEF Perceive, Wake, storeVars
  <2>2. ASSUME NEW a \in Actors, faults = 0, NEW p \in Players
        PROVE  Times(mail[a], FirstLikes(a) \cap LikesOf(p)) <= 1
    <3> DEFINE S == FirstLikes(a) \cap LikesOf(p)
    <3>1. mail[a] \in Seq(Items)
      BY DEF TypeOK, PerActor
    <3>2. ASSUME NEW m \in 1..Len(mail[a]), NEW n \in 1..Len(mail[a]),
                 mail[a][m] \in S, mail[a][n] \in S
          PROVE  m = n
      <4>1. From[mail[a][m]] = p /\ From[mail[a][n]] = p
        BY <3>2 DEF LikesOf
      <4>2. mail[a][m] = mail[a][n]
        BY <3>2, <4>1, FirstLikesOnce
      <4>3. QED
        BY <2>2, <4>2, MailedOnce
    <3> HIDE DEF S
    <3>3. Times(mail[a], S) <= 1
      BY <3>1, <3>2, TimesOnce
    <3>4. QED
      BY <3>3 DEF S
  <2>3. \A a \in Actors : \A i \in FirstLikes(a) :
          Kind[i] = "like" /\ From[i] \notin bonds[a]
    BY FirstLikesOnce
  <2>4. \A p : LikesOf(p)' = LikesOf(p)
    BY DEF LikesOf, OfKind
  <2>5. QED
    BY <2>1, <2>2, <2>3 DEF GreetInv, LikesOf, OfKind
<1>3. CASE (Tick /\ ~ Perceive) \/ Crash
  <2>1. pc' # "decide"
    BY <1>3, DecideFrame DEF Crash
  <2>2. QED
    BY <2>1 DEF GreetInv
<1>4. QED
  BY <1>1, <1>2, <1>3

\* Greetings of a player are the replies to its likes.
LEMMA GreetingsAreTold ==
  ASSUME NEW a \in Actors, NEW p
  PROVE  /\ Greetings(p, stream[a]) + Greetings(p, out[a]) = Told(a, LikesOf(p))
         /\ (Greetings(p, stream[a]) + Greetings(p, out[a])
               = Told(a, LikesOf(p)))'
<1>1. \A seq : Greetings(p, seq) = Times(seq, RepliesTo(LikesOf(p)))
  BY DEF Greetings, RepliesTo
<1>2. (\A seq : Greetings(p, seq) = Times(seq, RepliesTo(LikesOf(p))))'
  BY DEF Greetings, RepliesTo
<1>3. QED
  BY <1>1, <1>2 DEF Told

\* The edges an actor has only change when the interactions of a tick are
\* recorded, and what it perceived is known until then.
LEMMA EdgeFrame ==
  ASSUME Tick, ~ Perceive, ~ Decide, ~ SaveEdges
  PROVE  /\ bonds' = bonds
         /\ pc \in {"resolve", "edges"} =>
              pc' \in {"resolve", "edges"} /\ inbox' = inbox
<1>1. CASE \E b \in Actors : AppendShifts(b) \/ AppendEvents(b)
  BY <1>1 DEF AppendShifts, AppendEvents
<1>2. CASE \E b \in Actors, p \in Players : AppendMilestone(b, p)
  BY <1>2 DEF AppendMilestone
<1>3. CASE \E b \in Actors : AppendEpisode(b) \/ Reflect(b)
  BY <1>3 DEF AppendEpisode, Reflect
<1>4. CASE Restart \/ Resolved \/ Bonded \/ Remembered \/ Finish
  BY <1>4 DEF Restart, Resolved, Bonded, Remembered, Finish, Phase, storeVars
<1>5. QED
  BY <1>1, <1>2, <1>3, <1>4 DEF Tick

\* A greeting is made once and an edge follows it before the next drain.
LEMMA GreetedInvStep ==
  ASSUME TypeOK, PhaseInv, GreetInv, StoryInv, GreetedInv,
         Router \/ (\E b \in Actors : PushFails(b)) \/ Tick \/ Crash
  PROVE  GreetedInv'
<1>0. faults \in Nat /\ (faults' = faults \/ faults' = faults + 1)
  <2>1. faults \in Nat
    BY Constants DEF TypeOK
  <2>2. QED
    BY <2>1, RouterFrame, TickFrame DEF Crash, Fault
<1> DEFINE Good(a, p) ==
             /\ Told(a, LikesOf(p)) <= 1
             /\ Told(a, LikesOf(p)) > 0 =>
                  \/ p \in bonds[a]
                  \/ pc \in {"resolve", "edges"} /\ p \in Known(a)
<1>1. faults = 0 => \A a \in Actors, p \in Players : Good(a, p)
  BY GreetingsAreTold DEF GreetedInv
<1> SUFFICES ASSUME faults' = 0, NEW a \in Actors, NEW p \in Players
             PROVE  Good(a, p)'
  BY GreetingsAreTold DEF GreetedInv
<1>2. faults = 0 /\ Good(a, p)
  BY <1>0, <1>1
<1>3. inbox' = inbox => Known(a)' = Known(a)
  BY DEF Known
<1>4. CASE Router \/ \E b \in Actors : PushFails(b)
  <2>1. UNCHANGED <<pc, inbox, stream, out, bonds>>
    BY <1>4, RouterFrame
  <2>2. Told(a, LikesOf(p))' = Told(a, LikesOf(p))
    BY <2>1 DEF Told, RepliesTo, LikesOf, OfKind
  <2>3. QED
    BY <1>2, <1>3, <2>1, <2>2
<1>5. CASE Perceive
  <2>1. pc = "idle" /\ UNCHANGED <<stream, out, bonds>>
    BY <1>5 DEF Perceive, Wake, storeVars
  <2>2. Told(a, LikesOf(p))' = Told(a, LikesOf(p))
    BY <2>1 DEF Told, RepliesTo, LikesOf, OfKind
  <2>3. QED
    BY <1>2, <2>1, <2>2
<1>6. CASE Decide
  <2> DEFINE U == LikesOf(p)
             k == Times(inbox[a], greet[a] \cap U)
  <2>1. /\ pc = "decide" /\ pc' = "resolve"
        /\ inbox' = inbox /\ bonds' = bonds
    BY <1>6 DEF Decide, storeVars
  <2>2. inbox[a] \in Seq(Items)
    BY DEF TypeOK, PerActor
  <2>3. OfKind("word") \cap U = {}
    BY DEF LikesOf, OfKind
  <2>4. Times(inbox[a], OfKind("word") \cap U) = 0
    BY <2>2, <2>3, TimesNone
  <2>5. /\ k \in Nat /\ k <= 1
        /\ k > 0 => \E n \in 1..Len(inbox[a]) : inbox[a][n] \in greet[a] \cap U
    <3>1. k \in Nat /\ k <= 1
      BY <1>2, <2>1, <2>2, TimesType DEF GreetInv
    <3>2. k # 0 => \E n \in 1..Len(inbox[a]) : inbox[a][n] \in greet[a] \cap U
      BY <2>2, TimesNone
    <3>3. QED
      BY <3>1, <3>2
  <2>6. k > 0 => p \notin bonds[a] /\ p \in Known(a)
    <3>1. \A i \in greet[a] \cap U : /\ Kind[i] = "like" /\ From[i] = p
                                     /\ From[i] \notin bonds[a]
      BY <2>1 DEF GreetInv, LikesOf
    <3>2. QED
      BY <2>5, <3>1 DEF Known
  <2>7. Told(a, U)' = Told(a, U) + Times(inbox[a], OfKind("word") \cap U) + k
        /\ Told(a, U) \in Nat
    BY <1>6, ToldDecide
  <2>8. LikesOf(p)' = U
    BY DEF LikesOf, OfKind
  <2>9. Told(a, U) > 0 => p \in bonds[a]
    BY <1>2, <2>1
  <2>10. Told(a, U) <= 1
    BY <1>2
  <2> HIDE DEF U, k
  <2>11. /\ Told(a, U)' <= 1
         /\ Told(a, U)' > 0 => p \in bonds[a] \/ p \in Known(a)
    BY <2>4, <2>5, <2>6, <2>7, <2>9, <2>10
  <2>12. QED
    BY <1>3, <2>1, <2>8, <2>11 DEF U
<1>7. CASE Tick /\ ~ Perceive /\ ~ Decide
  <2>1. Told(a, LikesOf(p))' = Told(a, LikesOf(p))
    BY <1>7, ToldStep DEF LikesOf, OfKind
  <2>2. CASE SaveEdges
    <3>1. bonds'[a] = bonds[a] \cup Known(a)
      BY <2>2 DEF SaveEdges
    <3>2. QED
      BY <1>2, <2>1, <3>1
  <2>3. CASE ~ SaveEdges
    <3>1. /\ bonds' = bonds
          /\ pc \in {"resolve", "edges"} =>
               pc' \in {"resolve", "edges"} /\ inbox' = inbox
      BY <1>7, <2>3, EdgeFrame
    <3>2. QED
      BY <1>2, <1>3, <2>1, <3>1
  <2>4. QED
    BY <2>2, <2>3
<1>8. CASE Crash
  BY <1>0, <1>2, <1>8 DEF Crash, Fault
<1>9. QED
  BY <1>4, <1>5, <1>6, <1>7, <1>8

-----------------------------------------------------------------------------
(* First meetings.                                                           *)

\* Milestones are made with new edges only.
LEMMA MetInvStep ==
  ASSUME TypeOK, PhaseInv, MetInv,
         Router \/ (\E b \in Actors : PushFails(b)) \/ Tick \/ Crash
  PROVE  MetInv'
<1>1. /\ met \in [Actors -> [Players -> Nat]]
      /\ fresh \in [Actors -> SUBSET Players]
      /\ bonds \in [Actors -> SUBSET Players]
  BY DEF TypeOK, PerActor
<1>2. CASE UNCHANGED <<bonds, met, fresh>>
  BY <1>2 DEF MetInv
<1>3. CASE SaveEdges
  <2>1. /\ pc = "edges" /\ met' = met
        /\ bonds' = [a \in Actors |-> bonds[a] \cup Known(a)]
        /\ fresh' = [a \in Actors |-> Known(a) \ bonds[a]]
    BY <1>3 DEF SaveEdges, Phase
  <2>2. \A a \in Actors, p \in Players :
          /\ met[a][p] \in {0, 1}
          /\ p \notin bonds[a] => met[a][p] = 0
    <3> SUFFICES ASSUME NEW a \in Actors, NEW p \in Players
                 PROVE  /\ met[a][p] \in {0, 1}
                        /\ p \notin bonds[a] => met[a][p] = 0
      OBVIOUS
    <3>1. /\ met[a][p] \in Nat
          /\ met[a][p] + (IF p \in fresh[a] THEN 1 ELSE 0) <= 1
          /\ met[a][p] = 1 => p \in bonds[a]
      BY <1>1 DEF MetInv
    <3>2. met[a][p] \in {0, 1}
      BY <3>1
    <3>3. QED
      BY <3>1, <3>2
  <2>3. QED
    BY <2>1, <2>2 DEF MetInv
<1>4. CASE \E a \in Actors, p \in Players : AppendMilestone(a, p)
  <2>1. PICK b \in Actors, q \in Players : AppendMilestone(b, q)
    BY <1>4
  <2>2. /\ met' = [met EXCEPT ![b][q] = @ + 1]
        /\ fresh' = [fresh EXCEPT ![b] = @ \ {q}]
        /\ q \in fresh[b] /\ bonds' = bonds
    BY <2>1 DEF AppendMilestone, Least
  <2>3. \A a \in Actors, p \in Players :
          /\ met'[a][p] = IF a = b /\ p = q THEN met[a][p] + 1 ELSE met[a][p]
          /\ p \in fresh'[a] <=> p \in fresh[a] /\ ~ (a = b /\ p = q)
    BY <1>1, <2>2
  <2>4. QED
    BY <1>1, <2>2, <2>3 DEF MetInv
<1>5. CASE Crash
  <2>1. UNCHANGED <<bonds, met>> /\ fresh' = All({})
    BY <1>5 DEF Crash, storeVars
  <2>2. QED
    BY <1>1, <2>1 DEF MetInv, All
<1>6. QED
  <2>1. Restart \/ Perceive \/ Decide => UNCHANGED <<bonds, met, fresh>>
    BY DEF Restart, Perceive, Decide, mindVars, storeVars
  <2>2. (\E a \in Actors : AppendShifts(a) \/ AppendEvents(a))
          => UNCHANGED <<bonds, met, fresh>>
    BY DEF AppendShifts, AppendEvents
  <2>3. (\E a \in Actors : AppendEpisode(a) \/ Reflect(a))
          => UNCHANGED <<bonds, met, fresh>>
    BY DEF AppendEpisode, Reflect
  <2>4. Resolved \/ Bonded \/ Remembered \/ Finish
          => UNCHANGED <<bonds, met, fresh>>
    BY DEF Resolved, Bonded, Remembered, Finish, storeVars
  <2>5. Router \/ (\E b \in Actors : PushFails(b))
          => UNCHANGED <<bonds, met, fresh>>
    BY RouterFrame
  <2>6. QED
    BY <1>2, <1>3, <1>4, <1>5, <2>1, <2>2, <2>3, <2>4, <2>5 DEF Tick

-----------------------------------------------------------------------------
(* What an actor's stream tells.                                             *)

\* Events of the running tick, appended to a stream that has no action of it
\* when they have one, keep it in order.
LEMMA StoryMore ==
  ASSUME TypeOK, StoryInv, LifeInTickOrder, NEW b \in Actors,
         NEW more \in Seq(Event),
         \A n \in 1..Len(more) : more[n].tick = tick,
         \A m, n \in 1..Len(more) :
           more[m].type = "act" /\ more[n].type = "act" => m = n,
         faults = 0 /\ (\E m \in 1..Len(more) : more[m].type = "act") =>
           \A n \in 1..Len(stream[b]) :
             stream[b][n].type = "act" => stream[b][n].tick < tick,
         stream' = [stream EXCEPT ![b] = @ \o more], faults' = faults
  PROVE  /\ LifeInTickOrder'
         /\ \A a \in Actors : \A n \in 1..Len(stream'[a]) :
              stream'[a][n].tick <= tick
<1>1. tick \in Nat /\ stream \in [Actors -> Seq(Event)]
  BY DEF TypeOK, PerActor
<1>2. \A a \in Actors \ {b} : stream'[a] = stream[a]
  BY <1>1
<1> DEFINE s == stream[b]
           t == s \o more
<1>3. stream'[b] = t
  BY <1>1
<1>4. s \in Seq(Event) /\ Len(s) \in Nat /\ Len(more) \in Nat
  BY <1>1
<1>5. /\ Len(t) = Len(s) + Len(more)
      /\ \A n \in 1..Len(t) : t[n] = IF n <= Len(s) THEN s[n] ELSE more[n - Len(s)]
  BY <1>4, ConcatProperties
<1>6. /\ \A n \in 1..Len(s) : s[n].tick <= tick
      /\ \A m, n \in 1..Len(s) :
           m < n => /\ s[m].tick <= s[n].tick
                    /\ faults = 0 /\ s[m].type = "act" /\ s[n].type = "act"
                       => s[m].tick < s[n].tick
      /\ faults = 0 /\ (\E m \in 1..Len(more) : more[m].type = "act") =>
           \A n \in 1..Len(s) : s[n].type = "act" => s[n].tick < tick
  BY DEF StoryInv, LifeInTickOrder
<1> HIDE DEF s, t
<1>7. \A n \in 1..Len(t) : t[n].tick <= tick
  <2> SUFFICES ASSUME NEW n \in 1..Len(t) PROVE t[n].tick <= tick
    OBVIOUS
  <2>1. CASE n <= Len(s)
    <3>1. t[n] = s[n] /\ n \in 1..Len(s)
      BY <1>4, <1>5, <2>1
    <3>2. QED
      BY <1>6, <3>1
  <2>2. CASE ~ (n <= Len(s))
    <3>1. t[n] = more[n - Len(s)] /\ (n - Len(s)) \in 1..Len(more)
      BY <1>4, <1>5, <2>2
    <3>2. more[n - Len(s)].tick = tick
      BY <3>1
    <3>3. QED
      BY <1>1, <3>1, <3>2
  <2>3. QED
    BY <2>1, <2>2
<1>8. ASSUME NEW m \in 1..Len(t), NEW n \in 1..Len(t), m < n
      PROVE  /\ t[m].tick <= t[n].tick
             /\ faults = 0 /\ t[m].type = "act" /\ t[n].type = "act"
                => t[m].tick < t[n].tick
  <2>1. CASE n <= Len(s)
    <3>1. /\ m \in 1..Len(s) /\ n \in 1..Len(s)
          /\ t[m] = s[m] /\ t[n] = s[n]
      BY <1>4, <1>5, <1>8, <2>1
    <3>2. QED
      BY <1>6, <1>8, <3>1
  <2>2. CASE m <= Len(s) /\ ~ (n <= Len(s))
    <3>1. /\ m \in 1..Len(s) /\ (n - Len(s)) \in 1..Len(more)
          /\ t[m] = s[m] /\ t[n] = more[n - Len(s)]
      BY <1>4, <1>5, <1>8, <2>2
    <3>2. t[n].tick = tick /\ t[m].tick <= tick
      BY <1>6, <3>1
    <3>3. QED
      BY <1>6, <3>1, <3>2
  <2>3. CASE ~ (m <= Len(s))
    <3>1. /\ m \in Nat /\ n \in Nat /\ Len(s) < m /\ Len(s) < n
          /\ m <= Len(s) + Len(more) /\ n <= Len(s) + Len(more)
      BY <1>4, <1>5, <1>8, <2>3
    <3>2. t[m] = more[m - Len(s)] /\ t[n] = more[n - Len(s)]
      BY <1>4, <1>5, <3>1
    <3>3. /\ (m - Len(s)) \in 1..Len(more) /\ (n - Len(s)) \in 1..Len(more)
          /\ m - Len(s) # n - Len(s)
      BY <1>4, <1>8, <3>1
    <3>4. t[m].tick = tick /\ t[n].tick = tick
      BY <3>2, <3>3
    <3>5. ~ (t[m].type = "act" /\ t[n].type = "act")
      BY <3>2, <3>3
    <3>6. QED
      BY <1>1, <3>4, <3>5
  <2>4. QED
    BY <2>1, <2>2, <2>3
<1>9. LifeInTickOrder'
  <2> SUFFICES ASSUME NEW a \in Actors,
                      NEW m \in 1..Len(stream'[a]), NEW n \in 1..Len(stream'[a]),
                      m < n
               PROVE  /\ stream'[a][m].tick <= stream'[a][n].tick
                      /\ faults' = 0 /\ stream'[a][m].type = "act"
                           /\ stream'[a][n].type = "act"
                         => stream'[a][m].tick < stream'[a][n].tick
    BY DEF LifeInTickOrder
  <2>1. CASE a = b
    BY <1>3, <1>8, <2>1
  <2>2. CASE a # b
    BY <1>2, <2>2 DEF LifeInTickOrder
  <2>3. QED
    BY <2>1, <2>2
<1>10. ASSUME NEW a \in Actors, NEW n \in 1..Len(stream'[a])
       PROVE  stream'[a][n].tick <= tick
  <2>1. CASE a = b
    BY <1>3, <1>7, <2>1
  <2>2. CASE a # b
    BY <1>2, <2>2 DEF StoryInv
  <2>3. QED
    BY <2>1, <2>2
<1>11. QED
  BY <1>9, <1>10

\* DECIDE prepares events of its tick and one action at most.
LEMMA DecideOrder ==
  ASSUME TypeOK, Decide, NEW a \in Actors
  PROVE  \A m, n \in 1..Len(out'[a]) :
           /\ out'[a][n].tick = tick
           /\ out'[a][m].type = "act" /\ out'[a][n].type = "act" => m = n
<1> DEFINE made == Each("reply", Answers(a))
           due == IfDue(a, "act")
           front == notes'[a] \o made
<1>1. tick \in Nat /\ Answers(a) \in Seq(Items) /\ {"reply", "act"} \subseteq Types
  BY AnswersType DEF TypeOK, PerActor, Types
<1>2. /\ made \in Seq(Event)
      /\ \A n \in 1..Len(made) : made[n].type = "reply" /\ made[n].tick = tick
  BY <1>1, EachType
<1>3. /\ due \in Seq(Event) /\ Len(due) \in 0..1
      /\ \A n \in 1..Len(due) : due[n].tick = tick
  BY <1>1, IfDueType
<1>4. /\ notes'[a] \in Seq(Event)
      /\ \A n \in 1..Len(notes'[a]) :
           notes'[a][n].type = "decision" /\ notes'[a][n].tick = tick
      /\ out'[a] = (notes'[a] \o made) \o due
  BY DecideEffect
<1> HIDE DEF made, due
<1>5. /\ front \in Seq(Event)
      /\ \A n \in 1..Len(front) : front[n].type # "act" /\ front[n].tick = tick
  <2>1. /\ front \in Seq(Event) /\ Len(front) = Len(notes'[a]) + Len(made)
        /\ Len(notes'[a]) \in Nat /\ Len(made) \in Nat
        /\ \A n \in 1..Len(front) :
             front[n] = IF n <= Len(notes'[a]) THEN notes'[a][n]
                        ELSE made[n - Len(notes'[a])]
    BY <1>2, <1>4, ConcatProperties
  <2> HIDE DEF front
  <2>2. ASSUME NEW n \in 1..Len(front)
        PROVE  front[n].type # "act" /\ front[n].tick = tick
    <3>1. CASE n <= Len(notes'[a])
      <4>1. front[n] = notes'[a][n] /\ n \in 1..Len(notes'[a])
        BY <2>1, <3>1
      <4>2. QED
        BY <1>4, <4>1
    <3>2. CASE ~ (n <= Len(notes'[a]))
      <4>1. /\ front[n] = made[n - Len(notes'[a])]
            /\ (n - Len(notes'[a])) \in 1..Len(made)
        BY <2>1, <3>2
      <4>2. QED
        BY <1>2, <4>1
    <3>3. QED
      BY <3>1, <3>2
  <2>3. QED
    BY <2>1, <2>2
<1>6. out'[a] = front \o due
  BY <1>4
<1> HIDE DEF front
<1> DEFINE whole == front \o due
<1>7. /\ Len(whole) = Len(front) + Len(due)
      /\ Len(front) \in Nat /\ Len(due) \in 0..1
      /\ \A n \in 1..Len(whole) :
           whole[n] = IF n <= Len(front) THEN front[n] ELSE due[n - Len(front)]
  BY <1>3, <1>5, ConcatProperties
<1> HIDE DEF whole
<1>8. \A n \in 1..Len(whole) :
        \/ n \in 1..Len(front) /\ whole[n] = front[n]
        \/ /\ n = Len(front) + 1 /\ 1 \in 1..Len(due)
           /\ whole[n] = due[1]
  BY <1>7
<1>9. \A n \in 1..Len(whole) :
        whole[n].tick = tick /\ (whole[n].type = "act" => n = Len(front) + 1)
  BY <1>3, <1>5, <1>8
<1>10. QED
  BY <1>6, <1>9 DEF whole

\* No step breaks the order of a stream: what is appended carries the running tick,
\* and at most one action of it.
LEMMA StoryStep ==
  ASSUME TypeOK, PhaseInv, StoryInv, LifeInTickOrder,
         Router \/ (\E b \in Actors : PushFails(b)) \/ Tick \/ Crash
  PROVE  StoryInv' /\ LifeInTickOrder'
<1>0. /\ tick \in Nat /\ faults \in Nat
      /\ stream \in [Actors -> Seq(Event)]
      /\ shifts \in [Actors -> Seq(Event)] /\ out \in [Actors -> Seq(Event)]
  BY Constants DEF TypeOK, PerActor
<1>1. ASSUME UNCHANGED stream, faults' = 0 => faults = 0
      PROVE  LifeInTickOrder'
  BY <1>1 DEF LifeInTickOrder
<1>2. ASSUME UNCHANGED <<stream, shifts, out, tick>>, faults' = 0 => faults = 0,
             pc' \in {"idle", "decide"} /\ faults' = 0 => pc \in {"idle", "decide"}
      PROVE  StoryInv' /\ LifeInTickOrder'
  BY <1>1, <1>2 DEF StoryInv
<1>3. CASE Router \/ \E b \in Actors : PushFails(b)
  <2>1. /\ UNCHANGED <<stream, shifts, out, tick, pc>>
        /\ faults' = 0 => faults = 0
    BY <1>0, <1>3, RouterFrame
  <2>2. QED
    BY <1>2, <2>1
<1>4. CASE Restart \/ Perceive
  <2>1. /\ UNCHANGED <<stream, shifts, out, tick>> /\ faults' = faults
        /\ pc = "idle" \/ faults > 0
    BY <1>4 DEF Restart, Perceive, Wake, mindVars, storeVars, PhaseInv
  <2>2. QED
    BY <1>0, <1>2, <2>1
<1>5. CASE Decide
  <2>1. /\ pc = "decide" /\ pc' = "resolve"
        /\ UNCHANGED <<stream, tick, faults>>
    BY <1>5 DEF Decide, storeVars
  <2>2. ASSUME NEW a \in Actors
        PROVE  /\ \A n \in 1..Len(shifts'[a]) :
                    shifts'[a][n].tick = tick /\ shifts'[a][n].type = "shift"
               /\ \A m, n \in 1..Len(out'[a]) :
                    /\ out'[a][n].tick = tick
                    /\ out'[a][m].type = "act" /\ out'[a][n].type = "act" => m = n
    BY <1>5, DecideEffect, DecideOrder
  <2>3. \A a \in Actors : \A n \in 1..Len(stream[a]) :
          /\ stream[a][n].tick <= tick
          /\ faults = 0 /\ stream[a][n].type = "act" => stream[a][n].tick < tick
    BY <2>1 DEF StoryInv
  <2>4. QED
    BY <1>1, <2>1, <2>2, <2>3 DEF StoryInv
<1>6. CASE \E b \in Actors : AppendShifts(b)
  <2>1. PICK b \in Actors : AppendShifts(b)
    BY <1>6
  <2>2. /\ stream' = [stream EXCEPT ![b] = @ \o shifts[b]]
        /\ shifts' = [shifts EXCEPT ![b] = <<>>]
        /\ UNCHANGED <<pc, out, tick, faults>> /\ pc = "resolve"
    BY <2>1 DEF AppendShifts
  <2>3. \A n \in 1..Len(shifts[b]) :
          shifts[b][n].tick = tick /\ shifts[b][n].type = "shift"
    BY DEF StoryInv
  <2>4. /\ LifeInTickOrder'
        /\ \A a \in Actors : \A n \in 1..Len(stream'[a]) :
             stream'[a][n].tick <= tick
    <3> DEFINE more == shifts[b]
    <3>1. /\ more \in Seq(Event)
          /\ stream' = [stream EXCEPT ![b] = @ \o more] /\ faults' = faults
      BY <1>0, <2>2 DEF PerActor
    <3>2. \A n \in 1..Len(more) : more[n].tick = tick /\ more[n].type # "act"
      BY <2>3
    <3> HIDE DEF more
    <3>3. /\ \A m, n \in 1..Len(more) :
               more[m].type = "act" /\ more[n].type = "act" => m = n
          /\ ~ \E m \in 1..Len(more) : more[m].type = "act"
      BY <3>2
    <3>4. QED
      BY <1>0, <3>1, <3>2, <3>3, StoryMore
  <2>5. ASSUME NEW a \in Actors, faults = 0, NEW n \in 1..Len(stream'[a]),
               stream'[a][n].type = "act",
               \E m \in 1..Len(out[a]) : out[a][m].type = "act"
        PROVE  stream'[a][n].tick < tick
    <3>1. CASE a # b
      BY <1>0, <2>2, <2>5, <3>1 DEF StoryInv
    <3>2. CASE a = b
      <4> DEFINE s == stream[b]
                 t == shifts[b]
      <4>1. s \in Seq(Event) /\ t \in Seq(Event) /\ stream'[b] = s \o t
        BY <1>0, <2>2
      <4>2. \A m \in 1..Len(s) : s[m].type = "act" => s[m].tick < tick
        BY <2>5, <3>2 DEF StoryInv
      <4>3. \A m \in 1..Len(t) : t[m].type # "act"
        BY <2>3
      <4> HIDE DEF s, t
      <4>4. /\ Len(s \o t) = Len(s) + Len(t) /\ Len(s) \in Nat /\ Len(t) \in Nat
            /\ \A m \in 1..Len(s \o t) :
                 (s \o t)[m] = IF m <= Len(s) THEN s[m] ELSE t[m - Len(s)]
        BY <4>1, ConcatProperties
      <4>5. n \in 1..Len(s \o t) /\ (s \o t)[n].type = "act"
            /\ stream'[a][n] = (s \o t)[n]
        BY <2>5, <3>2, <4>1
      <4>6. n <= Len(s)
        <5>1. ASSUME ~ (n <= Len(s)) PROVE FALSE
          <6>1. (s \o t)[n] = t[n - Len(s)] /\ (n - Len(s)) \in 1..Len(t)
            BY <4>4, <4>5, <5>1
          <6>2. QED
            BY <4>3, <4>5, <6>1
        <5>2. QED
          BY <5>1
      <4>7. n \in 1..Len(s) /\ (s \o t)[n] = s[n]
        BY <4>4, <4>5, <4>6
      <4>8. QED
        BY <4>2, <4>5, <4>7
    <3>3. QED
      BY <3>1, <3>2
  <2>6. \A a \in Actors :
          /\ shifts'[a] = shifts[a] \/ shifts'[a] = <<>>
          /\ \A n \in 1..Len(shifts[a]) :
               shifts[a][n].tick = tick /\ shifts[a][n].type = "shift"
          /\ \A m, n \in 1..Len(out[a]) :
               /\ out[a][n].tick = tick
               /\ out[a][m].type = "act" /\ out[a][n].type = "act" => m = n
    BY <1>0, <2>2 DEF StoryInv
  <2>7. StoryInv'
    <3> SUFFICES ASSUME NEW a \in Actors
                 PROVE  (/\ \A n \in 1..Len(stream[a]) :
                              /\ stream[a][n].tick <= tick
                              /\ /\ faults = 0 /\ stream[a][n].type = "act"
                                 /\ \/ pc \in {"idle", "decide"}
                                    \/ \E m \in 1..Len(out[a]) :
                                         out[a][m].type = "act"
                                 => stream[a][n].tick < tick
                         /\ \A n \in 1..Len(shifts[a]) :
                              /\ shifts[a][n].tick = tick
                              /\ shifts[a][n].type = "shift"
                         /\ \A m, n \in 1..Len(out[a]) :
                              /\ out[a][n].tick = tick
                              /\ out[a][m].type = "act" /\ out[a][n].type = "act"
                                 => m = n)'
      BY DEF StoryInv
    <3>1. \A n \in 1..Len(shifts'[a]) :
            shifts'[a][n].tick = tick /\ shifts'[a][n].type = "shift"
      <4>1. CASE shifts'[a] = <<>>
        BY <4>1
      <4>2. CASE shifts'[a] = shifts[a]
        BY <2>6, <4>2
      <4>3. QED
        BY <2>6, <4>1, <4>2
    <3>2. \A n \in 1..Len(stream'[a]) :
            /\ stream'[a][n].tick <= tick
            /\ /\ faults = 0 /\ stream'[a][n].type = "act"
               /\ \E m \in 1..Len(out[a]) : out[a][m].type = "act"
               => stream'[a][n].tick < tick
      BY <2>4, <2>5
    <3>3. \A m, n \in 1..Len(out[a]) :
            /\ out[a][n].tick = tick
            /\ out[a][m].type = "act" /\ out[a][n].type = "act" => m = n
      BY <2>6
    <3>4. pc' = "resolve" /\ out' = out /\ tick' = tick /\ faults' = faults
      BY <2>2
    <3>5. \A n \in 1..Len(stream'[a]) :
            /\ stream'[a][n].tick <= tick'
            /\ /\ faults' = 0 /\ stream'[a][n].type = "act"
               /\ \/ pc' \in {"idle", "decide"}
                  \/ \E m \in 1..Len(out'[a]) : out'[a][m].type = "act"
               => stream'[a][n].tick < tick'
      BY <3>2, <3>4
    <3>6. QED
      BY <3>1, <3>3, <3>4, <3>5
  <2>8. QED
    BY <2>4, <2>7
<1>7. CASE \E b \in Actors : AppendEvents(b)
  <2>1. PICK b \in Actors : AppendEvents(b)
    BY <1>7
  <2>2. /\ stream' = [stream EXCEPT ![b] = @ \o out[b]]
        /\ out' = [out EXCEPT ![b] = <<>>]
        /\ UNCHANGED <<pc, shifts, tick, faults>> /\ pc = "resolve"
    BY <2>1 DEF AppendEvents
  <2>3. /\ \A n \in 1..Len(out[b]) : out[b][n].tick = tick
        /\ \A m, n \in 1..Len(out[b]) :
             out[b][m].type = "act" /\ out[b][n].type = "act" => m = n
        /\ faults = 0 /\ (\E m \in 1..Len(out[b]) : out[b][m].type = "act") =>
             \A n \in 1..Len(stream[b]) :
               stream[b][n].type = "act" => stream[b][n].tick < tick
    BY DEF StoryInv
  <2>4. /\ LifeInTickOrder'
        /\ \A a \in Actors : \A n \in 1..Len(stream'[a]) :
             stream'[a][n].tick <= tick
    BY <1>0, <2>2, <2>3, StoryMore
  <2>5. \A a \in Actors : \/ a # b /\ stream'[a] = stream[a] /\ out'[a] = out[a]
                          \/ out'[a] = <<>>
    BY <1>0, <2>2
  <2>6. StoryInv'
    <3> SUFFICES ASSUME NEW a \in Actors
                 PROVE  (/\ \A n \in 1..Len(stream[a]) :
                              /\ stream[a][n].tick <= tick
                              /\ /\ faults = 0 /\ stream[a][n].type = "act"
                                 /\ \/ pc \in {"idle", "decide"}
                                    \/ \E m \in 1..Len(out[a]) :
                                         out[a][m].type = "act"
                                 => stream[a][n].tick < tick
                         /\ \A n \in 1..Len(shifts[a]) :
                              /\ shifts[a][n].tick = tick
                              /\ shifts[a][n].type = "shift"
                         /\ \A m, n \in 1..Len(out[a]) :
                              /\ out[a][n].tick = tick
                              /\ out[a][m].type = "act" /\ out[a][n].type = "act"
                                 => m = n)'
      BY DEF StoryInv
    <3>1. \A n \in 1..Len(shifts[a]) :
            shifts[a][n].tick = tick /\ shifts[a][n].type = "shift"
      BY DEF StoryInv
    <3>2. CASE a # b /\ stream'[a] = stream[a] /\ out'[a] = out[a]
      <4>1. \A m, n \in 1..Len(out[a]) :
              /\ out[a][n].tick = tick
              /\ out[a][m].type = "act" /\ out[a][n].type = "act" => m = n
        BY DEF StoryInv
      <4>2. \A n \in 1..Len(stream[a]) :
              /\ faults = 0 /\ stream[a][n].type = "act"
              /\ \E m \in 1..Len(out[a]) : out[a][m].type = "act"
              => stream[a][n].tick < tick
        BY DEF StoryInv
      <4>3. \A n \in 1..Len(stream[a]) : stream[a][n].tick <= tick
        BY <2>4, <3>2
      <4>4. QED
        BY <2>2, <3>1, <3>2, <4>1, <4>2, <4>3
    <3>3. CASE out'[a] = <<>>
      <4>1. \A n : n \notin 1..Len(out'[a])
        BY <3>3
      <4>2. QED
        BY <2>2, <2>4, <3>1, <4>1
    <3>4. QED
      BY <2>5, <3>2, <3>3
  <2>7. QED
    BY <2>4, <2>6
<1>8. CASE \E b \in Actors : AppendEpisode(b) \/ Reflect(b)
  <2>1. PICK b \in Actors : AppendEpisode(b) \/ Reflect(b)
    BY <1>8
  <2>2. /\ UNCHANGED <<pc, shifts, out, tick, faults>>
        /\ pc \in {"episodes", "reflect"}
        /\ \/ stream' = stream
           \/ \E type \in {"episode", "belief"} :
                stream' = [stream EXCEPT ![b] = Append(@, Now(type, Nothing))]
    BY <2>1 DEF AppendEpisode, Reflect
  <2>3. CASE stream' = stream
    BY <1>2, <2>2, <2>3
  <2>4. ASSUME NEW type \in {"episode", "belief"},
               stream' = [stream EXCEPT ![b] = Append(@, Now(type, Nothing))]
        PROVE  StoryInv' /\ LifeInTickOrder'
    <3> DEFINE e == Now(type, Nothing)
    <3>1. e \in Event /\ e.type = type /\ e.tick = tick
      BY <1>0, NowType DEF Types
    <3>2. stream' = [stream EXCEPT ![b] = Append(@, e)]
      BY <2>4
    <3> HIDE DEF e
    <3>3. /\ <<e>> \in Seq(Event)
          /\ \A n \in 1..Len(<<e>>) :
               <<e>>[n].type # "act" /\ <<e>>[n].tick = tick
      BY <3>1
    <3>4. Append(stream[b], e) = stream[b] \o <<e>>
      BY <1>0, <3>1, AppendIsConcat
    <3>5. stream' = [stream EXCEPT ![b] = @ \o <<e>>]
      BY <3>2, <3>4
    <3>6. /\ LifeInTickOrder'
          /\ \A a \in Actors : \A n \in 1..Len(stream'[a]) :
               stream'[a][n].tick <= tick
      BY <2>2, <3>3, <3>5, StoryMore
    <3>7. \A a \in Actors : out[a] = <<>> /\ shifts[a] = <<>>
      BY <2>2 DEF PhaseInv, All
    <3>8. QED
      BY <2>2, <3>6, <3>7 DEF StoryInv
  <2>5. QED
    BY <2>2, <2>3, <2>4
<1>9. CASE Finish
  <2>1. /\ pc = "reflect" /\ UNCHANGED <<stream, shifts, out, faults>>
        /\ tick' = tick + 1
    BY <1>9 DEF Finish, Phase, storeVars
  <2>2. \A a \in Actors : out[a] = <<>> /\ shifts[a] = <<>>
    BY <2>1 DEF PhaseInv, All
  <2>3. \A a \in Actors : \A n \in 1..Len(stream[a]) :
          stream[a][n] \in Event /\ stream[a][n].tick <= tick
    BY <1>0, ElementOfSeq DEF StoryInv
  <2>4. ASSUME NEW a \in Actors, NEW n \in 1..Len(stream[a])
        PROVE  /\ stream[a][n].tick < tick + 1
               /\ stream[a][n].tick <= tick + 1
    <3>1. stream[a][n].tick \in Nat /\ stream[a][n].tick <= tick
      BY <2>3 DEF Event
    <3>2. QED
      BY <1>0, <3>1
  <2>5. StoryInv'
    <3>1. \A a \in Actors : \A n : n \notin 1..Len(out[a]) /\ n \notin 1..Len(shifts[a])
      BY <2>2
    <3>2. QED
      BY <2>1, <2>4, <3>1 DEF StoryInv
  <2>6. QED
    BY <1>1, <2>1, <2>5
<1>10. CASE Resolved \/ SaveEdges \/ Bonded \/ Remembered
            \/ \E b \in Actors, p \in Players : AppendMilestone(b, p)
  <2>1. /\ UNCHANGED <<stream, shifts, out, tick, faults>>
        /\ pc' \notin {"idle", "decide"}
    BY <1>10 DEF Resolved, SaveEdges, Bonded, Remembered, AppendMilestone, Phase,
                 storeVars
  <2>2. QED
    BY <1>2, <2>1
<1>11. CASE Crash
  <2>1. /\ UNCHANGED <<stream, tick>> /\ faults' # 0
        /\ \A a \in Actors : shifts'[a] = <<>> /\ out'[a] = <<>>
    BY <1>0, <1>11 DEF Crash, Fault, storeVars, All
  <2>2. QED
    BY <1>1, <2>1 DEF StoryInv
<1>12. QED
  BY <1>3, <1>4, <1>5, <1>6, <1>7, <1>8, <1>9, <1>10, <1>11 DEF Tick

-----------------------------------------------------------------------------
(* The inductive invariant and what follows from it.                         *)

IInv == ActorInv /\ NoReplyTwice /\ WordsAreAnswered /\ LifeInTickOrder

\* The invariant holds initially.
LEMMA InitIInv == Init => IInv
<1> SUFFICES ASSUME Init PROVE IInv
  OBVIOUS
<1>1. TypeOK
  BY InitTypeOK
<1>2. /\ pc = "idle" /\ tick = 0 /\ faults = 0 /\ todo = {} /\ routing = NoRoute
      /\ \A i \in Items : bus[i] \in {"queued", "unsent"}
      /\ \A a \in Actors :
           /\ mail[a] = <<>> /\ inbox[a] = <<>> /\ greet[a] = {}
           /\ shifts[a] = <<>> /\ out[a] = <<>> /\ fresh[a] = {}
           /\ stream[a] = <<>> /\ bonds[a] = {}
           /\ \A i \in Items : pushed[i][a] = 0 /\ dropped[i][a] = 0
           /\ \A p \in Players : met[a][p] = 0
      /\ shifts = All(<<>>) /\ out = All(<<>>) /\ fresh = All({})
  BY DEF Init, All
<1>3. MailInv
  BY <1>2, Constants DEF MailInv
<1>4. RouterInv
  BY <1>2, ActorAssumption DEF RouterInv, NoRoute
<1>5. PhaseInv /\ GreetInv
  BY <1>2 DEF PhaseInv, GreetInv
<1>6. \A a \in Actors : \A U : Told(a, U) = 0
  BY <1>2, TimesEmpty DEF Told
<1>7. GreetedInv
  BY <1>6, GreetingsAreTold DEF GreetedInv
<1>8. MetInv
  BY <1>2 DEF MetInv
<1>9. StoryInv /\ LifeInTickOrder
  BY <1>2 DEF StoryInv, LifeInTickOrder
<1>10. \A i \in Items, a \in Actors :
         Waiting(i, a) + Replies(i, stream[a]) = 0
  <2> SUFFICES ASSUME NEW i \in Items, NEW a \in Actors
               PROVE  Waiting(i, a) + Replies(i, stream[a]) = 0
    OBVIOUS
  <2>1. Copies(i, mail[a]) = 0
    BY <1>2, TimesEmpty DEF Copies
  <2>2. Told(a, {i}) = 0
    BY <1>6
  <2>3. Ledger(i, a) = 0
    BY <1>2, <2>1, <2>2 DEF Ledger
  <2>4. QED
    BY <1>1, <2>3, LedgerIs
<1>11. NoReplyTwice /\ WordsAreAnswered
  <2>1. \A i \in Items, a \in Actors : pushed[i][a] = 0 /\ dropped[i][a] = 0
    BY <1>2
  <2>2. QED
    BY <1>10, <2>1 DEF NoReplyTwice, WordsAreAnswered, Words
<1>12. QED
  BY <1>1, <1>3, <1>4, <1>5, <1>7, <1>8, <1>9, <1>11 DEF IInv, ActorInv

\* Every step keeps the invariant.
LEMMA StepIInv == IInv /\ [Next]_vars => IInv'
<1> SUFFICES ASSUME IInv, [Next]_vars PROVE IInv'
  OBVIOUS
<1>1. /\ TypeOK /\ MailInv /\ RouterInv /\ PhaseInv
      /\ GreetInv /\ GreetedInv /\ MetInv /\ StoryInv
      /\ NoReplyTwice /\ WordsAreAnswered /\ LifeInTickOrder
  BY DEF IInv, ActorInv
<1>2. CASE Router \/ (\E b \in Actors : PushFails(b)) \/ Tick \/ Crash
  <2>1. TypeOK'
    BY <1>1, <1>2, RouterTypeOK, TickTypeOK
  <2>2. MailInv' /\ RouterInv' /\ PhaseInv'
    BY <1>1, <1>2, MailInvStep, RouterInvStep, PhaseInvStep
  <2>3. GreetInv' /\ GreetedInv' /\ MetInv'
    BY <1>1, <1>2, GreetInvStep, GreetedInvStep, MetInvStep
  <2>4. StoryInv' /\ LifeInTickOrder'
    BY <1>1, <1>2, StoryStep
  <2>5. NoReplyTwice' /\ WordsAreAnswered'
    BY <1>1, <1>2, NoReplyTwiceStep, WordsStep
  <2>6. QED
    BY <2>1, <2>2, <2>3, <2>4, <2>5 DEF IInv, ActorInv
<1>3. CASE UNCHANGED vars
  <2>1. UNCHANGED <<bus, tries, routing, mail, dropped, pushed, pc, tick, inbox,
                    greet, notes, shifts, out, fresh, todo, bonds, met, stream,
                    faults>>
    BY <1>3 DEF vars, routerVars, boxVars, mindVars, storeVars
  <2>2. TypeOK' /\ MailInv' /\ RouterInv' /\ PhaseInv'
    BY <1>1, <2>1 DEF TypeOK, MailInv, RouterInv, PhaseInv
  <2>3. GreetInv' /\ MetInv' /\ StoryInv' /\ LifeInTickOrder'
    BY <1>1, <2>1 DEF GreetInv, MetInv, StoryInv, LifeInTickOrder, LikesOf, OfKind
  <2>4. GreetedInv'
    BY <1>1, <2>1 DEF GreetedInv, Greetings, LikesOf, OfKind, Known
  <2>5. NoReplyTwice' /\ WordsAreAnswered'
    BY <1>1, <2>1 DEF NoReplyTwice, WordsAreAnswered, Waiting, Copies, Replies,
                      Words
  <2>6. QED
    BY <2>2, <2>3, <2>4, <2>5 DEF IInv, ActorInv
<1>4. QED
  BY <1>2, <1>3 DEF Next

\* The invariant holds forever.
LEMMA Invariance == Spec => []IInv
BY InitIInv, StepIInv, PTL DEF Spec

\* Mailboxes never exceed MAILBOX_CAP, the router and JetStream agree about the
\* message in flight, and no phase of a tick leaves work to the next (mailbox.py,
\* phases.py): for any actors, players, items, caps and numbers of faults.
THEOREM ActorInvTheorem == Spec => []ActorInv
<1>1. IInv => ActorInv
  BY DEF IInv
<1>2. QED
  BY <1>1, Invariance, PTL

\* Whatever crashes and is redelivered, an item is answered by an actor at most as
\* often as it was pushed to its mailbox (drain_many reads and deletes in one MULTI,
\* DECIDE answers what it drained once).
THEOREM NoReplyTwiceTheorem == Spec => []NoReplyTwice
<1>1. IInv => NoReplyTwice
  BY DEF IInv
<1>2. QED
  BY <1>1, Invariance, PTL

\* As long as nothing failed every word pushed to a mailbox is accounted for: it
\* waits, is answered, or was trimmed off a full list; none is lost between the
\* router and a running tick, and none answered twice.
THEOREM WordsAreAnsweredTheorem == Spec => []WordsAreAnswered
<1>1. IInv => WordsAreAnswered
  BY DEF IInv
<1>2. QED
  BY <1>1, Invariance, PTL

\* An actor's stream is told in tick order, with one action per tick unless a tick
\* was interrupted and run again.
THEOREM LifeInTickOrderTheorem == Spec => []LifeInTickOrder
<1>1. IInv => LifeInTickOrder
  BY DEF IInv
<1>2. QED
  BY <1>1, Invariance, PTL

\* A relationship begins once, also after crashes, and with an edge behind it:
\* record_interaction saves the edge before the milestone is appended.
THEOREM FirstMetOnceTheorem == Spec => []FirstMetOnce
<1>1. IInv => FirstMetOnce
  <2> SUFFICES ASSUME IInv, NEW a \in Actors, NEW p \in Players
               PROVE  met[a][p] <= 1 /\ (met[a][p] = 1 => p \in bonds[a])
    BY DEF FirstMetOnce
  <2>1. met[a][p] \in Nat
    BY DEF IInv, ActorInv, TypeOK
  <2>2. QED
    BY <2>1 DEF IInv, ActorInv, MetInv
<1>2. QED
  BY <1>1, Invariance, PTL

\* While nothing failed an actor greets a player at most once, over any number of
\* likes, mailbox fills and ticks: the edge is there before the next drain looks.
THEOREM GreetedOnceTheorem == Spec => []GreetedOnce
<1>1. IInv => GreetedOnce
  <2> SUFFICES ASSUME IInv, faults = 0, NEW a \in Actors, NEW p \in Players
               PROVE  Greetings(p, stream[a]) <= 1
    BY DEF GreetedOnce
  <2>1. stream[a] \in Seq(Event) /\ out[a] \in Seq(Event)
    BY DEF IInv, ActorInv, TypeOK, PerActor
  <2>2. Greetings(p, stream[a]) \in Nat /\ Greetings(p, out[a]) \in Nat
    BY <2>1, TimesType DEF Greetings
  <2>3. Greetings(p, stream[a]) + Greetings(p, out[a]) <= 1
    BY DEF IInv, ActorInv, GreetedInv
  <2>4. QED
    BY <2>2, <2>3
<1>2. QED
  BY <1>1, Invariance, PTL
=============================================================================
