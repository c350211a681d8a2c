-------------------------- MODULE TimelineFoldLemmas --------------------------
(***************************************************************************)
(* What one more event changes in each operator of TimelineFold, and what  *)
(* it leaves.  A relationship makes a follower unless the player's last    *)
(* declaration is a withdrawal, while Follows asks for the last            *)
(* declaration only if there is one: that a player who declared anything   *)
(* has a last declaration is DecidedAt.                                    *)
(***************************************************************************)
EXTENDS TimelineFold, TLAPS

\* A personal event has a player, a general one has none.
LEMMA KindOfFact ==
  ASSUME NEW fact \in Fact
  PROVE  /\ fact.kind \in Personal \cup General
         /\ fact.kind \in Personal => fact.player \in Players
         /\ fact.kind \in General => fact.player \notin Players
BY FoldAssumption DEF Fact, Personal, General

-----------------------------------------------------------------------------
(* An event at the end of the log leaves what was before it.                *)

\* The events of a prefix stay what they are when the log grows.
LEMMA PrefixSays ==
  ASSUME NEW l \in Seq(Fact), NEW fact \in Fact, NEW n \in 0..Len(l)
  PROVE  \A i \in 1..n : Append(l, fact)[i] = l[i]
OBVIOUS

\* Last declarations of a prefix do not change when the log grows.
LEMMA PrefixLast ==
  ASSUME NEW l \in Seq(Fact), NEW fact \in Fact, NEW n \in 0..Len(l),
         NEW kind, NEW p
  PROVE  LastSays(Append(l, fact), n, kind, p) <=> LastSays(l, n, kind, p)
<1>1. \A i \in 1..n : Append(l, fact)[i] = l[i]
  BY PrefixSays
<1>. QED  BY <1>1 DEF LastSays, Says

\* Followers of a prefix do not change when the log grows.
LEMMA PrefixFollows ==
  ASSUME NEW l \in Seq(Fact), NEW fact \in Fact, NEW n \in 0..Len(l), NEW p
  PROVE  /\ Follows(Append(l, fact), n, p) <=> Follows(l, n, p)
         /\ Declared(Append(l, fact), n, p) <=> Declared(l, n, p)
<1>1. \A i \in 1..n : Append(l, fact)[i] = l[i]
  BY PrefixSays
<1>2. LastSays(Append(l, fact), n, "follow", p) <=> LastSays(l, n, "follow", p)
  BY PrefixLast
<1>. QED  BY <1>1, <1>2 DEF Follows, Declared, Says

\* Deliveries of a prefix do not change when the log grows.
LEMMA PrefixDelivered ==
  ASSUME NEW l \in Seq(Fact), NEW fact \in Fact, NEW n \in 0..Len(l)
  PROVE  Delivered(Append(l, fact), n) = Delivered(l, n)
<1>1. \A i \in 1..n : Append(l, fact)[i] = l[i]
  BY PrefixSays
<1>2. \A i \in 1..n, p \in Players :
        Follows(Append(l, fact), i - 1, p) <=> Follows(l, i - 1, p)
  BY PrefixFollows
<1>. QED  BY <1>1, <1>2 DEF Delivered, Says

-----------------------------------------------------------------------------
(* One more event.                                                          *)

\* The last declaration after one more event is that event or the one before.
LEMMA LastAfter ==
  ASSUME NEW l \in Seq(Fact), NEW n \in 0..(Len(l) - 1),
         NEW kind \in Declaration, NEW p
  PROVE  LastSays(l, n + 1, kind, p) <=>
           \/ Says(l, n + 1, {kind}, p)
           \/ ~Says(l, n + 1, Declaration, p) /\ LastSays(l, n, kind, p)
<1>1. n + 1 \in 1..(n + 1) /\ \A i \in 1..(n + 1) : i = n + 1 \/ i \in 1..n
  OBVIOUS
<1>2. ASSUME Says(l, n + 1, {kind}, p)
      PROVE  LastSays(l, n + 1, kind, p)
  BY <1>1, <1>2 DEF LastSays
<1>3. ASSUME ~Says(l, n + 1, Declaration, p), LastSays(l, n, kind, p)
      PROVE  LastSays(l, n + 1, kind, p)
  <2>1. PICK i \in 1..n :
          /\ Says(l, i, {kind}, p)
          /\ \A j \in (i + 1)..n : ~Says(l, j, Declaration, p)
    BY <1>3 DEF LastSays
  <2>2. \A j \in (i + 1)..(n + 1) : ~Says(l, j, Declaration, p)
    BY <2>1, <1>3
  <2>. QED  BY <2>1, <2>2 DEF LastSays
<1>4. ASSUME LastSays(l, n + 1, kind, p), ~Says(l, n + 1, {kind}, p)
      PROVE  ~Says(l, n + 1, Declaration, p) /\ LastSays(l, n, kind, p)
  <2>1. PICK i \in 1..(n + 1) :
          /\ Says(l, i, {kind}, p)
          /\ \A j \in (i + 1)..(n + 1) : ~Says(l, j, Declaration, p)
    BY <1>4 DEF LastSays
  <2>2. i \in 1..n
    BY <2>1, <1>4
  <2>3. n + 1 \in (i + 1)..(n + 1) /\ \A j \in (i + 1)..n : j \in (i + 1)..(n + 1)
    BY <2>2
  <2>. QED  BY <2>1, <2>2, <2>3 DEF LastSays
<1>. QED  BY <1>2, <1>3, <1>4

\* A player has declared after one more event if it had, or does now.
LEMMA DeclaredAfter ==
  ASSUME NEW l \in Seq(Fact), NEW n \in 0..(Len(l) - 1), NEW p
  PROVE  Declared(l, n + 1, p) <=>
           Declared(l, n, p) \/ Says(l, n + 1, Declaration, p)
<1>1. n + 1 \in 1..(n + 1) /\ \A i \in 1..(n + 1) : i = n + 1 \/ i \in 1..n
  OBVIOUS
<1>2. \A i \in 1..n : i \in 1..(n + 1)
  OBVIOUS
<1>. QED  BY <1>1, <1>2 DEF Declared

\* What the next event makes of a follower, once declarations have a last one.
LEMMA FollowsAfter ==
  ASSUME NEW l \in Seq(Fact), NEW n \in 0..(Len(l) - 1), NEW p \in Players,
         Declared(l, n, p) => \/ LastSays(l, n, "follow", p)
                              \/ LastSays(l, n, "unfollow", p)
  PROVE  Follows(l, n + 1, p) <=>
           \/ Says(l, n + 1, {"follow"}, p)
           \/ Follows(l, n, p) /\ ~Says(l, n + 1, {"unfollow"}, p)
           \/ Says(l, n + 1, {"rel"}, p) /\ ~LastSays(l, n, "unfollow", p)
<1>. DEFINE Rel(m) == \E i \in 1..m : Says(l, i, {"rel"}, p)
<1>1. Rel(n + 1) <=> Rel(n) \/ Says(l, n + 1, {"rel"}, p)
  <2>1. n + 1 \in 1..(n + 1) /\ \A i \in 1..(n + 1) : i = n + 1 \/ i \in 1..n
    OBVIOUS
  <2>2. \A i \in 1..n : i \in 1..(n + 1)
    OBVIOUS
  <2>. QED  BY <2>1, <2>2
<1>2. \A m : Follows(l, m, p) <=>
        LastSays(l, m, "follow", p) \/ (~Declared(l, m, p) /\ Rel(m))
  BY DEF Follows
<1>3. LastSays(l, n + 1, "follow", p) <=>
        \/ Says(l, n + 1, {"follow"}, p)
        \/ ~Says(l, n + 1, Declaration, p) /\ LastSays(l, n, "follow", p)
  BY LastAfter DEF Declaration
<1>4. Declared(l, n + 1, p) <=>
        Declared(l, n, p) \/ Says(l, n + 1, Declaration, p)
  BY DeclaredAfter
<1>5. Says(l, n + 1, Declaration, p) <=>
        Says(l, n + 1, {"follow"}, p) \/ Says(l, n + 1, {"unfollow"}, p)
  BY DEF Says, Declaration
<1>6. ~(Says(l, n + 1, {"rel"}, p) /\ Says(l, n + 1, Declaration, p))
  BY DEF Says, Declaration
<1>7. LastSays(l, n, "unfollow", p) => Declared(l, n, p)
  BY DEF LastSays, Declared, Says, Declaration
<1>8. ~(LastSays(l, n, "unfollow", p) /\ LastSays(l, n, "follow", p))
  <2>. SUFFICES ASSUME LastSays(l, n, "unfollow", p), LastSays(l, n, "follow", p)
                PROVE  FALSE
    OBVIOUS
  <2>1. PICK i \in 1..n :
          /\ Says(l, i, {"unfollow"}, p)
          /\ \A j \in (i + 1)..n : ~Says(l, j, Declaration, p)
    BY DEF LastSays
  <2>2. PICK k \in 1..n :
          /\ Says(l, k, {"follow"}, p)
          /\ \A j \in (k + 1)..n : ~Says(l, j, Declaration, p)
    BY DEF LastSays
  <2>3. Says(l, i, Declaration, p) /\ Says(l, k, Declaration, p) /\ i # k
    BY <2>1, <2>2 DEF Says, Declaration
  <2>4. i \in (k + 1)..n \/ k \in (i + 1)..n
    BY <2>3
  <2>. QED  BY <2>1, <2>2, <2>3, <2>4
<1>. HIDE DEF Rel
<1>. QED  BY <1>1, <1>2, <1>3, <1>4, <1>5, <1>6, <1>7, <1>8

\* One more event delivers to the followers before it, or to its own player.
LEMMA DeliveredAfter ==
  ASSUME NEW l \in Seq(Fact), NEW n \in 0..(Len(l) - 1)
  PROVE  Delivered(l, n + 1) =
           Delivered(l, n) \cup
           {e \in Players \X {n + 1} :
              \/ l[n + 1].kind = "post" /\ Follows(l, n, e[1])
              \/ Says(l, n + 1, {"rel", "reply"}, e[1])}
<1>1. \A i : i \in 1..(n + 1) <=> i \in 1..n \/ i = n + 1
  OBVIOUS
<1>2. (n + 1) - 1 = n
  OBVIOUS
<1>. QED  BY <1>1, <1>2 DEF Delivered

-----------------------------------------------------------------------------
\* The keys are what the first n events of the log make them.
Keys(l, n, f, r, e) ==
  f = Wanted(l, n) /\ r = Refusing(l, n) /\ e = Delivered(l, n)

\* Whoever declared anything has a last declaration.
DecidedAt(l, n) ==
  \A p \in Players :
    Declared(l, n, p) => \/ LastSays(l, n, "follow", p)
                         \/ LastSays(l, n, "unfollow", p)

\* A player with a declaration has a last one, after one more event too.
LEMMA DecidedAfter ==
  ASSUME NEW l \in Seq(Fact), NEW n \in 0..(Len(l) - 1), DecidedAt(l, n)
  PROVE  DecidedAt(l, n + 1)
<1>. SUFFICES ASSUME NEW p \in Players, Declared(l, n + 1, p)
              PROVE  \/ LastSays(l, n + 1, "follow", p)
                     \/ LastSays(l, n + 1, "unfollow", p)
  BY DEF DecidedAt
<1>1. CASE Says(l, n + 1, Declaration, p)
  <2>1. Says(l, n + 1, {"follow"}, p) \/ Says(l, n + 1, {"unfollow"}, p)
    BY <1>1 DEF Says, Declaration
  <2>. QED  BY <2>1, LastAfter DEF Declaration
<1>2. CASE ~Says(l, n + 1, Declaration, p)
  <2>1. Declared(l, n, p)
    BY <1>2, DeclaredAfter
  <2>2. LastSays(l, n, "follow", p) \/ LastSays(l, n, "unfollow", p)
    BY <2>1 DEF DecidedAt
  <2>. QED  BY <1>2, <2>2, LastAfter DEF Declaration
<1>. QED  BY <1>1, <1>2

\* Before the first event nobody follows, refuses or has an entry.
LEMMA KeysAtStart ==
  ASSUME NEW l
  PROVE  Keys(l, 0, {}, {}, {}) /\ DecidedAt(l, 0) /\ ~RetiredAt(l, 0)
<1>1. 1..0 = {}
  OBVIOUS
<1>2. \A p, kind : ~LastSays(l, 0, kind, p)
  BY <1>1 DEF LastSays
<1>3. \A p : ~Declared(l, 0, p) /\ ~Follows(l, 0, p)
  BY <1>1, <1>2 DEF Declared, Follows
<1>4. Delivered(l, 0) = {}
  BY <1>1 DEF Delivered
<1>5. ~RetiredAt(l, 0)
  BY <1>1 DEF RetiredAt
<1>. QED  BY <1>2, <1>3, <1>4, <1>5 DEF Keys, Wanted, Refusing, DecidedAt

\* An event about the actor's lifecycle is none of the players'.
LEMMA KeysUnchanged ==
  ASSUME NEW l \in Seq(Fact), NEW n \in 0..(Len(l) - 1), NEW f, NEW r, NEW e,
         Keys(l, n, f, r, e), DecidedAt(l, n), l[n + 1].kind \in Lifecycle
  PROVE  Keys(l, n + 1, f, r, e)
<1>1. \A p \in Players, kinds \in SUBSET Personal : ~Says(l, n + 1, kinds, p)
  BY DEF Says, Lifecycle, Personal
<1>2. \A p \in Players : Follows(l, n + 1, p) <=> Follows(l, n, p)
  <2>. TAKE p \in Players
  <2>1. {"follow"} \in SUBSET Personal /\ {"unfollow"} \in SUBSET Personal
        /\ {"rel"} \in SUBSET Personal
    BY DEF Personal
  <2>. QED  BY <1>1, <2>1, FollowsAfter DEF DecidedAt
<1>3. \A p \in Players :
        LastSays(l, n + 1, "unfollow", p) <=> LastSays(l, n, "unfollow", p)
  <2>. TAKE p \in Players
  <2>1. {"unfollow"} \in SUBSET Personal /\ Declaration \in SUBSET Personal
    BY DEF Personal, Declaration
  <2>. QED  BY <1>1, <2>1, LastAfter DEF Declaration
<1>4. Delivered(l, n + 1) = Delivered(l, n)
  <2>1. {"rel", "reply"} \in SUBSET Personal /\ l[n + 1].kind # "post"
    BY DEF Personal, Lifecycle
  <2>2. \A p \in Players : ~Says(l, n + 1, {"rel", "reply"}, p)
    BY <1>1, <2>1
  <2>3. \A d \in Players \X {n + 1} : d[1] \in Players
    OBVIOUS
  <2>4. {d \in Players \X {n + 1} :
           \/ l[n + 1].kind = "post" /\ Follows(l, n, d[1])
           \/ Says(l, n + 1, {"rel", "reply"}, d[1])} = {}
    BY <2>1, <2>2, <2>3
  <2>5. Delivered(l, n + 1) = Delivered(l, n) \cup {}
    <3>1. Delivered(l, n + 1) =
            Delivered(l, n) \cup
            {d \in Players \X {n + 1} :
               \/ l[n + 1].kind = "post" /\ Follows(l, n, d[1])
               \/ Says(l, n + 1, {"rel", "reply"}, d[1])}
      BY DeliveredAfter
    <3>. QED  BY <2>4, <3>1, Zenon
  <2>. QED  BY <2>5
<1>. QED  BY <1>2, <1>3, <1>4 DEF Keys, Wanted, Refusing

\* Appending to the log changes nothing of what the events before it make of
\* the keys.
LEMMA KeysAppend ==
  ASSUME NEW l \in Seq(Fact), NEW fact \in Fact, NEW n \in 0..Len(l),
         NEW f, NEW r, NEW e
  PROVE  Keys(Append(l, fact), n, f, r, e) <=> Keys(l, n, f, r, e)
<1>1. \A p \in Players :
        /\ Follows(Append(l, fact), n, p) <=> Follows(l, n, p)
        /\ LastSays(Append(l, fact), n, "unfollow", p)
             <=> LastSays(l, n, "unfollow", p)
  BY PrefixFollows, PrefixLast
<1>2. Delivered(Append(l, fact), n) = Delivered(l, n)
  BY PrefixDelivered
<1>. QED  BY <1>1, <1>2 DEF Keys, Wanted, Refusing

-----------------------------------------------------------------------------
(* Retirement.                                                              *)

\* An actor is retired after one more event if that retires it, or it was and
\* does not return.
LEMMA RetiredAfter ==
  ASSUME NEW l \in Seq(Fact), NEW fact \in Fact
  PROVE  RetiredAt(Append(l, fact), Len(l) + 1) <=>
           \/ fact.kind = "retired"
           \/ fact.kind # "returned" /\ RetiredAt(l, Len(l))
<1>. DEFINE n == Len(l)
            m == Append(l, fact)
<1>1. m[n + 1] = fact /\ \A i \in 1..n : m[i] = l[i]
  OBVIOUS
<1>2. n \in Nat /\ \A i : i \in 1..(n + 1) <=> i \in 1..n \/ i = n + 1
  OBVIOUS
<1>. HIDE DEF m, n
<1>3. ASSUME RetiredAt(m, n + 1), fact.kind # "retired"
      PROVE  fact.kind # "returned" /\ RetiredAt(l, n)
  <2>1. PICK i \in 1..(n + 1) :
          /\ m[i].kind = "retired"
          /\ \A j \in (i + 1)..(n + 1) : m[j].kind # "returned"
    BY <1>3 DEF RetiredAt
  <2>2. i \in 1..n
    BY <1>1, <1>2, <1>3, <2>1
  <2>3. /\ n + 1 \in (i + 1)..(n + 1)
        /\ \A j \in (i + 1)..n : j \in (i + 1)..(n + 1) /\ j \in 1..n
    BY <1>2, <2>2
  <2>. QED  BY <1>1, <2>1, <2>2, <2>3 DEF RetiredAt
<1>4. ASSUME fact.kind = "retired"
      PROVE  RetiredAt(m, n + 1)
  <2>1. n + 1 \in 1..(n + 1) /\ (n + 1 + 1)..(n + 1) = {}
    BY <1>2
  <2>. QED  BY <1>1, <1>4, <2>1 DEF RetiredAt
<1>5. ASSUME fact.kind # "returned", RetiredAt(l, n)
      PROVE  RetiredAt(m, n + 1)
  <2>1. PICK i \in 1..n :
          l[i].kind = "retired" /\ \A j \in (i + 1)..n : l[j].kind # "returned"
    BY <1>5 DEF RetiredAt
  <2>2. /\ i \in 1..(n + 1)
        /\ \A j \in (i + 1)..(n + 1) :
             j = n + 1 \/ (j \in (i + 1)..n /\ j \in 1..n)
    BY <1>2, <2>1
  <2>. QED  BY <1>1, <1>5, <2>1, <2>2 DEF RetiredAt
<1>. QED  BY <1>3, <1>4, <1>5 DEF m, n

\* Whether the actor was retired does not change when the log grows.
LEMMA PrefixRetired ==
  ASSUME NEW l \in Seq(Fact), NEW fact \in Fact, NEW n \in 0..Len(l)
  PROVE  RetiredAt(Append(l, fact), n) <=> RetiredAt(l, n)
<1>1. \A i \in 1..n : Append(l, fact)[i] = l[i]
  BY PrefixSays
<1>2. \A i \in 1..n : \A j \in (i + 1)..n : j \in 1..n
  OBVIOUS
<1>. QED  BY <1>1, <1>2 DEF RetiredAt

\* The same at a position of a longer log.
LEMMA RetiredNext ==
  ASSUME NEW l \in Seq(Fact), NEW n \in 1..Len(l)
  PROVE  RetiredAt(l, n) <=>
           \/ l[n].kind = "retired"
           \/ l[n].kind # "returned" /\ RetiredAt(l, n - 1)
<1>1. \A i : i \in 1..n <=> i \in 1..(n - 1) \/ i = n
  OBVIOUS
<1>2. ASSUME RetiredAt(l, n), l[n].kind # "retired"
      PROVE  l[n].kind # "returned" /\ RetiredAt(l, n - 1)
  <2>1. PICK i \in 1..n :
          l[i].kind = "retired" /\ \A j \in (i + 1)..n : l[j].kind # "returned"
    BY <1>2 DEF RetiredAt
  <2>2. i \in 1..(n - 1) /\ n \in (i + 1)..n /\ \A j \in (i + 1)..(n - 1) : j \in (i + 1)..n
    BY <1>1, <1>2, <2>1
  <2>. QED  BY <2>1, <2>2 DEF RetiredAt
<1>3. ASSUME l[n].kind = "retired" PROVE RetiredAt(l, n)
  BY <1>3 DEF RetiredAt
<1>4. ASSUME l[n].kind # "returned", RetiredAt(l, n - 1) PROVE RetiredAt(l, n)
  <2>1. PICK i \in 1..(n - 1) :
          l[i].kind = "retired" /\ \A j \in (i + 1)..(n - 1) : l[j].kind # "returned"
    BY <1>4 DEF RetiredAt
  <2>2. i \in 1..n /\ \A j \in (i + 1)..n : j = n \/ j \in (i + 1)..(n - 1)
    BY <1>1, <2>1
  <2>. QED  BY <1>4, <2>1, <2>2 DEF RetiredAt
<1>. QED  BY <1>2, <1>3, <1>4

-----------------------------------------------------------------------------
(* Stretches of the log.                                                    *)

\* Events about the actor's lifecycle change nothing for the players.
LEMMA SilentStretch ==
  ASSUME NEW l \in Seq(Fact), NEW a \in 0..Len(l), NEW b \in a..Len(l),
         \A m \in (a + 1)..b : l[m].kind \in Lifecycle
  PROVE  /\ \A p : Declared(l, b, p) <=> Declared(l, a, p)
         /\ \A p : \A kind \in Declaration : LastSays(l, b, kind, p) <=> LastSays(l, a, kind, p)
         /\ \A p : Follows(l, b, p) <=> Follows(l, a, p)
         /\ Delivered(l, b) = Delivered(l, a)
<1>1. /\ \A i \in 1..a : i \in 1..b
      /\ \A i \in 1..b : i \in 1..a \/ i \in (a + 1)..b
  OBVIOUS
<1>2. \A p : \A m \in (a + 1)..b :
        /\ ~Says(l, m, Declaration, p) /\ ~Says(l, m, {"rel"}, p)
        /\ ~Says(l, m, {"rel", "reply"}, p) /\ l[m].kind # "post"
        /\ \A kind \in Declaration : ~Says(l, m, {kind}, p)
  BY DEF Says, Declaration, Lifecycle
<1>3. \A p : Declared(l, b, p) <=> Declared(l, a, p)
  BY <1>1, <1>2 DEF Declared
<1>4. ASSUME NEW p, NEW kind \in Declaration
      PROVE  LastSays(l, b, kind, p) <=> LastSays(l, a, kind, p)
  <2>1. ASSUME LastSays(l, b, kind, p) PROVE LastSays(l, a, kind, p)
    <3>1. PICK i \in 1..b : /\ Says(l, i, {kind}, p)
                            /\ \A j \in (i + 1)..b : ~Says(l, j, Declaration, p)
      BY <2>1 DEF LastSays
    <3>2. i \notin (a + 1)..b
      BY <1>2, <3>1
    <3>3. i \in 1..a
      BY <1>1, <3>2
    <3>4. \A j \in (i + 1)..a : j \in (i + 1)..b
      BY <3>3
    <3>. QED  BY <3>1, <3>3, <3>4 DEF LastSays
  <2>2. ASSUME LastSays(l, a, kind, p) PROVE LastSays(l, b, kind, p)
    <3>1. PICK i \in 1..a : /\ Says(l, i, {kind}, p)
                            /\ \A j \in (i + 1)..a : ~Says(l, j, Declaration, p)
      BY <2>2 DEF LastSays
    <3>2. \A j \in (i + 1)..b : j \in (i + 1)..a \/ j \in (a + 1)..b
      BY <3>1
    <3>. QED  BY <1>1, <1>2, <3>1, <3>2 DEF LastSays
  <2>. QED  BY <2>1, <2>2
<1>5. \A p : (\E i \in 1..b : Says(l, i, {"rel"}, p)) <=> \E i \in 1..a : Says(l, i, {"rel"}, p)
  BY <1>1, <1>2
<1>6. \A p : Follows(l, b, p) <=> Follows(l, a, p)
  BY <1>3, <1>4, <1>5 DEF Follows, Declaration
<1>7. Delivered(l, b) = Delivered(l, a)
  BY <1>1, <1>2 DEF Delivered
<1>. QED  BY <1>3, <1>4, <1>6, <1>7

\* The last declaration of a player decides whether it follows.
LEMMA DecisionRules ==
  ASSUME NEW l \in Seq(Fact), NEW n \in 0..Len(l), DecidedAt(l, n), NEW p \in Players
  PROVE  /\ LastSays(l, n, "unfollow", p) => Declared(l, n, p) /\ ~Follows(l, n, p)
         /\ Declared(l, n, p) /\ ~LastSays(l, n, "unfollow", p) => Follows(l, n, p)
<1>1. ASSUME LastSays(l, n, "unfollow", p), LastSays(l, n, "follow", p) PROVE FALSE
  <2>1. PICK i \in 1..n : /\ Says(l, i, {"unfollow"}, p)
                          /\ \A j \in (i + 1)..n : ~Says(l, j, Declaration, p)
    BY <1>1 DEF LastSays
  <2>2. PICK k \in 1..n : /\ Says(l, k, {"follow"}, p)
                          /\ \A j \in (k + 1)..n : ~Says(l, j, Declaration, p)
    BY <1>1 DEF LastSays
  <2>3. i # k /\ Says(l, i, Declaration, p) /\ Says(l, k, Declaration, p)
    BY <2>1, <2>2 DEF Says, Declaration
  <2>4. i < k \/ k < i
    BY <2>3
  <2>. QED  BY <2>1, <2>2, <2>3, <2>4
<1>2. LastSays(l, n, "unfollow", p) => Declared(l, n, p)
  BY DEF LastSays, Declared, Says, Declaration
<1>. QED  BY <1>1, <1>2 DEF Follows, DecidedAt

\* What the event at n makes of a player's standing.
LEMMA EventRules ==
  ASSUME NEW l \in Seq(Fact), NEW n \in 1..Len(l), DecidedAt(l, n - 1),
         NEW p \in Players, NEW k, k = l[n].kind, NEW q, q = l[n].player
  PROVE  /\ Declared(l, n, p) <=> Declared(l, n - 1, p) \/ (k \in Declaration /\ p = q)
         /\ LastSays(l, n, "unfollow", p) <=>
              \/ k = "unfollow" /\ p = q
              \/ ~(k \in Declaration /\ p = q) /\ LastSays(l, n - 1, "unfollow", p)
         /\ Follows(l, n, p) <=>
              \/ k = "follow" /\ p = q
              \/ Follows(l, n - 1, p) /\ ~(k = "unfollow" /\ p = q)
              \/ k = "rel" /\ p = q /\ ~LastSays(l, n - 1, "unfollow", p)
<1>1. PICK m \in 0..(Len(l) - 1) : m = n - 1 /\ m + 1 = n
  OBVIOUS
<1>2. /\ Says(l, m + 1, Declaration, p) <=> k \in Declaration /\ p = q
      /\ Says(l, m + 1, {"unfollow"}, p) <=> k = "unfollow" /\ p = q
      /\ Says(l, m + 1, {"follow"}, p) <=> k = "follow" /\ p = q
      /\ Says(l, m + 1, {"rel"}, p) <=> k = "rel" /\ p = q
  BY <1>1 DEF Says
<1>3. Declared(l, m + 1, p) <=> Declared(l, m, p) \/ Says(l, m + 1, Declaration, p)
  BY DeclaredAfter
<1>4. LastSays(l, m + 1, "unfollow", p) <=>
        \/ Says(l, m + 1, {"unfollow"}, p)
        \/ ~Says(l, m + 1, Declaration, p) /\ LastSays(l, m, "unfollow", p)
  BY LastAfter DEF Declaration
<1>5. Follows(l, m + 1, p) <=>
        \/ Says(l, m + 1, {"follow"}, p)
        \/ Follows(l, m, p) /\ ~Says(l, m + 1, {"unfollow"}, p)
        \/ Says(l, m + 1, {"rel"}, p) /\ ~LastSays(l, m, "unfollow", p)
  <2>1. Declared(l, m, p) => LastSays(l, m, "follow", p) \/ LastSays(l, m, "unfollow", p)
    BY <1>1 DEF DecidedAt
  <2>. QED  BY <2>1, FollowsAfter
<1>6. Declared(l, n, p) <=> Declared(l, n - 1, p) \/ (k \in Declaration /\ p = q)
  BY <1>1, <1>2, <1>3
<1>7. LastSays(l, n, "unfollow", p) <=>
        \/ k = "unfollow" /\ p = q
        \/ ~(k \in Declaration /\ p = q) /\ LastSays(l, n - 1, "unfollow", p)
  BY <1>1, <1>2, <1>4
<1>8. Follows(l, n, p) <=>
        \/ k = "follow" /\ p = q
        \/ Follows(l, n - 1, p) /\ ~(k = "unfollow" /\ p = q)
        \/ k = "rel" /\ p = q /\ ~LastSays(l, n - 1, "unfollow", p)
  BY <1>1, <1>2, <1>5
<1>. QED  BY <1>6, <1>7, <1>8

\* Whom the event at n is delivered to.
Audience(l, n) ==
  {p \in Players : \/ l[n].kind = "post" /\ Follows(l, n - 1, p)
                   \/ Says(l, n, {"rel", "reply"}, p)}

\* An event adds an entry for each of its audience, and no other.
LEMMA DeliveryRules ==
  ASSUME NEW l \in Seq(Fact), NEW n \in 1..Len(l)
  PROVE  Delivered(l, n) = Delivered(l, n - 1) \cup (Audience(l, n) \X {n})
<1>1. PICK m \in 0..(Len(l) - 1) : m = n - 1 /\ m + 1 = n
  OBVIOUS
<1>2. Delivered(l, m + 1) =
        Delivered(l, m) \cup
        {e \in Players \X {m + 1} :
           \/ l[m + 1].kind = "post" /\ Follows(l, m, e[1])
           \/ Says(l, m + 1, {"rel", "reply"}, e[1])}
  BY DeliveredAfter
<1>. QED  BY <1>1, <1>2 DEF Audience
=============================================================================
