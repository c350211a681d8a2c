------------------------- MODULE TimelineReplayProofs -------------------------
(***************************************************************************)
(* Rebuilding the timelines gives the fold of the log, for any number of   *)
(* players and logs of any length.                                         *)
(*                                                                         *)
(* ReplayInv says that the keys are what the first n events make them,     *)
(* where n is the length of the log or, during a return, the cursor.  What *)
(* one more event changes is in TimelineFoldLemmas; that a player who      *)
(* declared anything has a last declaration is Decided, kept as an         *)
(* invariant of its own because it is an induction over the log.           *)
(***************************************************************************)
EXTENDS TimelineReplay, TimelineFoldLemmas

\* Whoever declared anything has a last declaration, at every point of the log.
Decided == \A n \in 0..Len(log) : DecidedAt(log, n)

\* Applying the event at n + 1 to the keys of the first n gives those of n + 1.
LEMMA KeysApplied ==
  ASSUME log \in Seq(Fact), NEW l \in Seq(Fact), NEW n \in 0..(Len(l) - 1),
         Keys(l, n, followers, refused, entries), DecidedAt(l, n),
         l[n + 1].kind \notin Lifecycle, Apply(l[n + 1], n + 1)
  PROVE  Keys(l, n + 1, followers', refused', entries')
<1>. DEFINE fact == l[n + 1]
            q == fact.player
<1>1. /\ fact \in Fact
      /\ fact.kind \in {"rel", "follow", "unfollow", "reply", "post"}
      /\ fact.kind # "post" => q \in Players
  BY KindOfFact DEF Personal, General, Lifecycle
<1>2. \A p, kinds : Says(l, n + 1, kinds, p) <=> (fact.kind \in kinds /\ q = p)
  BY DEF Says
<1>3. \A p \in Players :
        Follows(l, n + 1, p) <=>
          \/ fact.kind = "follow" /\ p = q
          \/ Follows(l, n, p) /\ ~(fact.kind = "unfollow" /\ p = q)
          \/ fact.kind = "rel" /\ p = q /\ ~LastSays(l, n, "unfollow", p)
  BY <1>2, FollowsAfter DEF DecidedAt
<1>4. \A p \in Players :
        LastSays(l, n + 1, "unfollow", p) <=>
          \/ fact.kind = "unfollow" /\ p = q
          \/ LastSays(l, n, "unfollow", p) /\ ~(fact.kind = "follow" /\ p = q)
  <2>. TAKE p \in Players
  <2>1. LastSays(l, n + 1, "unfollow", p) <=>
          \/ Says(l, n + 1, {"unfollow"}, p)
          \/ ~Says(l, n + 1, Declaration, p) /\ LastSays(l, n, "unfollow", p)
    BY LastAfter DEF Declaration
  <2>. QED  BY <1>2, <2>1 DEF Declaration
<1>5. Delivered(l, n + 1) =
        Delivered(l, n) \cup
        {e \in Players \X {n + 1} :
           \/ fact.kind = "post" /\ Follows(l, n, e[1])
           \/ fact.kind \in {"rel", "reply"} /\ q = e[1]}
  BY <1>2, DeliveredAfter
<1>6. /\ followers = Wanted(l, n) /\ refused = Refusing(l, n)
      /\ entries = Delivered(l, n)
  BY DEF Keys
<1>. HIDE DEF fact, q
<1>7. Apply(fact, n + 1)
  BY DEF fact
<1>8. CASE fact.kind = "rel"
  <2>1. followers' = (IF q \in refused THEN followers ELSE followers \cup {q})
        /\ refused' = refused /\ entries' = entries \cup ({q} \X {n + 1})
    BY <1>7, <1>8 DEF Apply, Register, Deliver, Declaration, q
  <2>2. Delivered(l, n + 1) = Delivered(l, n) \cup ({q} \X {n + 1})
    BY <1>1, <1>5, <1>8
  <2>. QED  BY <1>1, <1>3, <1>4, <1>6, <1>8, <2>1, <2>2 DEF Keys, Wanted, Refusing
<1>9. CASE fact.kind = "follow"
  <2>1. followers' = followers \cup {q} /\ refused' = refused \ {q}
        /\ entries' = entries
    BY <1>7, <1>9 DEF Apply, SetFollow, Declaration, q
  <2>2. Delivered(l, n + 1) = Delivered(l, n)
    BY <1>5, <1>9
  <2>. QED  BY <1>1, <1>3, <1>4, <1>6, <1>9, <2>1, <2>2 DEF Keys, Wanted, Refusing
<1>10. CASE fact.kind = "unfollow"
  <2>1. followers' = followers \ {q} /\ refused' = refused \cup {q}
        /\ entries' = entries
    BY <1>7, <1>10 DEF Apply, SetFollow, Declaration, q
  <2>2. Delivered(l, n + 1) = Delivered(l, n)
    BY <1>5, <1>10
  <2>. QED  BY <1>1, <1>3, <1>4, <1>6, <1>10, <2>1, <2>2 DEF Keys, Wanted, Refusing
<1>11. CASE fact.kind = "post"
  <2>1. followers' = followers /\ refused' = refused
        /\ entries' = entries \cup (followers \X {n + 1})
    BY <1>7, <1>11 DEF Apply, Deliver, Declaration
  <2>2. Delivered(l, n + 1) = Delivered(l, n) \cup (Wanted(l, n) \X {n + 1})
    BY <1>5, <1>11 DEF Wanted
  <2>. QED  BY <1>1, <1>3, <1>4, <1>6, <1>11, <2>1, <2>2 DEF Keys, Wanted, Refusing
<1>12. CASE fact.kind = "reply"
  <2>1. followers' = followers /\ refused' = refused
        /\ entries' = entries \cup ({q} \X {n + 1})
    BY <1>7, <1>12 DEF Apply, Deliver, Declaration, q
  <2>2. Delivered(l, n + 1) = Delivered(l, n) \cup ({q} \X {n + 1})
    BY <1>1, <1>5, <1>12
  <2>. QED  BY <1>1, <1>3, <1>4, <1>6, <1>12, <2>1, <2>2 DEF Keys, Wanted, Refusing
<1>. QED  BY <1>1, <1>8, <1>9, <1>10, <1>11, <1>12

-----------------------------------------------------------------------------
(* The invariant.                                                           *)

\* How much of the log the keys stand for.
Pos == IF cursor = 0 THEN Len(log) ELSE cursor - 1

Empty == followers = {} /\ refused = {} /\ entries = {}

IInv ==
  /\ TypeOK
  /\ cursor <= Len(log)
  /\ cursor # 0 => log[Len(log)].kind = "returned"
  /\ cursor = 0 /\ RetiredAt(log, Len(log)) => Empty
  /\ ~(cursor = 0 /\ RetiredAt(log, Len(log))) =>
       Keys(log, Pos, followers, refused, entries)
  /\ Decided

\* The strengthened invariant implies the stated one.
LEMMA IInvIsReplayInv == IInv => ReplayInv
BY DEF IInv, ReplayInv, Pos, Empty, Keys

\* Empty keys are the fold of the empty log.
LEMMA InitInv == Init => IInv
<1>. SUFFICES ASSUME Init PROVE IInv
  OBVIOUS
<1>1. TypeOK /\ Len(log) = 0 /\ Pos = 0 /\ cursor = 0
  BY DEF Init, TypeOK, Pos
<1>2. Keys(log, 0, {}, {}, {}) /\ DecidedAt(log, 0)
  BY KeysAtStart
<1>. QED  BY <1>1, <1>2 DEF Init, IInv, Empty, Decided

\* A longer log is decided where the log was, and one further.
LEMMA DecidedAppend ==
  ASSUME log \in Seq(Fact), Decided, NEW fact \in Fact, log' = Append(log, fact)
  PROVE  Decided'
<1>1. \A n \in 0..Len(log) : DecidedAt(log', n)
  <2>. TAKE n \in 0..Len(log)
  <2>1. \A p \in Players, kind \in Declaration :
          LastSays(log', n, kind, p) <=> LastSays(log, n, kind, p)
    BY PrefixLast
  <2>2. \A p \in Players : Declared(log', n, p) <=> Declared(log, n, p)
    BY PrefixFollows
  <2>3. DecidedAt(log, n)
    BY DEF Decided
  <2>. QED  BY <2>1, <2>2, <2>3 DEF DecidedAt, Declaration
<1>2. log' \in Seq(Fact) /\ Len(log') = Len(log) + 1 /\ Len(log) \in Nat
  OBVIOUS
<1>3. DecidedAt(log', Len(log) + 1)
  <2>1. Len(log) \in 0..(Len(log') - 1) /\ DecidedAt(log', Len(log))
    BY <1>1, <1>2
  <2>. QED  BY <1>2, <2>1, DecidedAfter
<1>4. \A n \in 0..Len(log') : n \in 0..Len(log) \/ n = Len(log) + 1
  BY <1>2
<1>. QED  BY <1>1, <1>3, <1>4 DEF Decided

\* Applying the next event of the log keeps the keys the fold of the log.
LEMMA FeedInv ==
  ASSUME IInv, NEW fact \in Fact, Feed(fact)
  PROVE  IInv'
<1>. DEFINE n == Len(log)
<1>1. /\ log \in Seq(Fact) /\ n \in Nat /\ cursor = 0 /\ cursor' = 0
      /\ log' = Append(log, fact) /\ log' \in Seq(Fact) /\ Len(log') = n + 1
      /\ log'[n + 1] = fact /\ fact.kind # "returned"
  BY DEF IInv, TypeOK, Feed
<1>2. ~RetiredAt(log, n)
  BY <1>1 DEF Feed, MayFollow
<1>3. Keys(log, n, followers, refused, entries) /\ Decided /\ DecidedAt(log, n)
  BY <1>1, <1>2 DEF IInv, Pos, Decided
<1>4. Keys(log', n, followers, refused, entries)
  BY <1>1, <1>3, KeysAppend
<1>5. Decided' /\ DecidedAt(log', n)
  <2>1. Decided'
    BY <1>1, <1>3, DecidedAppend
  <2>2. n \in 0..Len(log')
    BY <1>1
  <2>. QED  BY <2>1, <2>2 DEF Decided
<1>6. Apply(fact, n + 1)
  BY DEF Feed
<1>7. TypeOK'
  <2>1. fact.kind # "post" /\ fact.kind # "retired" => fact.player \in Players
    BY <1>1, KindOfFact DEF Personal, General, Fact
  <2>2. fact.kind \in Personal \cup {"post", "retired"}
    BY <1>1, KindOfFact DEF Personal, General
  <2>3. /\ followers' \subseteq Players /\ refused' \subseteq Players
        /\ entries' \subseteq Players \X Nat
    <3>1. followers \subseteq Players /\ refused \subseteq Players
          /\ entries \subseteq Players \X Nat
      BY DEF IInv, TypeOK
    <3>2. CASE fact.kind \in {"rel", "reply"}
      <4>1. /\ refused' = refused
            /\ followers' = followers \/ followers' = followers \cup {fact.player}
            /\ entries' = entries \cup ({fact.player} \X {n + 1})
        BY <1>6, <3>2 DEF Apply, Register, Deliver, Declaration
      <4>. QED  BY <1>1, <2>1, <3>1, <3>2, <4>1
    <3>3. CASE fact.kind \in Declaration
      <4>1. /\ followers' \subseteq followers \cup {fact.player}
            /\ refused' \subseteq refused \cup {fact.player}
            /\ entries' = entries
        BY <1>6, <3>3 DEF Apply, SetFollow, Declaration
      <4>. QED  BY <2>1, <3>1, <3>3, <4>1 DEF Declaration
    <3>4. CASE fact.kind = "post"
      <4>1. /\ followers' = followers /\ refused' = refused
            /\ entries' = entries \cup (followers \X {n + 1})
        BY <1>6, <3>4 DEF Apply, Deliver, Declaration
      <4>. QED  BY <1>1, <3>1, <4>1
    <3>5. CASE fact.kind = "retired"
      BY <1>6, <3>5 DEF Apply, Retire, Declaration
    <3>. QED  BY <2>2, <3>2, <3>3, <3>4, <3>5 DEF Personal, Declaration
  <2>. QED  BY <1>1, <2>3 DEF TypeOK
<1>8. CASE fact.kind = "retired"
  <2>1. RetiredAt(log', n + 1)
    BY <1>1, <1>8, RetiredAfter
  <2>2. Empty'
    BY <1>6, <1>8 DEF Apply, Retire, Empty, Declaration
  <2>. QED  BY <1>1, <1>5, <1>7, <2>1, <2>2 DEF IInv
<1>9. CASE fact.kind # "retired"
  <2>1. ~RetiredAt(log', n + 1)
    BY <1>1, <1>2, <1>9, RetiredAfter
  <2>2. n \in 0..(Len(log') - 1) /\ log'[n + 1].kind \notin Lifecycle
    BY <1>1, <1>9 DEF Lifecycle
  <2>3. Keys(log', n + 1, followers', refused', entries')
    BY <1>1, <1>4, <1>5, <1>6, <2>2, KeysApplied
  <2>4. Pos' = n + 1
    BY <1>1 DEF Pos
  <2>. QED  BY <1>1, <1>5, <1>7, <2>1, <2>3, <2>4 DEF IInv
<1>. QED  BY <1>8, <1>9

\* A return meets the keys its retirement emptied, so the past is fed into
\* nothing.
LEMMA FeedReturnInv ==
  ASSUME IInv, NEW fact \in Fact, FeedReturn(fact)
  PROVE  IInv'
<1>. DEFINE n == Len(log)
<1>1. /\ log \in Seq(Fact) /\ n \in Nat /\ cursor = 0 /\ cursor' = 1
      /\ log' = Append(log, fact) /\ log' \in Seq(Fact) /\ Len(log') = n + 1
      /\ log'[n + 1] = fact /\ fact.kind = "returned"
      /\ UNCHANGED <<followers, refused, entries>>
  BY DEF IInv, TypeOK, FeedReturn
<1>2. RetiredAt(log, n) /\ Empty
  BY <1>1 DEF FeedReturn, MayFollow, IInv
<1>3. Keys(log', 0, {}, {}, {}) /\ Pos' = 0
  BY <1>1, KeysAtStart DEF Pos
<1>4. Decided'
  BY <1>1, DecidedAppend DEF IInv
<1>5. TypeOK'
  BY <1>1 DEF IInv, TypeOK
<1>. QED  BY <1>1, <1>2, <1>3, <1>4, <1>5 DEF IInv, Empty

\* Feeding one event of the past again keeps the keys the fold up to the
\* cursor.
LEMMA AgainInv ==
  ASSUME IInv, Again
  PROVE  IInv'
<1>1. /\ log \in Seq(Fact) /\ Len(log) \in Nat /\ log' = log
      /\ cursor \in 1..(Len(log) - 1) /\ cursor' = cursor + 1
      /\ log[Len(log)].kind = "returned" /\ Decided
  BY DEF IInv, TypeOK, Again
<1>. DEFINE n == cursor - 1
<1>2. /\ n \in 0..(Len(log) - 1) /\ n + 1 = cursor
      /\ n \in 0..Len(log) /\ Pos = n /\ Pos' = n + 1
  BY <1>1 DEF Pos
<1>3. Keys(log, n, followers, refused, entries) /\ DecidedAt(log, n)
  BY <1>1, <1>2 DEF IInv, Decided
<1>4. Keys(log, n + 1, followers', refused', entries')
  <2>1. CASE log[cursor].kind \in Lifecycle
    <3>1. UNCHANGED <<followers, refused, entries>>
      BY <2>1 DEF Again
    <3>. QED  BY <1>1, <1>2, <1>3, <2>1, <3>1, KeysUnchanged
  <2>2. CASE log[cursor].kind \notin Lifecycle
    <3>1. Apply(log[n + 1], n + 1)
      BY <1>2, <2>2 DEF Again
    <3>. QED  BY <1>1, <1>2, <1>3, <2>2, <3>1, KeysApplied
  <2>. QED  BY <2>1, <2>2
<1>5. TypeOK'
  <2>1. /\ followers' \subseteq Players /\ refused' \subseteq Players
        /\ entries' \subseteq Players \X Nat
    BY <1>1, <1>2, <1>4 DEF Keys, Wanted, Refusing, Delivered
  <2>. QED  BY <1>1, <2>1 DEF TypeOK
<1>. QED  BY <1>1, <1>2, <1>4, <1>5 DEF IInv, Decided

\* When the cursor meets the return the keys are the fold of the whole log.
LEMMA ReturnedInv ==
  ASSUME IInv, Returned
  PROVE  IInv'
<1>1. /\ log \in Seq(Fact) /\ Len(log) \in Nat \ {0} /\ cursor = Len(log)
      /\ cursor' = 0 /\ log[Len(log)].kind = "returned" /\ Decided
      /\ UNCHANGED <<log, followers, refused, entries>>
  BY DEF IInv, TypeOK, Returned
<1>. DEFINE n == Len(log) - 1
<1>2. /\ n \in 0..(Len(log) - 1) /\ n \in 0..Len(log) /\ n + 1 = Len(log)
      /\ Pos = n /\ Pos' = n + 1
  BY <1>1 DEF Pos
<1>3. Keys(log, n, followers, refused, entries) /\ DecidedAt(log, n)
  BY <1>1, <1>2 DEF IInv, Decided
<1>4. Keys(log, n + 1, followers, refused, entries)
  BY <1>1, <1>2, <1>3, KeysUnchanged DEF Lifecycle
<1>5. ~RetiredAt(log, Len(log))
  <2>1. \A i \in 1..Len(log) :
          log[i].kind = "retired" => Len(log) \in (i + 1)..Len(log)
    BY <1>1
  <2>. QED  BY <1>1, <2>1 DEF RetiredAt
<1>6. TypeOK'
  BY <1>1 DEF IInv, TypeOK
<1>. QED  BY <1>1, <1>2, <1>4, <1>5, <1>6 DEF IInv, Decided

\* Dropping every key starts the replay over.
LEMMA InterruptedInv ==
  ASSUME IInv, Interrupted
  PROVE  IInv'
<1>1. /\ log' = <<>> /\ cursor' = 0 /\ Len(log') = 0 /\ Pos' = 0 /\ Empty'
  BY DEF Interrupted, Pos, Empty
<1>2. Keys(log', 0, {}, {}, {}) /\ DecidedAt(log', 0)
  BY KeysAtStart
<1>3. Decided'
  BY <1>1, <1>2 DEF Decided
<1>4. TypeOK'
  BY <1>1 DEF TypeOK, Empty
<1>. QED  BY <1>1, <1>2, <1>3, <1>4 DEF IInv, Empty

\* Every step of the replay keeps the strengthened invariant.
LEMMA StepInv == IInv /\ [Next]_vars => IInv'
<1>. SUFFICES ASSUME IInv, [Next]_vars PROVE IInv'
  OBVIOUS
<1>1. CASE \E fact \in Fact : Feed(fact) \/ FeedReturn(fact)
  BY <1>1, FeedInv, FeedReturnInv
<1>2. CASE Again
  BY <1>2, AgainInv
<1>3. CASE Returned
  BY <1>3, ReturnedInv
<1>4. CASE Interrupted
  BY <1>4, InterruptedInv
<1>5. CASE UNCHANGED vars
  BY <1>5 DEF vars, IInv, TypeOK, Empty, Pos, Decided
<1>. QED  BY <1>1, <1>2, <1>3, <1>4, <1>5 DEF Next

-----------------------------------------------------------------------------
\* In every reachable state of a replay the keys are what the events applied so
\* far make them, also halfway through the return of an actor.
THEOREM ReplayInvariant == Spec => []ReplayInv
<1>1. Spec => []IInv
  BY InitInv, StepInv, PTL DEF Spec
<1>. QED  BY <1>1, IInvIsReplayInv, PTL

\* A replay ends with the follower index that timeline_verify.py computes from
\* the log, whatever retirements, returns and interruptions it went through.
THEOREM RebuildIsFold == Spec => []IndexIsFold
<1>1. ReplayInv => IndexIsFold
  BY DEF ReplayInv, IndexIsFold, Fold
<1>. QED  BY <1>1, ReplayInvariant, PTL

\* A return restores exactly the timeline entries that the retirement removed.
THEOREM ReturnRestoresEntries == Spec => []EntriesRestored
<1>1. ReplayInv => EntriesRestored
  BY DEF ReplayInv, EntriesRestored
<1>. QED  BY <1>1, ReplayInvariant, PTL
=============================================================================
