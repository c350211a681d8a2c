---------------------------- MODULE TimelineReplay ----------------------------
(***************************************************************************)
(* Rebuilding the timelines from the event store (services/projector:      *)
(* redis_projector.py replay_apply, replay.py, timeline.py): all keys are  *)
(* dropped and every event is applied in global_seq order by one process.  *)
(* The event of an actor's return feeds the actor's past up to it through  *)
(* the same functions again, without the lifecycle events.  A replay that  *)
(* is interrupted is started from the beginning.                           *)
(*                                                                         *)
(* One actor; timelines are not trimmed (TIMELINE_CAP is out of reach).    *)
(***************************************************************************)
EXTENDS TimelineFold

CONSTANT MaxLog   \* bound: events in the log

ASSUME ReplayAssumption == MaxLog \in Nat

VARIABLES
  log,        \* the events read so far
  followers,  \* lf:tlflw of the actor
  refused,    \* lf:tlunfl of the actor
  entries,    \* <<player, event>>: the actor's entries in the lf:tl keys
  cursor      \* the next past event to apply again, 0 when not returning

vars == <<log, followers, refused, entries, cursor>>

TypeOK ==
  /\ log \in Seq(Fact)
  /\ followers \subseteq Players /\ refused \subseteq Players
  /\ entries \subseteq Players \X Nat
  /\ cursor \in Nat

Init ==
  /\ log = <<>>
  /\ followers = {} /\ refused = {} /\ entries = {}
  /\ cursor = 0

-----------------------------------------------------------------------------
\* Mutant: the refusal is not asked for.
RegisterAlways(p) == followers' = followers \cup {p}

\* register_follower
Register(p) == followers' = IF p \in refused THEN followers
                                             ELSE followers \cup {p}

\* Mutant: the refusal outlives a new declaration.
SetFollowSticky(p, on) ==
  IF on
  THEN followers' = followers \cup {p} /\ refused' = refused
  ELSE followers' = followers \ {p} /\ refused' = refused \cup {p}

\* set_follow, one MULTI
SetFollow(p, on) ==
  IF on
  THEN followers' = followers \cup {p} /\ refused' = refused \ {p}
  ELSE followers' = followers \ {p} /\ refused' = refused \cup {p}

\* push, push_reply, push_receipt, fan_out_post: ZADD of one event.
Deliver(players, i) == entries' = entries \cup (players \X {i})

\* retire_actor
Retire == followers' = {} /\ refused' = {} /\ entries' = {}

\* The function _sources routes the event to; returned is not among them.
Apply(fact, i) ==
  CASE fact.kind = "rel" ->
         Register(fact.player) /\ Deliver({fact.player}, i)
         /\ UNCHANGED refused
    [] fact.kind \in Declaration ->
         SetFollow(fact.player, fact.kind = "follow") /\ UNCHANGED entries
    [] fact.kind = "post" ->
         Deliver(followers, i) /\ UNCHANGED <<followers, refused>>
    [] fact.kind = "reply" ->
         Deliver({fact.player}, i) /\ UNCHANGED <<followers, refused>>
    [] fact.kind = "retired" -> Retire

\* replay_envelopes yields the next event.
Feed(fact) ==
  /\ cursor = 0
  /\ Len(log) < MaxLog
  /\ MayFollow(log, fact)
  /\ fact.kind # "returned"
  /\ log' = Append(log, fact)
  /\ Apply(fact, Len(log) + 1)
  /\ UNCHANGED cursor

\* ... and it is the actor's return: reproject_returned begins.
FeedReturn(fact) ==
  /\ cursor = 0
  /\ Len(log) < MaxLog
  /\ MayFollow(log, fact)
  /\ fact.kind = "returned"
  /\ log' = Append(log, fact)
  /\ cursor' = 1
  /\ UNCHANGED <<followers, refused, entries>>

\* Mutant: the scope of a return holds the retirement too.
AgainAll ==
  /\ cursor \in 1..(Len(log) - 1)
  /\ IF log[cursor].kind = "returned" THEN UNCHANGED <<followers, refused, entries>>
     ELSE Apply(log[cursor], cursor)
  /\ cursor' = cursor + 1
  /\ UNCHANGED log

\* return_envelopes: the actor's events before the return, in order, without
\* those of RETURN_SCOPES' exclusion.
Again ==
  /\ cursor \in 1..(Len(log) - 1)
  /\ IF log[cursor].kind \in Lifecycle
     THEN UNCHANGED <<followers, refused, entries>>
     ELSE Apply(log[cursor], cursor)
  /\ cursor' = cursor + 1
  /\ UNCHANGED log

Returned ==
  /\ cursor # 0 /\ cursor = Len(log)
  /\ cursor' = 0
  /\ UNCHANGED <<log, followers, refused, entries>>

\* The replay dies; the next one begins with drop_all.
Interrupted ==
  /\ log' = <<>> /\ followers' = {} /\ refused' = {} /\ entries' = {}
  /\ cursor' = 0

Next ==
  \/ \E fact \in Fact : Feed(fact) \/ FeedReturn(fact)
  \/ Again
  \/ Returned
  \/ Interrupted

Spec == Init /\ [][Next]_vars

-----------------------------------------------------------------------------
\* What verify_timeline compares with after a rebuild: the index is the fold of
\* the log, whatever retirements and returns happened in between.
IndexIsFold == cursor = 0 => followers = Fold(log)

\* The actor's entries are those of the posts its followers of the time saw and
\* of what was addressed to a player, none while it is retired, and all of them
\* again after a return (replay.py: exactly what retire_actor took away).
EntriesRestored ==
  cursor = 0 =>
    entries = IF RetiredAt(log, Len(log)) THEN {} ELSE Delivered(log, Len(log))

\* The inductive invariant behind both: while the past is applied again, the
\* keys are what the events before the cursor make them.
ReplayInv ==
  /\ TypeOK
  /\ cursor <= Len(log)
  /\ cursor # 0 => log[Len(log)].kind = "returned"
  /\ LET n == IF cursor = 0 THEN Len(log) ELSE cursor - 1
     IN IF cursor = 0 /\ RetiredAt(log, n)
        THEN followers = {} /\ refused = {} /\ entries = {}
        ELSE /\ followers = Wanted(log, n)
             /\ refused = Refusing(log, n)
             /\ entries = Delivered(log, n)
=============================================================================
