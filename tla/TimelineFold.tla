----------------------------- MODULE TimelineFold -----------------------------
(***************************************************************************)
(* What the follower index of one actor and its entries in the players'    *)
(* timelines ought to be, read off the event log (services/projector,      *)
(* timeline_verify.py: fold_followers).  Relationship events make a player *)
(* a follower, follow.changed declares or withdraws it explicitly, and the *)
(* last declaration wins; a retired actor has neither followers nor        *)
(* entries until it returns.                                               *)
(***************************************************************************)
EXTENDS Integers, Sequences, FiniteSets

CONSTANTS
  Players,
  NoPlayer   \* the player of an event that concerns none

ASSUME FoldAssumption == NoPlayer \notin Players

Personal == {"rel", "follow", "unfollow", "reply"}
General == {"post", "retired", "returned"}

\* follow / unfollow: player.follow.changed with following true / false.
Fact == [kind : Personal, player : Players]
        \cup [kind : General, player : {NoPlayer}]

Lifecycle == {"retired", "returned"}
Declaration == {"follow", "unfollow"}

\* The event at i is one of these kinds and concerns p.
Says(log, i, kinds, p) == log[i].kind \in kinds /\ log[i].player = p

\* Retired and not returned since, as of the first n events.
RetiredAt(log, n) ==
  \E i \in 1..n : /\ log[i].kind = "retired"
                  /\ \A j \in (i + 1)..n : log[j].kind # "returned"

\* The last declaration of p among the first n events is of this kind.
LastSays(log, n, kind, p) ==
  \E i \in 1..n :
    /\ Says(log, i, {kind}, p)
    /\ \A j \in (i + 1)..n : ~Says(log, j, Declaration, p)

Declared(log, n, p) == \E i \in 1..n : Says(log, i, Declaration, p)

Follows(log, n, p) ==
  \/ LastSays(log, n, "follow", p)
  \/ ~Declared(log, n, p) /\ \E i \in 1..n : Says(log, i, {"rel"}, p)

Wanted(log, n) == {p \in Players : Follows(log, n, p)}

Refusing(log, n) == {p \in Players : LastSays(log, n, "unfollow", p)}

\* A post goes to those who follow when it is published; a reply and the receipt
\* of a relationship change go to the player they are for.
Delivered(log, n) ==
  {e \in Players \X (1..n) :
     \/ log[e[2]].kind = "post" /\ Follows(log, e[2] - 1, e[1])
     \/ Says(log, e[2], {"rel", "reply"}, e[1])}

\* fold_followers: its premise is that nothing about an actor happens between
\* its retirement and its return.
Fold(log) == IF RetiredAt(log, Len(log)) THEN {} ELSE Wanted(log, Len(log))

MayFollow(log, fact) ==
  IF RetiredAt(log, Len(log)) THEN fact.kind = "returned"
                              ELSE fact.kind # "returned"
=============================================================================
