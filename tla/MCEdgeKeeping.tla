---------------------------- MODULE MCEdgeKeeping ----------------------------
(* Two actors on two shards and two players; an actor has room for two.      *)
EXTENDS EdgeKeeping

MCHome == 1 :> "w1" @@ 2 :> "w2"

MCEffects ==
  [dm |-> [incoming |-> [trust |-> 2, intimacy |-> 2, salience |-> 3]],
   like |-> [incoming |-> [intimacy |-> 1, salience |-> 1]],
   comment |-> [outgoing |-> [trust |-> 1, intimacy |-> 1, salience |-> 1]],
   help |-> [outgoing |-> [intimacy |-> 1, salience |-> 2],
             incoming |-> [trust |-> 2, intimacy |-> 1, salience |-> 2]],
   confess |-> [outgoing |-> [intimacy |-> 1, salience |-> 2],
                incoming |-> [attraction |-> 2, salience |-> 2]],
   sever |-> [outgoing |-> [intimacy |-> -2, salience |-> 1],
              incoming |-> [trust |-> -3, resentment |-> 4]]]

MCFeelings == [gratitude |-> [trust |-> 4, intimacy |-> 2]]

MCRates == [intimacy |-> 1, salience |-> 1]

Deed(what, who, whom, how) ==
  [what |-> what, who |-> who, whom |-> whom, how |-> how]

MCScripts ==
  {{Deed("acts", 1, 2, "help"), Deed("acts", 1, 2, "confess"),
    Deed("acts", 2, 1, "sever")},
   {Deed("hears", 1, 3, "dm"), Deed("hears", 1, 4, "like"),
    Deed("acts", 2, 1, "help")},
   {Deed("hears", 1, 3, "dm"), Deed("feels", 1, 3, "gratitude"),
    Deed("says", 2, 1, "comment")}}

MCThanked == {<<1, 3>>}

MCProposals ==
  {[kind |-> "person_insight", about |-> 2, sure |-> 5],
   [kind |-> "person_insight", about |-> 9, sure |-> 12]}

\* Bound: a behaviour ends where two workers hold one edge at once; what the
\* properties say of relationships is said of behaviours before that.
NoClashYet == ~clash
=============================================================================
