----------------------------- MODULE MCActorTick -----------------------------
(* Two actors and two players.  Four kinds of traffic: two likes of one      *)
(* player and a word in a mailbox for two; two words; a word and a piece of  *)
(* news for both actors; a word and a garbled message.                       *)
EXTENDS ActorTick

MCItems == {"w1", "w2", "l1", "l2", "n", "g"}

MCTraffic ==
  {{"l1", "l2", "w2"}, {"w1", "w2"}, {"w1", "n"}, {"w1", "g"}}

MCNotes == {{"w1", "g"}}

MCKind ==
  [i \in MCItems |-> CASE i \in {"w1", "w2"} -> "word"
                      [] i \in {"l1", "l2"} -> "like"
                      [] i = "n" -> "news"
                      [] i = "g" -> "garbled"]

MCFrom == [i \in MCItems |-> IF i = "w2" THEN 2 ELSE 1]

MCTo ==
  [i \in MCItems |-> CASE i = "n" -> {1, 2} [] i = "g" -> {} [] OTHER -> {1}]

MCDue == [t \in {0} |-> {1}]
=============================================================================
