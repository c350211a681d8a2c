------------------------------ MODULE MCActorMind ------------------------------
(* Two actors and one player, fractions of a hundred.  Six short stories:     *)
(* falling asleep and being woken, a conversation that echoes, posts to       *)
(* comment on and words for a friend, goals, and the persona studio.          *)
EXTENDS ActorMind

MCRule(type, base, p, a, d) ==
  [type |-> type, base |-> base,
   pad |-> [pleasure |-> p, arousal |-> a, dominance |-> d]]

MCAppraisal ==
  [like |-> MCRule("joy", 25, 50, 20, 10),
   comment |-> MCRule("gratitude", 45, 50, 30, -10),
   dm |-> MCRule("gratitude", 55, 60, 30, -10)]
  @@ ("goal.advanced" :> MCRule("joy", 50, 50, 20, 30))
  @@ ("goal.achieved" :> MCRule("joy", 85, 70, 40, 40))
  @@ ("goal.frustrated" :> MCRule("distress", 45, -50, 30, -30))

MCPostAppraisal ==
  [warm |-> MCRule("joy", 30, 40, 10, 0), sore |-> MCRule("distress", 30, -40, 30, -10)]

MCFive(n) ==
  [openness |-> 50, conscientiousness |-> 60, extraversion |-> 50,
   agreeableness |-> 60, neuroticism |-> n]

MCPersona ==
  [a \in {1, 2} |->
     [five |-> MCFive(30 * a),
      goals |-> IF a = 1 THEN 1 :> [need |-> "achievement", priority |-> 100]
                          @@ 2 :> [need |-> "security", priority |-> 50]
                ELSE <<>>,
      bias |-> IF a = 1 THEN [achievement |-> 80, security |-> 80]
               ELSE [belonging |-> 60]]]

MCEdges ==
  [a \in {1, 2} |->
     IF a = 1 THEN 2 :> [trust |-> 10, intimacy |-> 60, resentment |-> 20]
                @@ 9 :> [trust |-> 40, intimacy |-> 30, resentment |-> 0]
     ELSE 1 :> [trust |-> 0, intimacy |-> 10, resentment |-> 60]]

MCHash == [a \in {1, 2} |-> a]

MCLifestyle ==
  [a \in {1, 2} |-> [from |-> 2, to |-> 0, weekday |-> 3 - a, weekend |-> 3 - a]]

MCSpread == [p \in {1, 2} \X (0..4) \X (0..1) |-> p[1] + p[2] + p[3]]

MCCalls == [hot |-> 2, warm |-> 2, cold |-> 1]

It(kind, id, from, chain, drama) ==
  [kind |-> kind, id |-> id, from |-> from, chain |-> chain, drama |-> drama]

None == <<<<>>, <<>>>>

Days(f) == [t \in 0..6 |-> IF t \in DOMAIN f THEN f[t] ELSE None]

MCSleep ==
  [cast |-> {1, 2}, errands |-> {}, deeds |-> {"create"}, heard |-> {FALSE}, last |-> 6,
   mail |-> Days(0 :> <<<<It("comment", 101, 9, 301, 0)>>, <<It("like", 102, 9, 302, 0)>>>>
              @@ 4 :> <<<<It("arc", 103, 9, 303, 0)>>, <<It("spotlight", 104, 9, 304, 0)>>>>
              @@ 5 :> <<<<It("dm", 105, 9, 305, 0)>>, <<>>>>)]

MCEcho ==
  [cast |-> {1}, errands |-> {}, deeds |-> {"share"}, heard |-> {TRUE, FALSE}, last |-> 5,
   mail |-> Days(0 :> <<<<It("comment", 111, 9, 301, 0)>>, <<>>>>
              @@ 2 :> <<<<It("comment", 112, 9, 302, 0), It("comment", 113, 9, 301, 0)>>,
                        <<>>>>)]

MCPosts ==
  [cast |-> {1}, errands |-> {}, deeds |-> {"observe"}, heard |-> {TRUE, FALSE}, last |-> 3,
   mail |-> Days(0 :> <<<<It("post", 121, 2, 311, 80), It("post", 122, 2, 312, 10)>>, <<>>>>
              @@ 1 :> <<<<It("post", 123, 2, 313, 0), It("message", 124, 2, 314, 0)>>, <<>>>>)]

MCGoals ==
  [cast |-> {1}, errands |-> {}, deeds |-> {"create", "rest"}, heard |-> {TRUE}, last |-> 4,
   mail |-> Days(<<>>)]

MCStudio ==
  [cast |-> {1, 2}, deeds |-> {"rest"}, heard |-> {FALSE}, last |-> 2, mail |-> Days(<<>>),
   errands |-> {[op |-> "delete", who |-> 1], [op |-> "restore", who |-> 1]}]

MCFiles ==
  [cast |-> {1}, deeds |-> {"rest"}, heard |-> {FALSE}, last |-> 0, mail |-> Days(<<>>),
   errands |-> {[op |-> "put", who |-> 1], [op |-> "put", who |-> 2],
                [op |-> "switch", who |-> 2],
                [op |-> "delete", who |-> 1], [op |-> "purge", who |-> 1]}]

MCScenes == {MCSleep, MCEcho, MCPosts, MCGoals, MCStudio, MCFiles}
=============================================================================
