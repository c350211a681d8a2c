--------------------------------- MODULE MCTown ---------------------------------
(* Two people, and one scene for each part of the town, then some together.    *)
EXTENDS Town

MCDrama == [work |-> 5, confront |-> 80, joy |-> 5]

MCBase == [work |-> 25, confront |-> 85, confess |-> 90]

MCIncidents == <<[kind |-> "outage", drama |-> 65], [kind |-> "rain", drama |-> 10]>>

MCThemes == [calm |-> [quiet |-> 2, most |-> 1], turmoil |-> [quiet |-> 1, most |-> 2]]

MCTuning == [target |-> 1, step |-> 1, min |-> 1, max |-> 2]

MCTurn ==
  [tool |-> [n \in 1..10 |-> 5 * n - 4], incident |-> [n \in 1..10 |-> 3 * n - 3],
   affected |-> [n \in 1..10 |-> n - 1]]

MCPrice == [hot |-> {2}, warm |-> {1, 2}]

Tick(n) == [type |-> "ticked", tick |-> n]

Does(who, kind, target, n) ==
  [type |-> "action", who |-> who, kind |-> kind, target |-> target, tick |-> n]

Feels(who, n) == [type |-> "feeling", who |-> who, kind |-> "joy", tick |-> n]

Node(type, who, n) == [type |-> type, who |-> who, tick |-> n]

Chapter(who, stage, n) == [type |-> "arc", who |-> who, stage |-> stage, tick |-> n]

Light(who, n) == BoostEvent(who, n)

News(drama, n) == IncidentEvent("outage", drama, {1}, n)

Letter(mine, open) == [type |-> "message", mine |-> mine, open |-> open, tick |-> 1]

Post(src) ==
  [type |-> "post", src |-> src, who |-> 1, of |-> "goal", kind |-> Nothing,
   drama |-> 80, tick |-> 1]

MCLimits ==
  [enabled |-> TRUE, daily |-> 5, monthly |-> 0, rpm |-> 0, ratio |-> 8,
   actorUsd |-> 0, actorCalls |-> 0]

Limits(daily, monthly, rpm, actorUsd, actorCalls) ==
  [enabled |-> TRUE, daily |-> daily, monthly |-> monthly, rpm |-> rpm, ratio |-> 8,
   actorUsd |-> actorUsd, actorCalls |-> actorCalls]

Unlimited == Limits(0, 0, 0, 0, 0)

Off == [Unlimited EXCEPT !.enabled = FALSE]

Plan(tool, who) ==
  [tool |-> tool, kind |-> "rain", drama |-> 120, who |-> who, affected |-> {1, 7},
   about |-> 2, stage |-> "prime", theme |-> "turmoil", text |-> "text"]

Still ==
  [faults |-> 0, script |-> <<>>, directing |-> FALSE, ai |-> FALSE, tension |-> {<<>>},
   plans |-> {}, crew |-> {}, narrate |-> FALSE, running |-> {}, limits |-> Off,
   edits |-> <<>>, clock |-> FALSE, asks |-> <<>>,
   commands |-> [s \in Sessions |-> <<>>], readers |-> {}, endpoints |-> {},
   tables |-> FALSE, rebuilds |-> FALSE]

\* Rules alone, through two days, with crashes and failed appends.
Stage ==
  [Still EXCEPT !.directing = TRUE, !.faults = 1, !.tension = {<<<<1, 2>>>>},
     !.script = <<Tick(1), Does(1, "confront", 2, 2), Tick(2), Tick(3)>>]

Quiet4 ==
  [Stage EXCEPT !.faults = 2, !.tension = {<<>>}, !.script = <<Tick(1), Tick(2), Tick(3)>>]

\* A model proposes, within the library or beyond it.
Season ==
  [Still EXCEPT !.directing = TRUE, !.ai = TRUE, !.faults = 1, !.running = {1},
     !.tension = {<<<<1, 2>>>>}, !.plans = {Plan("incident", 1)},
     !.script = <<Tick(1)>>]

Proposals ==
  [Season EXCEPT !.faults = 0, !.script = <<Feels(1, 1), Tick(1)>>,
     !.plans = {Plan("promote", 2), Plan("nudge", 1), Plan("boost", 7)}]

\* One purse for all who ask: while it is edited and days pass, ...
Purse ==
  [Still EXCEPT !.faults = 1, !.running = {1}, !.limits = Limits(3, 4, 1, 0, 2),
     !.edits = <<[daily |-> 2, actorUsd |-> 2], [daily |-> -1]>>, !.clock = TRUE,
     !.asks = <<[who |-> 1, tier |-> "hot"], [who |-> 2, tier |-> "hot"]>>]

\* ... and with several asking at once.
Crowd ==
  [Still EXCEPT !.running = {1, 2}, !.limits = [daily |-> 3, actorCalls |-> 1],
     !.asks = <<[who |-> 2, tier |-> "cold"]>>
                \o [n \in 1..3 |-> [who |-> 1, tier |-> "hot"]]]

\* What is posted, by two instances, and by one that fails.
Desk2 ==
  [Still EXCEPT !.faults = 1, !.crew = {1, 2},
     !.script = <<Does(1, "confront", 2, 1), Chapter(1, "prime", 3)>>]

Chapters ==
  [Still EXCEPT !.faults = 2, !.crew = {1},
     !.script = <<Chapter(1, "prime", 1), Chapter(1, "prime", 2), News(20, 2)>>]

\* One instance, one person who goes on and on, and lights.
Flood ==
  [Still EXCEPT !.crew = {1},
     !.script = <<Light(1, 0), Does(1, "confess", 2, 1)>>
                  \o [n \in 1..3 |-> Does(2, "work", Nothing, 1)]
                  \o <<Does(1, "confess", 2, 1)>>
                  \o [n \in 1..2 |-> Does(2, "work", Nothing, 2)]
                  \o <<Does(1, "confess", 2, 2)>>]

Narrated ==
  [Still EXCEPT !.crew = {1}, !.narrate = TRUE, !.running = {1}, !.faults = 1,
     !.script = <<Does(1, "confront", 2, 1), Node("debut", 2, 3)>>]

\* Two sessions, and a browser that nobody looks at.
Desk ==
  [Still EXCEPT !.faults = 1, !.endpoints = {1},
     !.commands = [s \in Sessions |-> [n \in 1..s |-> [kind |-> "dm", who |-> s]]],
     !.script = <<Letter(TRUE, FALSE)>>]

Reading ==
  [Still EXCEPT !.readers = {1},
     !.script = <<Node("goal", 1, 1), Node("goal", 2, 1), Post(2), Node("goal", 1, 2),
                  Post(1), Post(4)>>]

\* What the director stages is posted, and read.
Together ==
  [Still EXCEPT !.directing = TRUE, !.crew = {1}, !.readers = {1},
     !.faults = 1, !.tension = {<<>>}, !.script = <<Tick(1)>>]

\* A player looks at someone, on the first day or later.
Gaze ==
  [Still EXCEPT !.directing = TRUE, !.tension = {<<<<1, 2>>>>},
     !.commands = [s \in Sessions |-> IF s = 1 THEN <<[kind |-> "dm", who |-> 2]>> ELSE <<>>],
     !.script = <<Tick(1), Tick(2), Tick(3), Tick(4)>>]

Said(type, who, post) == [type |-> type, who |-> who, post |-> post, tick |-> 1]

Thought(who, about) == [type |-> "belief", who |-> who, about |-> about, tick |-> 1]

\* A life in tables: one goes and comes back, whatever fails meanwhile, ...
Tables ==
  [Still EXCEPT !.faults = 1, !.tables = TRUE,
     !.script = <<Node("declared", 1, 1), Node("retired", 1, 2), Chapter(1, "prime", 2),
                  Node("returned", 1, 3)>>]

Thread ==
  [Tables EXCEPT !.script =
     <<Node("goal", 1, 1), Post(1), Said("remark", 1, 2), Node("retired", 1, 2),
       Node("returned", 1, 3)>>]

\* ... two who think and speak of each other go, one comes back, ...
Shared ==
  [Tables EXCEPT !.faults = 0,
     !.script = <<Node("goal", 1, 1), Post(1), Thought(2, 1), Thought(2, 1),
                  Said("said", 2, 2), Said("said", 1, Nothing), Node("memory", 2, 1), Node("retired", 1, 2),
                  Node("retired", 2, 2), Node("returned", 1, 3)>>]

\* ... and the tables are made anew.
Anew ==
  [Tables EXCEPT !.rebuilds = TRUE,
     !.script = <<Chapter(1, "prime", 1), Chapter(1, "prime", 1), Node("retired", 1, 2)>>]

\* ... or one event is given up.
GivenUp ==
  [Tables EXCEPT !.faults = 2, !.script = <<Node("memory", 1, 1), Node("retired", 1, 2)>>]

MCScenes ==
  [stage |-> Stage, quiet |-> Quiet4, season |-> Season, proposals |-> Proposals,
   purse |-> Purse, crowd |-> Crowd, rivals |-> Desk2, chapters |-> Chapters,
   flood |-> Flood, narrated |-> Narrated, desk |-> Desk, reading |-> Reading,
   together |-> Together, gaze |-> Gaze,
   tables |-> Tables, thread |-> Thread, shared |-> Shared, anew |-> Anew,
   lost |-> GivenUp]

MCGaze == [gaze |-> Gaze]
=================================================================================
