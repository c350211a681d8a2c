------------------------------ MODULE ActorTick ------------------------------
(***************************************************************************)
(* What one actor worker does with the interventions sent to its actors    *)
(* (engine/actor: mailbox.py, phases.py).  The mailbox router takes them   *)
(* from JetStream and pushes them to a capped Redis list per actor; the    *)
(* tick drains all lists at once (PERCEIVE), prepares replies, greetings   *)
(* and actions (DECIDE), appends them actor by actor to the actors'        *)
(* streams (RESOLVE) and then folds what happened into relationships,      *)
(* memories and beliefs (CONSOLIDATE).                                     *)
(*                                                                         *)
(* The router and the tick are two tasks of one process and interleave at  *)
(* every await.  Mailboxes and relationship edges live in Redis, streams   *)
(* in PostgreSQL: both outlive the process, everything else dies with it   *)
(* and the interrupted tick is run again under its old number.             *)
(*                                                                         *)
(* Prompts, texts and numbers are left out: an item is who says something  *)
(* to whom, and an event is its type, its tick and what it answers.        *)
(***************************************************************************)
EXTENDS Integers, Sequences, FiniteSets, Subsequence

CONSTANTS
  Actors,       \* the actors of this worker, numbered in the order of their ids
  Players,      \* likewise
  Items,        \* interventions
  Traffic,      \* the sets of them that come over the bus together
  Kind,         \* "word": comment or DM, "like": reaction, "news": anything
                \* else that is perceived, "garbled": no envelope at all
  From,         \* the player an item comes from
  To,           \* the actors it is routed to
  Nothing,      \* an event that answers no item
  Due,          \* Due[t]: actors whose tier makes them act in tick t
  Cap,          \* MAILBOX_CAP
  GreetMax,     \* outreach.greeting_max_per_tick
  ReflectEvery, \* reflection interval
  MaxDeliver,   \* MAX_DELIVER
  MaxTick,      \* bound: later ticks run only while there is mail
  MaxFaults     \* bound: crashes and failed pushes

ASSUME ActorAssumption ==
  /\ Actors \subseteq Nat /\ Players \subseteq Nat
  /\ Kind \in [Items -> {"word", "like", "news", "garbled"}]
  /\ From \in [Items -> Players]
  /\ To \in [Items -> SUBSET Actors]
  /\ Nothing \notin Items /\ Traffic \subseteq SUBSET Items
  /\ {Cap, ReflectEvery, MaxDeliver} \subseteq Nat \ {0}
  /\ {GreetMax, MaxTick, MaxFaults} \subseteq Nat
  /\ Due \in [0..MaxTick -> SUBSET Actors]

VARIABLES
  bus,      \* what JetStream knows of each item for this consumer
  tries,    \* num_delivered
  routing,  \* the item the router holds and the actors it still pushes it to
  mail,     \* lf:mb, one list per actor, oldest first
  dropped,  \* how often an item was trimmed off an actor's full list
  pushed,   \* how often an item was pushed to an actor
  pc,       \* where the tick is
  tick,
  inbox,    \* self._inbox
  greet,    \* self._pending_greetings, per actor
  notes,    \* self._decisions, per actor
  shifts,   \* emotion shifts RESOLVE still has to append, per actor
  out,      \* likewise, everything else
  fresh,    \* first_met milestones CONSOLIDATE still has to append
  todo,     \* actors the current phase has not come to yet
  bonds,    \* lf:rel: the players an actor has an edge to
  met,      \* first_met milestones in the relationship streams
  stream,   \* the actors' streams in the event store
  faults

boxVars == <<mail, dropped, pushed>>
routerVars == <<bus, tries, routing, boxVars>>
mindVars == <<inbox, greet, notes, shifts, out, fresh, todo>>
storeVars == <<bonds, met, stream>>
vars == <<routerVars, pc, tick, mindVars, storeVars, faults>>

\* "insight" is the decision record of a reflection.
Event == [type : {"shift", "decision", "reply", "act", "episode", "insight",
                  "belief"},
          of : Items \cup {Nothing}, tick : Nat]

PerActor(S) == [Actors -> S]
All(x) == [a \in Actors |-> x]

NoRoute == [item |-> Nothing, left |-> {}]

TypeOK ==
  /\ bus \in [Items -> {"unsent", "queued", "held", "acked", "dead"}]
  /\ tries \in [Items -> Nat]
  /\ routing \in [item : Items, left : SUBSET Actors] \cup {NoRoute}
  /\ mail \in PerActor(Seq(Items))
  /\ dropped \in [Items -> PerActor(Nat)] /\ pushed \in [Items -> PerActor(Nat)]
  /\ pc \in {"down", "idle", "decide", "resolve", "edges", "milestones",
             "episodes", "reflect"}
  /\ tick \in Nat
  /\ inbox \in PerActor(Seq(Items)) /\ greet \in PerActor(SUBSET Items)
  /\ notes \in PerActor(Seq(Event))
  /\ shifts \in PerActor(Seq(Event)) /\ out \in PerActor(Seq(Event))
  /\ fresh \in PerActor(SUBSET Players) /\ todo \subseteq Actors
  /\ bonds \in PerActor(SUBSET Players) /\ met \in [Actors -> [Players -> Nat]]
  /\ stream \in PerActor(Seq(Event))
  /\ faults \in 0..MaxFaults

Init ==
  /\ \E sent \in Traffic :
       bus = [i \in Items |-> IF i \in sent THEN "queued" ELSE "unsent"]
  /\ tries = [i \in Items |-> 0]
  /\ routing = NoRoute
  /\ mail = All(<<>>)
  /\ dropped = [i \in Items |-> All(0)] /\ pushed = [i \in Items |-> All(0)]
  /\ pc = "idle" /\ tick = 0
  /\ inbox = All(<<>>) /\ greet = All({}) /\ notes = All(<<>>)
  /\ shifts = All(<<>>) /\ out = All(<<>>) /\ fresh = All({}) /\ todo = {}
  /\ bonds = All({}) /\ met = All([p \in Players |-> 0]) /\ stream = All(<<>>)
  /\ faults = 0

Least(n, S) == n \in S /\ \A m \in S : n <= m

-----------------------------------------------------------------------------
(* run_mailbox_router: one item at a time.                                  *)

Fault == faults < MaxFaults /\ faults' = faults + 1

Up == pc # "down"

Fetch(i) ==
  /\ Up /\ routing = NoRoute
  /\ bus[i] = "queued"
  /\ bus' = [bus EXCEPT ![i] = "held"]
  /\ tries' = [tries EXCEPT ![i] = @ + 1]
  /\ routing' = [item |-> i, left |-> To[i]]
  /\ UNCHANGED <<boxVars, pc, tick, mindVars, storeVars, faults>>

Settle(how) ==
  /\ bus' = [bus EXCEPT ![routing.item] = how]
  /\ routing' = NoRoute
  /\ UNCHANGED <<tries, pc, tick, mindVars, storeVars>>

\* Mutant: RPUSH without LTRIM.
PushUntrimmed(a) ==
  /\ mail' = [mail EXCEPT ![a] = Append(@, routing.item)]
  /\ pushed' = [pushed EXCEPT ![routing.item][a] = @ + 1]
  /\ UNCHANGED dropped

\* mailbox.push: RPUSH and LTRIM in one MULTI.
PushTo(a) ==
  LET i == routing.item
      longer == Append(mail[a], i)
      full == Len(longer) > Cap
  IN /\ mail' = [mail EXCEPT ![a] = IF full THEN Tail(longer) ELSE longer]
     /\ pushed' = [pushed EXCEPT ![i][a] = @ + 1]
     /\ dropped' = IF full THEN [dropped EXCEPT ![Head(longer)][a] = @ + 1]
                   ELSE dropped

Readable == routing # NoRoute /\ Kind[routing.item] # "garbled"

Push(a) ==
  /\ Up /\ Readable
  /\ Least(a, routing.left)
  /\ PushTo(a)
  /\ routing' = [routing EXCEPT !.left = @ \ {a}]
  /\ UNCHANGED <<bus, tries, pc, tick, mindVars, storeVars, faults>>

\* Redis fails, with or without the push done: redelivery, or the dead-letter
\* stream when it has been delivered too often.
PushFails(a) ==
  /\ Up /\ Readable
  /\ Least(a, routing.left)
  /\ Fault
  /\ PushTo(a) \/ UNCHANGED boxVars
  /\ Settle(IF tries[routing.item] >= MaxDeliver THEN "dead" ELSE "queued")

Ack ==
  /\ Up /\ Readable
  /\ routing.left = {}
  /\ Settle("acked")
  /\ UNCHANGED <<boxVars, faults>>

\* Mutant: the message is tried again in place.
RefuseBlocks ==
  /\ Up /\ routing # NoRoute /\ ~Readable
  /\ UNCHANGED vars

\* No envelope: the dead-letter stream at once.
Refuse ==
  /\ Up /\ routing # NoRoute /\ ~Readable
  /\ Settle("dead")
  /\ UNCHANGED <<boxVars, faults>>

-----------------------------------------------------------------------------
(* PERCEIVE and DECIDE.                                                     *)

OfKind(kind) == {i \in Items : Kind[i] = kind}

\* _note_first_reactions: the first like of each player without an edge, at
\* most GreetMax per actor and tick.
FirstLikes(a) ==
  LET box == mail[a]
      first == {n \in 1..Len(box) :
                  /\ Kind[box[n]] = "like"
                  /\ From[box[n]] \notin bonds[a]
                  /\ \A m \in 1..(n - 1) :
                       Kind[box[m]] = "like" => From[box[m]] # From[box[n]]}
  IN {box[n] : n \in {k \in first :
                        Cardinality({m \in first : m < k}) < GreetMax}}

Wake ==
  /\ pc = "idle"
  /\ tick <= MaxTick \/ mail # All(<<>>)
  /\ inbox' = mail
  /\ greet' = [a \in Actors |-> FirstLikes(a)]
  /\ pc' = "decide"

\* Mutant: the lists are read and not deleted.
PerceiveAgain ==
  /\ Wake
  /\ UNCHANGED <<routerVars, tick, notes, shifts, out, fresh, todo, storeVars,
                 faults>>

\* drain_many: LRANGE and DEL of every list in one MULTI.
Perceive ==
  /\ Wake
  /\ mail' = All(<<>>)
  /\ UNCHANGED <<bus, tries, routing, dropped, pushed, tick, notes, shifts,
                 out, fresh, todo, storeVars, faults>>

\* Mutant: an actor answers one word per tick.
AnswersOne(a) ==
  LET words == Where(inbox[a], OfKind("word"))
  IN (IF words = <<>> THEN <<>> ELSE <<Head(words)>>)
     \o Where(inbox[a], greet[a])

\* Every word is answered and every greeting due is made; what is said, by
\* inference or by rule, makes no difference here.
Answers(a) ==
  Where(inbox[a], OfKind("word")) \o Where(inbox[a], greet[a])

Now(type, i) == [type |-> type, of |-> i, tick |-> tick]

Each(type, seq) == [n \in 1..Len(seq) |-> Now(type, seq[n])]

IfDue(a, type) ==
  IF tick <= MaxTick /\ a \in Due[tick] THEN <<Now(type, Nothing)>> ELSE <<>>

\* _decisions starts afresh and gets a record per inference; which words move
\* an actor enough for an emotion shift is left to the emotion engine.
Decide ==
  /\ pc = "decide"
  /\ notes' = [a \in Actors |->
                 Each("decision", Answers(a)) \o IfDue(a, "decision")]
  /\ \E moved \in SUBSET Actors :
       shifts' = [a \in Actors |->
                    IF a \in moved
                    THEN Each("shift", Where(inbox[a], OfKind("word")))
                    ELSE <<>>]
  /\ out' = [a \in Actors |->
               notes'[a] \o Each("reply", Answers(a)) \o IfDue(a, "act")]
  /\ todo' = {a \in Actors : shifts'[a] # <<>> \/ out'[a] # <<>>}
  /\ pc' = "resolve"
  /\ UNCHANGED <<routerVars, tick, inbox, greet, fresh, storeVars, faults>>

-----------------------------------------------------------------------------
(* RESOLVE: in the order of ids, two appends per actor: its emotion shifts, *)
(* then everything else at once.                                            *)

AppendShifts(a) ==
  /\ pc = "resolve" /\ Least(a, todo)
  /\ shifts[a] # <<>>
  /\ stream' = [stream EXCEPT ![a] = @ \o shifts[a]]
  /\ shifts' = [shifts EXCEPT ![a] = <<>>]
  /\ UNCHANGED <<routerVars, pc, tick, inbox, greet, notes, out, fresh, todo,
                 bonds, met, faults>>

AppendEvents(a) ==
  /\ pc = "resolve" /\ Least(a, todo)
  /\ shifts[a] = <<>>
  /\ stream' = [stream EXCEPT ![a] = @ \o out[a]]
  /\ out' = [out EXCEPT ![a] = <<>>]
  /\ todo' = todo \ {a}
  /\ UNCHANGED <<routerVars, pc, tick, inbox, greet, notes, shifts, fresh,
                 bonds, met, faults>>

Phase(from, to, actors) ==
  /\ pc = from /\ todo = {}
  /\ pc' = to
  /\ todo' = actors

Resolved ==
  /\ Phase("resolve", "edges", {})
  /\ UNCHANGED <<routerVars, tick, inbox, greet, notes, shifts, out, fresh,
                 storeVars, faults>>

-----------------------------------------------------------------------------
(* CONSOLIDATE.                                                             *)

\* Mutant: a like leaves no trace in the relationship.
KnownByWord(a) ==
  {From[inbox[a][n]] : n \in {m \in 1..Len(inbox[a]) :
                                Kind[inbox[a][m]] = "word"}}

\* Rule 1a: whatever a player does makes an edge from the actor to it.
Known(a) ==
  {From[inbox[a][n]] : n \in {m \in 1..Len(inbox[a]) :
                                Kind[inbox[a][m]] # "news"}}

\* Mutant: a milestone for every interaction.
SaveEdgesAnew ==
  /\ Phase("edges", "milestones", {a \in Actors : Known(a) # {}})
  /\ bonds' = [a \in Actors |-> bonds[a] \cup Known(a)]
  /\ fresh' = [a \in Actors |-> Known(a)]
  /\ UNCHANGED <<routerVars, tick, inbox, greet, notes, shifts, out, met,
                 stream, faults>>

\* record_interaction saves the edges to Redis before anything is appended; the
\* milestones of new edges wait in memory.
SaveEdges ==
  /\ Phase("edges", "milestones", {a \in Actors : Known(a) \ bonds[a] # {}})
  /\ bonds' = [a \in Actors |-> bonds[a] \cup Known(a)]
  /\ fresh' = [a \in Actors |-> Known(a) \ bonds[a]]
  /\ UNCHANGED <<routerVars, tick, inbox, greet, notes, shifts, out, met,
                 stream, faults>>

\* One append per edge.
AppendMilestone(a, p) ==
  /\ pc = "milestones" /\ Least(a, todo) /\ Least(p, fresh[a])
  /\ met' = [met EXCEPT ![a][p] = @ + 1]
  /\ fresh' = [fresh EXCEPT ![a] = @ \ {p}]
  /\ todo' = IF fresh[a] = {p} THEN todo \ {a} ELSE todo
  /\ UNCHANGED <<routerVars, pc, tick, inbox, greet, notes, shifts, out, bonds,
                 stream, faults>>

Bonded ==
  /\ Phase("milestones", "episodes", {a \in Actors : inbox[a] # <<>>})
  /\ UNCHANGED <<routerVars, tick, inbox, greet, notes, shifts, out, fresh,
                 storeVars, faults>>

AppendEpisode(a) ==
  /\ pc = "episodes" /\ Least(a, todo)
  /\ stream' = [stream EXCEPT ![a] = Append(@, Now("episode", Nothing))]
  /\ todo' = todo \ {a}
  /\ UNCHANGED <<routerVars, pc, tick, inbox, greet, notes, shifts, out, fresh,
                 bonds, met, faults>>

\* Every ReflectEvery ticks, the actors that are awake (_decay_plan) reflect.
Remembered ==
  /\ \E awake \in SUBSET Actors :
       Phase("episodes", "reflect",
             IF tick > 0 /\ tick % ReflectEvery = 0 THEN awake ELSE {})
  /\ UNCHANGED <<routerVars, tick, inbox, greet, notes, shifts, out, fresh,
                 storeVars, faults>>

\* _reflect: an actor with something on its mind asks for an insight, which is
\* noted in _decisions; a new belief, by rule or by insight, is appended.
Reflect(a) ==
  /\ pc = "reflect" /\ Least(a, todo)
  /\ \/ notes' = [notes EXCEPT ![a] = Append(@, Now("insight", Nothing))]
     \/ UNCHANGED notes
  /\ \/ stream' = [stream EXCEPT ![a] = Append(@, Now("belief", Nothing))]
     \/ UNCHANGED stream
  /\ todo' = todo \ {a}
  /\ UNCHANGED <<routerVars, pc, tick, inbox, greet, shifts, out, fresh, bonds,
                 met, faults>>

\* Mutant: the loop runs the tick again.
FinishSame ==
  /\ Phase("reflect", "idle", {})
  /\ inbox' = All(<<>>) /\ greet' = All({})
  /\ UNCHANGED <<routerVars, tick, notes, shifts, out, fresh, storeVars,
                 faults>>

\* The tick is complete; nothing reads _inbox before the next drain.
Finish ==
  /\ Phase("reflect", "idle", {})
  /\ tick' = tick + 1
  /\ inbox' = All(<<>>) /\ greet' = All({})
  /\ UNCHANGED <<routerVars, notes, shifts, out, fresh, storeVars, faults>>

-----------------------------------------------------------------------------
\* Any exception in a phase ends the process, and so does a crash: JetStream
\* delivers the item that was being routed again, the tick starts over.
Crash ==
  /\ Up /\ Fault
  /\ pc' = "down"
  /\ bus' = [i \in Items |-> IF bus[i] = "held" THEN "queued" ELSE bus[i]]
  /\ routing' = NoRoute
  /\ inbox' = All(<<>>) /\ greet' = All({}) /\ notes' = All(<<>>)
  /\ shifts' = All(<<>>) /\ out' = All(<<>>) /\ fresh' = All({}) /\ todo' = {}
  /\ UNCHANGED <<tries, boxVars, tick, storeVars>>

Restart ==
  /\ pc = "down"
  /\ pc' = "idle"
  /\ UNCHANGED <<routerVars, tick, mindVars, storeVars, faults>>

Router ==
  \/ \E i \in Items : Fetch(i)
  \/ \E a \in Actors : Push(a)
  \/ Ack
  \/ Refuse

Tick ==
  \/ Restart
  \/ Perceive \/ Decide
  \/ \E a \in Actors : AppendShifts(a) \/ AppendEvents(a)
  \/ Resolved \/ SaveEdges
  \/ \E a \in Actors, p \in Players : AppendMilestone(a, p)
  \/ Bonded
  \/ \E a \in Actors : AppendEpisode(a) \/ Reflect(a)
  \/ Remembered \/ Finish

Next ==
  \/ Router
  \/ \E a \in Actors : PushFails(a)
  \/ Tick
  \/ Crash

Spec == Init /\ [][Next]_vars

\* The two tasks of the process run, and the deployment restarts it.
FairSpec == Spec /\ WF_vars(Router) /\ WF_vars(Tick)

-----------------------------------------------------------------------------
Copies(i, seq) == Times(seq, {i})

Replies(i, seq) == Times(seq, {e \in Event : e.type = "reply" /\ e.of = i})

\* Copies of i that a is still going to answer.
Waiting(i, a) ==
  Copies(i, mail[a])
  + (IF pc = "decide" THEN Copies(i, inbox[a]) ELSE 0)
  + Replies(i, out[a])

LikesOf(p) == {i \in OfKind("like") : From[i] = p}

Greetings(p, seq) ==
  Times(seq, {e \in Event : e.type = "reply" /\ e.of \in LikesOf(p)})

\* No mailbox grows beyond its cap.
MailInv == \A a \in Actors : Len(mail[a]) <= Cap

\* The router holds what JetStream thinks it holds, and while nothing failed it
\* pushes an item to an actor once.
RouterInv ==
  \A i \in Items :
    /\ bus[i] = "held" <=> routing.item = i
    /\ faults = 0 =>
         \A a \in Actors :
           /\ pushed[i][a] <= 1
           /\ \/ bus[i] \in {"unsent", "queued"}
              \/ routing.item = i /\ a \in routing.left
              => pushed[i][a] = 0

\* A worker between two ticks owes its actors nothing, and a phase ends only
\* when what it has to append is appended.
PhaseInv ==
  /\ pc = "down" => faults > 0
  /\ pc \in {"down", "idle", "decide"} => todo = {}
  /\ pc # "resolve" => shifts = All(<<>>) /\ out = All(<<>>)
  /\ pc # "milestones" => fresh = All({})
  /\ \A a \in Actors \ todo : shifts[a] = <<>> /\ out[a] = <<>> /\ fresh[a] = {}

\* Only likes of players without an edge are greeted, one of each.
GreetInv ==
  pc = "decide" =>
    \A a \in Actors :
      /\ \A i \in greet[a] : Kind[i] = "like" /\ From[i] \notin bonds[a]
      /\ faults = 0 => \A p \in Players :
                         Times(inbox[a], greet[a] \cap LikesOf(p)) <= 1

\* A greeting is followed by an edge before the next tick looks for edges.
GreetedInv ==
  faults = 0 =>
    \A a \in Actors, p \in Players :
      LET n == Greetings(p, stream[a]) + Greetings(p, out[a])
      IN /\ n <= 1
         /\ n > 0 => \/ p \in bonds[a]
                     \/ pc \in {"resolve", "edges"} /\ p \in Known(a)

\* A milestone waits only behind an edge and only if it was not appended yet.
MetInv ==
  \A a \in Actors, p \in Players :
    /\ met[a][p] + (IF p \in fresh[a] THEN 1 ELSE 0) <= 1
    /\ met[a][p] = 1 \/ p \in fresh[a] => p \in bonds[a]

\* Events that wait carry the tick that runs, with one action among them at
\* most; the streams hold nothing later, and no action of a tick that has yet to
\* append one.
StoryInv ==
  \A a \in Actors :
    /\ \A n \in 1..Len(stream[a]) :
         /\ stream[a][n].tick <= tick
         /\ /\ faults = 0 /\ stream[a][n].type = "act"
            /\ \/ pc \in {"idle", "decide"}
               \/ \E m \in 1..Len(out[a]) : out[a][m].type = "act"
            => stream[a][n].tick < tick
    /\ \A n \in 1..Len(shifts[a]) :
         shifts[a][n].tick = tick /\ shifts[a][n].type = "shift"
    /\ \A m, n \in 1..Len(out[a]) :
         /\ out[a][n].tick = tick
         /\ out[a][m].type = "act" /\ out[a][n].type = "act" => m = n

\* The types, and what router, phases and streams keep between their steps.
ActorInv ==
  /\ TypeOK
  /\ MailInv /\ RouterInv /\ PhaseInv
  /\ GreetInv /\ GreetedInv /\ MetInv /\ StoryInv

Words == {i \in Items : Kind[i] = "word"}

\* "Interaction first" (phases.py:8): as long as nothing failed, every word that
\* reached a mailbox is answered exactly once, is about to be, or was trimmed
\* off a full mailbox: whatever tick it fell into, also while one was running.
WordsAreAnswered ==
  faults = 0 =>
    \A i \in Words, a \in Actors :
      Waiting(i, a) + Replies(i, stream[a]) + dropped[i][a] = pushed[i][a]

\* Whatever failed, a word is answered at most as often as it was delivered
\* (mailbox.py:124: redelivery is the only source of double answers).
NoReplyTwice ==
  \A i \in Items, a \in Actors :
    Waiting(i, a) + Replies(i, stream[a]) <= pushed[i][a]

\* First contact happens once: a player's likes are greeted at most once by an
\* actor, over all ticks and however they were spread over mailboxes
\* (phases.py:551-555: the edge made in CONSOLIDATE stops the next greeting).
GreetedOnce ==
  faults = 0 => \A a \in Actors, p \in Players : Greetings(p, stream[a]) <= 1

\* A relationship begins once in its stream, also after crashes, and never
\* without an edge behind it.
FirstMetOnce ==
  \A a \in Actors, p \in Players :
    met[a][p] <= 1 /\ (met[a][p] = 1 => p \in bonds[a])

\* An actor's life is told in tick order, and a due action is taken once per
\* tick unless the tick was interrupted and run again.
LifeInTickOrder ==
  \A a \in Actors : \A m, n \in 1..Len(stream[a]) :
    LET e == stream[a][m]
        f == stream[a][n]
    IN m < n => /\ e.tick <= f.tick
                /\ faults = 0 /\ e.type = "act" /\ f.type = "act"
                   => e.tick < f.tick

\* Every word on the bus is eventually answered or trimmed off a full mailbox,
\* unless something fails (the router waits for no tick and the tick for no
\* router).
EveryWordSettled ==
  \A i \in Words : \A a \in To[i] :
    bus[i] = "queued" ~> \/ Replies(i, stream[a]) > 0 \/ dropped[i][a] > 0
                        \/ faults > 0

-----------------------------------------------------------------------------
\* phases.py:273: whatever the trace policy, the decision event itself always
\* remains (as long as the process lives).
DecisionsRemain ==
  [][pc' # "down" =>
       \A a \in Actors : \A n \in 1..Len(notes[a]) :
         \E m \in 1..Len(notes'[a] \o stream'[a]) :
           (notes'[a] \o stream'[a])[m] = notes[a][n]]_vars
=============================================================================
