----------------------------- MODULE PlayerGateway -----------------------------
(***************************************************************************)
(* The gateway as the players meet it (lf_gateway: session.py, main.py,    *)
(* feed_stream.py, cursor.py, push.py).  Sessions of one player append     *)
(* commands to the player's stream and are shown the replies; feed readers *)
(* keep no state on the server and resume from the id of the last post     *)
(* they saw; a worker pushes letters to browsers nobody is looking at.     *)
(*                                                                         *)
(* A post's id carries the time of its source, so ids are compared by the  *)
(* sources' places in the log, and so are times.  Tokens, wording, and the *)
(* other worlds are left out.                                              *)
(***************************************************************************)
EXTENDS WorldLog

CONSTANTS
  Sessions, Readers,
  Slack,               \* resume_slack_s, in places of the log
  PollBatch, Endpoints,
  MaxJoins             \* bound: connections of a reader

ASSUME GatewayAssumption == Slack \in Nat

VARIABLES
  sessions,            \* session: connection, the command under way, what it was told
  readers,             \* reader: connection, cursor and what it has seen
  push                 \* what the worker and Redis know

gatewayVars == <<sessions, readers, push>>

Quiet_ == [at |-> "idle", head |-> 0, tried |-> 0]

Empty == [acks |-> {}, refused |-> 0, shown |-> {}, from |-> 0]

Reader ==
  [on |-> FALSE, poll |-> FALSE, pos |-> 0, cursor |-> 0, asked |-> 0,
   got |-> {}, since |-> 0, cut |-> 0, batch |-> 0, joins |-> 0]

GatewayInit ==
  /\ sessions = [s \in Sessions |-> [on |-> FALSE, todo |-> Scene.commands[s],
                                     step |-> Quiet_, told |-> Empty]]
  /\ readers = [r \in Readers |-> Reader]
  /\ push = [pos |-> 0, present |-> FALSE, subs |-> Scene.endpoints, left |-> {},
             msg |-> 0, sent |-> {}]

\* The player's own stream, whose length is its head.
PlayerStream == Of({"player"})

HeadOf == Cardinality(PlayerStream)

---------------------------------------------------------------------------
(* Sessions. *)

\* open_reply_subscription: only what is said from now on.
OpenSession(s) ==
  /\ ~sessions[s].on
  /\ sessions' = [sessions EXCEPT ![s].on = TRUE, ![s].told.from = Len(log)]
  /\ UNCHANGED <<logVars, readers, push>>

\* handle_command reads the head, with nothing locked,
ReadHead(s) ==
  /\ sessions[s].on /\ sessions[s].todo # <<>> /\ sessions[s].step.at = "idle"
  /\ sessions' = [sessions EXCEPT ![s].step = [at |-> "append", head |-> HeadOf, tried |-> 1]]
  /\ UNCHANGED <<logVars, readers, push>>

\* build_player_event: what a player does happens outside of the ticks.
Deed(s) ==
  LET c == Head(sessions[s].todo)
  IN  [type |-> "player", kind |-> c.kind, who |-> c.who, target |-> c.who,
       tick |-> 0, by |-> s]

Done(s, told) ==
  [sessions EXCEPT ![s].todo = Tail(@), ![s].step = Quiet_, ![s].told = told]

\* presence is a hint, set after a command whatever came of it, for an hour.
Seen == push' = [push EXCEPT !.present = TRUE]

\* ... and appends: another session of the same player may have been faster,
\* and once it is tried again.  After that the player is told.
AppendCommand(s) ==
  /\ sessions[s].step.at = "append"
  /\ LET told == sessions[s].told IN
       IF sessions[s].step.head = HeadOf
       THEN /\ Write(<<Deed(s)>>)
            /\ sessions' = Done(s, IF sessions[s].on
                                    THEN [told EXCEPT !.acks = @ \cup {Len(log) + 1}]
                                    ELSE told)
            /\ Seen
       ELSE /\ UNCHANGED log
            /\ IF sessions[s].step.tried = 1
               THEN /\ sessions' = [sessions EXCEPT ![s].step =
                          [at |-> "append", head |-> HeadOf, tried |-> 2]]
                    /\ UNCHANGED push
               ELSE sessions' = Done(s, [told EXCEPT !.refused = @ + 1]) /\ Seen
  /\ UNCHANGED <<scene, script, faults, readers>>

\* The pool has no connection, or the store fails: an error frame, whether or
\* not the command was committed.
CommandFails(s) ==
  /\ sessions[s].step.at = "append" /\ Fault
  /\ \/ UNCHANGED log
     \/ sessions[s].step.head = HeadOf /\ Write(<<Deed(s)>>)
  /\ sessions' = Done(s, [sessions[s].told EXCEPT !.refused = @ + 1])
  /\ Seen
  /\ UNCHANGED <<scene, script, readers>>

Letters == Of({"message"})

\* push_replies: what is addressed to the player, and the talk below posts.
ShowReply(s) ==
  /\ sessions[s].on
  /\ LET waiting == {i \in Letters : i > sessions[s].told.from} IN
       /\ waiting # {}
       /\ LET i == Earliest(waiting) IN
            sessions' = [sessions EXCEPT ![s].told.from = i,
              ![s].told.shown = IF log[i].mine \/ log[i].open THEN @ \cup {i} ELSE @]
  /\ UNCHANGED <<logVars, readers, push>>

\* The socket is gone; a command under way goes on, and nobody is told.
CloseSession(s) ==
  /\ sessions[s].on /\ Fault
  /\ sessions' = [sessions EXCEPT ![s].on = FALSE]
  /\ UNCHANGED <<scene, log, script, readers, push>>

---------------------------------------------------------------------------
(* Feed readers. *)

Feed == Of({"post"})

\* accepts: only what is newer than the cursor the reader came with.
Accepts(r, i) == readers[r].asked = 0 \/ log[i].src > readers[r].asked

\* open_feed_subscription: from now on, or from a little before the cursor.
Subscribe(r, poll) ==
  /\ ~readers[r].on /\ readers[r].joins < MaxJoins
  /\ LET reader == readers[r]
         cursor == reader.cursor
         start == IF cursor = 0 THEN Len(log)
                  ELSE IF cursor > Slack THEN cursor - Slack - 1 ELSE 0
     IN  readers' = [readers EXCEPT ![r] =
           [reader EXCEPT !.on = TRUE, !.poll = poll, !.pos = start, !.asked = cursor,
                          !.since = IF cursor = 0 THEN Len(log) ELSE @, !.batch = 0,
                          !.cut = IF cursor > @ THEN cursor ELSE @, !.joins = @ + 1]]
  /\ UNCHANGED <<logVars, sessions, push>>

\* sse_frames, poll_feed: the next event, filtered; its id is the new cursor.
Receive(r) ==
  /\ readers[r].on
  /\ readers[r].poll => readers[r].batch < PollBatch
  /\ LET waiting == {i \in Feed : i > readers[r].pos} IN
       /\ waiting # {}
       /\ LET i == Earliest(waiting)
              reader == readers[r]
          IN  readers' = [readers EXCEPT ![r] =
                IF Accepts(r, i)
                THEN [reader EXCEPT !.pos = i, !.got = @ \cup {i}, !.cursor = log[i].src,
                                    !.batch = @ + 1]
                ELSE [reader EXCEPT !.pos = i]]
  /\ UNCHANGED <<logVars, sessions, push>>

\* The connection is lost, or the batch is returned: nothing stays behind.
Leave(r) ==
  /\ readers[r].on
  /\ readers' = [readers EXCEPT ![r].on = FALSE]
  /\ UNCHANGED <<logVars, sessions, push>>

---------------------------------------------------------------------------
(* Push: an hour without a command and the player counts as away. *)

PresenceExpires ==
  /\ push.present /\ Scene.endpoints # {}
  /\ push' = [push EXCEPT !.present = FALSE]
  /\ UNCHANGED <<logVars, sessions, readers>>

\* deliver: nothing for those who are looking; else every endpoint once, from
\* the list as it was read.
PickLetter ==
  /\ Scene.endpoints # {} /\ push.msg = 0
  /\ LET waiting == {i \in Letters : i > push.pos} IN
       /\ waiting # {}
       /\ LET i == Earliest(waiting) IN
            push' = IF ~log[i].mine \/ push.present \/ push.subs = {}
                    THEN [push EXCEPT !.pos = i]
                    ELSE [push EXCEPT !.msg = i, !.left = push.subs]
  /\ UNCHANGED <<logVars, sessions, readers>>

\* Gone for good means unsubscribed; any other failure is not retried.
PushTo(e) ==
  /\ push.msg # 0 /\ e \in push.left
  /\ \E outcome \in {"sent", "gone", "failed"} :
       /\ IF outcome = "sent" THEN UNCHANGED faults ELSE Fault
       /\ LET over == push.left = {e} IN
            push' = [push EXCEPT
              !.left = @ \ {e},
              !.subs = IF outcome = "gone" THEN @ \ {e} ELSE @,
              !.sent = IF outcome = "sent" THEN @ \cup {<<push.msg, e>>} ELSE @,
              !.pos = IF over THEN push.msg ELSE @,
              !.msg = IF over THEN 0 ELSE @]
  /\ UNCHANGED <<scene, log, script, sessions, readers>>

\* The worker ends before the letter is acknowledged: it starts over.
PushCrash ==
  /\ push.msg # 0 /\ Fault
  /\ push' = [push EXCEPT !.msg = 0, !.left = {}]
  /\ UNCHANGED <<scene, log, script, sessions, readers>>

\* subscribe and unsubscribe, while the worker is at it.
ChangeSubscription(e) ==
  /\ e \in Scene.endpoints /\ Fault
  /\ push' = IF e \in push.subs THEN [push EXCEPT !.subs = @ \ {e}]
             ELSE [push EXCEPT !.subs = @ \cup {e}]
  /\ UNCHANGED <<scene, log, script, sessions, readers>>

GatewayStep ==
  \/ \E s \in Sessions : \/ OpenSession(s) \/ ReadHead(s) \/ AppendCommand(s)
                         \/ CommandFails(s) \/ ShowReply(s) \/ CloseSession(s)
  \/ \E r \in Scene.readers : (\E poll \in BOOLEAN : Subscribe(r, poll)) \/ Receive(r) \/ Leave(r)
  \/ PresenceExpires \/ PickLetter \/ PushCrash
  \/ \E e \in Scene.endpoints : PushTo(e) \/ ChangeSubscription(e)

---------------------------------------------------------------------------

\* A reader that lost its connection misses nothing newer than the ids it came
\* back with, however often it returns and whatever was published out of order
\* meanwhile (cursor.py, feed_stream.py).
NothingMissed ==
  \A r \in Readers :
    readers[r].on =>
      {i \in Feed : /\ readers[r].since < i /\ i <= readers[r].pos
                    /\ log[i].src > readers[r].cut} \subseteq readers[r].got

\* Every acknowledged command is a deed of its own in the log, made by the
\* session that was told; none is there twice; and without faults each command
\* either is a deed or was refused aloud (session.py handle_command).
AcksAreDeeds ==
  \A s \in Sessions :
    LET deeds == {i \in PlayerStream : log[i].by = s}
        handled == Len(Scene.commands[s]) - Len(sessions[s].todo)
    IN  /\ sessions[s].told.acks \subseteq deeds
        /\ Cardinality(deeds) <= handled
        /\ faults = 0 =>
             /\ Cardinality(deeds) + sessions[s].told.refused = handled
             /\ sessions[s].told.acks = deeds

GatewayInv == NothingMissed /\ AcksAreDeeds
=================================================================================
