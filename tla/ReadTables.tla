------------------------------- MODULE ReadTables -------------------------------
(***************************************************************************)
(* The read tables in PostgreSQL (lf_projector: pg_projector.py,           *)
(* pg_read.py, replay.py): one process, three durable consumers that share *)
(* a connection in autocommit, so that their statements interleave.        *)
(*                                                                         *)
(* A row is the id of the event it was made from; its columns, the         *)
(* schema's creation and its drift check, other worlds and malformed       *)
(* envelopes are left out.  Every retirement finds es in its database, and *)
(* an actor's past fits one page.                                          *)
(***************************************************************************)
EXTENDS WorldLog, SequencesExt

CONSTANT PgDeliver     \* max_deliver

ASSUME TablesAssumption == PgDeliver \in Nat \ {0}

VARIABLES
  rows,                \* the tables: [table, id]
  taken,               \* durable: what it has been given and holds
  begun,               \* history: lifecycle events handled since the tables were made
  late,                \* history: events handled after a later lifecycle event
  dead                 \* history: events given up, in the dead-letter stream

tableVars == <<rows, taken, begun, late, dead>>

Durables == {"actor", "player", "system"}

Lifecycle == {"retired", "returned"}

\* PROJECTIONS: the tables an event goes to, one statement each.
Projections ==
  [declared |-> <<"actors">>, memory |-> <<"episodes">>, belief |-> <<"beliefs">>,
   said |-> <<"messages">>, remark |-> <<"messages">>, arc |-> <<"arcs", "history">>]

\* SOURCES; what PROJECTIONS does not name is acknowledged and ignored.
Subscribed ==
  [actor |-> {"declared", "memory", "belief", "said"} \cup Lifecycle,
   player |-> {"remark"}, system |-> {"arc"}]

Unheld == [id |-> 0, n |-> 0, todo |-> <<>>, pos |-> 0, again |-> {}]

TablesInit ==
  /\ rows = {} /\ begun = {} /\ late = {} /\ dead = {}
  /\ taken = [d \in Durables |-> Unheld]

---------------------------------------------------------------------------
(* pg_read.py *)

\* The primary keys.
Slot(row) ==
  CASE row.table \in {"actors", "arcs"} -> <<row.table, log[row.id].who>>
    [] row.table = "beliefs" -> <<row.table, log[row.id].who, log[row.id].about>>
    [] OTHER -> <<row.table, "event", row.id>>

\* ON CONFLICT: an event's own row stays, a slot only moves forward.
Upserted(all, row) ==
  LET same == {q \in all : Slot(q) = Slot(row)}
  IN  IF \E q \in same : q.id >= row.id THEN all ELSE (all \ same) \cup {row}

\* Whose row it is, for _RETIRE_SQLS.
OwnRow(table, e, who) ==
  IF table = "messages" THEN e.type = "said" /\ e.who = who
  ELSE who \in {e.who} \cup (IF table = "beliefs" THEN {e.about} ELSE {})

\* _RETIRE_THREADS_SQL: what is said under somebody's post.
OnPostOf(e, who) ==
  e.type \in {"said", "remark"} /\ e.post # Nothing /\ log[e.post].who = who

\* Mutant: a retirement deletes whatever there is of the actor, without the guard.
EffectUnguarded(all, s) ==
  CASE s.op = "put" -> Upserted(all, [table |-> s.table, id |-> s.id])
    [] s.op = "delete" ->
         {row \in all : ~(row.table = s.table /\ OwnRow(s.table, log[row.id], log[s.id].who))}
    [] s.op = "threads" ->
         {row \in all : ~(row.table = "messages" /\ OnPostOf(log[row.id], log[s.id].who))}

\* What a statement does: an upsert, or a deletion of what is older than it.
Effect(all, s) ==
  CASE s.op = "put" -> Upserted(all, [table |-> s.table, id |-> s.id])
    [] s.op = "delete" ->
         {row \in all : ~(/\ row.table = s.table /\ row.id < s.id
                          /\ OwnRow(s.table, log[row.id], log[s.id].who))}
    [] s.op = "threads" ->
         {row \in all : ~(/\ row.table = "messages" /\ row.id < s.id
                          /\ OnPostOf(log[row.id], log[s.id].who))}

Statement(op, table, id) == [op |-> op, table |-> table, id |-> id]

Puts(i) ==
  LET tables == Projections[log[i].type]
  IN  [n \in DOMAIN tables |-> Statement("put", tables[n], i)]

\* _retire: the threads under the actor's posts, then the actor's rows.
Retirement(i) ==
  <<Statement("threads", "messages", i)>>
  \o [n \in 1..6 |->
        Statement("delete",
                  <<"actors", "episodes", "beliefs", "arcs", "history", "messages">>[n], i)]

\* RETURN_SCOPES["pg"]: rows that a lifecycle event of that actor reaches.
Reaches(l, i) ==
  LET e == log[i]   who == log[l].who
  IN  \/ e.type \in Subscribed.actor \ Lifecycle /\ e.who = who
      \/ e.type = "belief" /\ e.about = who
      \/ e.type = "arc" /\ e.who = who
      \/ OnPostOf(e, who)

\* _return, return_envelopes: the actor's past before the return, once more.
Return(i) ==
  LET past == {j \in Of(DOMAIN Projections) : j < i /\ Reaches(i, j)}
      order == SetToSortSeq(past, <)
  IN  FlattenSeq([n \in DOMAIN order |-> Puts(order[n])])

\* apply
Statements(i) ==
  CASE log[i].type = "retired" -> Retirement(i)
    [] log[i].type = "returned" -> Return(i)
    [] OTHER -> Puts(i)

---------------------------------------------------------------------------
(* pg_projector.py *)

Busy(d) == taken[d].id # 0

\* Handled while a later lifecycle event that concerns it has already begun.
Belated(i) ==
  \E l \in begun : l > i /\ (log[i].type \in Lifecycle \/ Reaches(l, i))

\* fetch: the next message, or one that comes again.
PgTake(d) ==
  /\ ~Busy(d)
  /\ \/ LET next == Pending(Subscribed[d], taken[d].pos)
        IN  /\ next # {}
            /\ taken' = [taken EXCEPT ![d].id = Earliest(next), ![d].pos = Earliest(next),
                                      ![d].n = 1, ![d].todo = Statements(Earliest(next))]
     \/ \E m \in taken[d].again :
          taken' = [taken EXCEPT ![d].id = m.id, ![d].n = m.n + 1,
                                 ![d].todo = Statements(m.id), ![d].again = @ \ {m}]
  /\ begun' = begun \cup ({taken'[d].id} \cap Of(Lifecycle))
  /\ UNCHANGED <<rows, late, dead, logVars>>

\* One statement of the handler.
PgDo(d) ==
  /\ Busy(d) /\ taken[d].todo # <<>>
  /\ rows' = Effect(rows, Head(taken[d].todo))
  /\ taken' = [taken EXCEPT ![d].todo = Tail(@)]
  /\ late' = late \cup (IF Belated(taken[d].id) THEN {taken[d].id} ELSE {})
  /\ UNCHANGED <<begun, dead, logVars>>

Settled(d) == [taken EXCEPT ![d].id = 0, ![d].n = 0, ![d].todo = <<>>]

PgAck(d) ==
  /\ Busy(d) /\ taken[d].todo = <<>>
  /\ taken' = Settled(d)
  /\ UNCHANGED <<rows, begun, late, dead, logVars>>

\* A statement fails, or its answer is lost: again later, or to the dead-letter
\* stream.
PgFails(d) ==
  /\ Fault /\ Busy(d)
  /\ LET m == [id |-> taken[d].id, n |-> taken[d].n]
     IN  IF m.n >= PgDeliver
         THEN taken' = Settled(d) /\ dead' = dead \cup {m.id}
         ELSE taken' = [Settled(d) EXCEPT ![d].again = @ \cup {m}] /\ UNCHANGED dead
  /\ UNCHANGED <<rows, begun, late, scene, log, script>>

\* What is in hand when the process ends comes again.
Dropped ==
  [d \in Durables |->
     [taken[d] EXCEPT !.id = 0, !.n = 0, !.todo = <<>>, !.again = @ \cup
       (IF Busy(d) THEN {[id |-> taken[d].id, n |-> taken[d].n]} ELSE {})]]

PgCrash ==
  /\ Fault /\ \E d \in Durables : Busy(d)
  /\ taken' = Dropped
  /\ UNCHANGED <<rows, begun, late, dead, scene, log, script>>

\* --rebuild: without tables and durables, from the beginning of the streams.
PgRebuild ==
  /\ Scene.rebuilds /\ Fault
  /\ rows' = {} /\ begun' = {} /\ late' = {} /\ dead' = {}
  /\ taken' = [d \in Durables |-> Unheld]
  /\ UNCHANGED <<scene, log, script>>

\* --rebuild --from-es, with the projector stopped: the tables anew from the
\* log, the durables where they were.
PgReplay ==
  /\ Scene.rebuilds /\ Fault
  /\ LET order == SetToSortSeq(Of(UNION {Subscribed[d] : d \in Durables}), <)
     IN  rows' = FoldLeft(Effect, {}, FlattenSeq([n \in DOMAIN order |-> Statements(order[n])]))
  /\ begun' = Of(Lifecycle) /\ late' = {} /\ dead' = {}
  /\ taken' = Dropped
  /\ UNCHANGED <<scene, log, script>>

TablesStep ==
  \/ \E d \in Durables : PgTake(d) \/ PgDo(d) \/ PgAck(d) \/ PgFails(d)
  \/ PgCrash
  \/ PgRebuild
  \/ PgReplay

---------------------------------------------------------------------------

\* The row an event makes is to be there if the last lifecycle event that
\* reaches it since is not a retirement, and no later one has its slot.
Stands(i) ==
  LET since == {l \in Of(Lifecycle) : l > i /\ Reaches(l, i)}
  IN  since = {} \/ log[Latest(since)].type = "returned"

Fold ==
  LET made == {[table |-> t, id |-> i] : t \in {"actors", "episodes", "beliefs",
                 "messages", "arcs", "history"}, i \in Of(DOMAIN Projections)}
      standing == {r \in made : /\ \E n \in DOMAIN Projections[log[r.id].type] :
                                     Projections[log[r.id].type][n] = r.table
                                /\ Stands(r.id)}
  IN  {r \in standing : \A q \in standing : Slot(q) = Slot(r) => q.id <= r.id}

\* Its own handling, or that of a lifecycle event that reaches it, came late.
Astray(i) == \E l \in late : l = i \/ (log[l].type \in Lifecycle /\ Reaches(l, i))

TablesRest ==
  /\ dead = {}
  /\ \A d \in Durables :
       /\ ~Busy(d) /\ taken[d].again = {}
       /\ Pending(Subscribed[d], taken[d].pos) = {}

\* Whatever was redelivered, interleaved or rebuilt, the tables come to be what
\* the log says (pg_verify.py), but for what an event handled out of the order
\* of retirements and returns has touched.
TablesAreFold ==
  TablesRest => \A r \in (rows \ Fold) \cup (Fold \ rows) : Astray(r.id)
=================================================================================
