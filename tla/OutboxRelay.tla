----------------------------- MODULE OutboxRelay -----------------------------
(***************************************************************************)
(* The transactional outbox and its dispatcher (services/dispatcher,       *)
(* relay.py; packages/eventstore, outbox.py).  Every event row is          *)
(* committed together with an outbox row.  One relay at a time, elected by *)
(* a PostgreSQL session advisory lock, fetches unpublished rows in         *)
(* global_seq order, publishes them one by one to JetStream with the event *)
(* id as message id, and marks the batch when all of it went out.          *)
(*                                                                         *)
(* JetStream is modelled from how relay.py uses it: a publish stores the   *)
(* message unless its id is still in the duplicate window, and a publish   *)
(* that raises may or may not have been stored.  A relay whose PostgreSQL  *)
(* session is gone no longer holds the lock but does not know it: it goes  *)
(* on publishing the batch it holds until it next talks to PostgreSQL.     *)
(***************************************************************************)
EXTENDS EventStore, FiniteSets

CONSTANTS
  Relays,    \* dispatcher processes, the active one and its standbys
  NoRelay,   \* the advisory lock is free
  Invalid,   \* global_seq of the rows whose envelope the gate refuses
  BatchSize, \* LIMIT of fetch_unpublished
  MaxFaults  \* bound: crashes, lost sessions and failed publishes

ASSUME RelayAssumption ==
  /\ NoRelay \notin Relays
  /\ Invalid \subseteq Nat
  /\ BatchSize \in Nat \ {0}
  /\ MaxFaults \in Nat

VARIABLES
  outbox,    \* global_seq of the rows of es.outbox
  published, \* those with published_at set
  lock,      \* holder of RELAY_LOCK_KEY
  relay,     \* what each relay process is doing
  topic,     \* rows JetStream stored under their own subject
  dlq,       \* rows JetStream stored under a dead-letter subject
  twice,     \* rows JetStream stored more than once
  window,    \* rows whose message id is in the duplicate window
  faults     \* faults so far

busVars == <<topic, dlq, twice, window>>
relayVars == <<outbox, published, lock, relay, busVars, faults>>
allVars == <<storeVars, relayVars>>

Relay == [pc : {"off", "standby", "lead", "publish"},
          batch : SUBSET Row, done : SUBSET Nat]

RelayTypeOK ==
  /\ outbox \subseteq Nat /\ published \subseteq outbox
  /\ lock \in Relays \cup {NoRelay}
  /\ relay \in [Relays -> Relay]
  /\ topic \subseteq Nat /\ dlq \subseteq Nat
  /\ twice \subseteq Nat /\ window \subseteq Nat
  /\ faults \in 0..MaxFaults

Off == [pc |-> "off", batch |-> {}, done |-> {}]

RelayInit ==
  /\ outbox = {} /\ published = {}
  /\ lock = NoRelay
  /\ relay = [r \in Relays |-> Off]
  /\ topic = {} /\ dlq = {} /\ twice = {} /\ window = {}
  /\ faults = 0

Stored == topic \cup dlq

-----------------------------------------------------------------------------
\* append() inserts the outbox row in the transaction of the event row.
AppendStep ==
  /\ StoreNext
  /\ outbox' = outbox \cup {e.g : e \in events' \ events}
  /\ UNCHANGED <<published, lock, relay, busVars, faults>>

Unpublished == {e \in events : e.g \in outbox \ published}

\* Mutant: LIMIT without ORDER BY.
BatchesUnordered(rows) ==
  {b \in SUBSET rows : b # {} /\ Cardinality(b) <= BatchSize}

\* SELECT ... ORDER BY global_seq LIMIT BatchSize
Batches(rows) ==
  {b \in SUBSET rows :
     /\ \A e \in b, f \in rows : f.g < e.g => f \in b
     /\ \/ Cardinality(b) = BatchSize
        \/ b = rows /\ Cardinality(b) < BatchSize}

\* js.publish: JetStream drops a message whose id it has seen in the window.
Publish(e) ==
  IF e.g \in window
  THEN UNCHANGED busVars
  ELSE /\ window' = window \cup {e.g}
       /\ twice' = IF e.g \in Stored THEN twice \cup {e.g} ELSE twice
       /\ IF e.g \in Invalid
          THEN dlq' = dlq \cup {e.g} /\ UNCHANGED topic
          ELSE topic' = topic \cup {e.g} /\ UNCHANGED dlq

\* The session's lock goes when its connection does.
Released(r) == IF lock = r THEN NoRelay ELSE lock

Exit(r) ==
  /\ relay' = [relay EXCEPT ![r] = Off]
  /\ lock' = Released(r)

Fault == faults < MaxFaults /\ faults' = faults + 1

\* The process is (re)started and connects.
Start(r) ==
  /\ relay[r].pc = "off"
  /\ relay' = [relay EXCEPT ![r].pc = "standby"]
  /\ UNCHANGED <<storeVars, outbox, published, lock, busVars, faults>>

\* Mutant: every standby leads.
AcquireAnyway(r) ==
  /\ relay[r].pc = "standby"
  /\ lock' = r
  /\ relay' = [relay EXCEPT ![r].pc = "lead"]
  /\ UNCHANGED <<storeVars, outbox, published, busVars, faults>>

Acquire(r) ==
  /\ relay[r].pc = "standby"
  /\ lock = NoRelay
  /\ lock' = r
  /\ relay' = [relay EXCEPT ![r].pc = "lead"]
  /\ UNCHANGED <<storeVars, outbox, published, busVars, faults>>

Fetch(r) ==
  /\ relay[r].pc = "lead"
  /\ lock = r
  /\ Unpublished # {}
  /\ \E b \in Batches(Unpublished) :
       relay' = [relay EXCEPT ![r] = [pc |-> "publish", batch |-> b,
                                      done |-> {}]]
  /\ UNCHANGED <<storeVars, outbox, published, lock, busVars, faults>>

\* Mutant: the batch goes out newest row first.
NewestFirst(r, e) ==
  /\ relay[r].pc = "publish"
  /\ e \in relay[r].batch
  /\ \A f \in relay[r].batch : f.g <= e.g

\* The rows of a batch go out one by one, lowest global_seq first.
First(r, e) ==
  /\ relay[r].pc = "publish"
  /\ e \in relay[r].batch
  /\ \A f \in relay[r].batch : e.g <= f.g

PublishRow(r, e) ==
  /\ First(r, e)
  /\ Publish(e)
  /\ relay' = [relay EXCEPT ![r].batch = @ \ {e}, ![r].done = @ \cup {e.g}]
  /\ UNCHANGED <<storeVars, outbox, published, lock, faults>>

\* Mutant: the exception is swallowed and the row marked with its batch.
PublishFailsSkipped(r, e) ==
  /\ First(r, e)
  /\ Fault
  /\ Publish(e) \/ UNCHANGED busVars
  /\ relay' = [relay EXCEPT ![r].batch = @ \ {e}, ![r].done = @ \cup {e.g}]
  /\ UNCHANGED <<storeVars, outbox, published, lock>>

\* js.publish raises, with or without the message stored: the exception leaves
\* run_relay and the process ends with nothing of the batch marked.
PublishFails(r, e) ==
  /\ First(r, e)
  /\ Fault
  /\ Publish(e) \/ UNCHANGED busVars
  /\ Exit(r)
  /\ UNCHANGED <<storeVars, outbox, published>>

MarkBatch(r) ==
  /\ relay[r].pc = "publish" /\ relay[r].batch = {}
  /\ lock = r
  /\ published' = published \cup (relay[r].done \cap outbox)
  /\ relay' = [relay EXCEPT ![r] = [Off EXCEPT !.pc = "lead"]]
  /\ UNCHANGED <<storeVars, outbox, lock, busVars, faults>>

\* Mutant: the loop catches the error of its statement and goes on.
SessionGoneIgnored(r) ==
  /\ relay[r].pc = "publish" /\ relay[r].batch = {}
  /\ lock # r
  /\ relay' = [relay EXCEPT ![r] = [Off EXCEPT !.pc = "lead"]]
  /\ UNCHANGED <<storeVars, outbox, published, lock, busVars, faults>>

\* A relay without a session fails at its next statement and ends.
SessionGone(r) ==
  /\ \/ relay[r].pc = "lead"
     \/ relay[r].pc = "publish" /\ relay[r].batch = {}
  /\ lock # r
  /\ Exit(r)
  /\ UNCHANGED <<storeVars, outbox, published, busVars, faults>>

\* Mutant: rows are purged by age, published or not.
PurgeByAge(r) ==
  /\ relay[r].pc = "lead"
  /\ lock = r
  /\ \E old \in SUBSET outbox \ {{}} :
       outbox' = outbox \ old /\ published' = published \ old
  /\ UNCHANGED <<storeVars, lock, relay, busVars, faults>>

\* purge_published, when there was nothing to publish: rows that have been
\* published for long enough, whichever these are.
Purge(r) ==
  /\ relay[r].pc = "lead"
  /\ lock = r
  /\ Unpublished = {}
  /\ \E old \in SUBSET published \ {{}} :
       outbox' = outbox \ old /\ published' = published \ old
  /\ UNCHANGED <<storeVars, lock, relay, busVars, faults>>

LoseSession(r) ==
  /\ lock = r
  /\ Fault
  /\ lock' = NoRelay
  /\ UNCHANGED <<storeVars, outbox, published, relay, busVars>>

Crash(r) ==
  /\ relay[r].pc # "off"
  /\ Fault
  /\ Exit(r)
  /\ UNCHANGED <<storeVars, outbox, published, busVars>>

\* The duplicate window moves on past a message id.
Forget(g) ==
  /\ g \in window
  /\ window' = window \ {g}
  /\ UNCHANGED <<storeVars, outbox, published, lock, relay, topic, dlq, twice,
                 faults>>

RelayWork(r) ==
  \/ Start(r)
  \/ Acquire(r)
  \/ Fetch(r)
  \/ \E e \in relay[r].batch : PublishRow(r, e)
  \/ MarkBatch(r)
  \/ SessionGone(r)

RelayStep(r) ==
  \/ RelayWork(r)
  \/ \E e \in relay[r].batch : PublishFails(r, e)
  \/ Purge(r)
  \/ LoseSession(r)
  \/ Crash(r)

Next ==
  \/ AppendStep
  \/ \E r \in Relays : RelayStep(r)
  \/ \E g \in window : Forget(g)

Init == StoreInit /\ RelayInit

Spec == Init /\ [][Next]_allVars

\* A relay process that runs takes its next step, and one that ended is started
\* again (the deployment restarts the container).
FairSpec == Spec /\ \A r \in Relays : WF_allVars(RelayWork(r))

-----------------------------------------------------------------------------
\* A committed event is never lost on its way out: until JetStream has it,
\* under its subject or in the dead-letter stream, its outbox row is there and
\* unpublished, whatever crashed, lost its lock, was marked or was purged.
NoSilentLoss ==
  \A e \in events : e.g \in Stored \/ e.g \in outbox \ published

\* Consumers see a stream in stream_seq order: an event is stored for the first
\* time only after all its predecessors, also across two relays of which one
\* does not know it has been replaced (relay.py: "in global_seq order").
FirstDeliveryInOrder ==
  \A e, f \in events :
    e.s = f.s /\ f.k < e.k /\ e.g \in Stored => f.g \in Stored

\* Only a fault makes a duplicate: as long as no process died and no session
\* was lost, an event is stored once however short the duplicate window is.
OnceWithoutFaults == faults = 0 => twice = {}

\* Every row of a batch in flight is committed, and what precedes it in its
\* stream is in the same batch or already out.
BatchInv ==
  \A r \in Relays :
    /\ relay[r].done \subseteq Stored
    /\ \A e \in relay[r].batch :
         /\ e \in events
         /\ \A f \in events : f.s = e.s /\ f.k < e.k =>
              f \in relay[r].batch \/ f.g \in Stored

\* The outbox and JetStream hold committed rows only, and JetStream remembers
\* ids of rows it holds.
OnlyCommitted ==
  window \subseteq Stored /\ Stored \cup outbox \subseteq {e.g : e \in events}

\* The inductive invariant behind NoSilentLoss and FirstDeliveryInOrder.
RelayInv ==
  /\ RelayTypeOK
  /\ NoSilentLoss
  /\ FirstDeliveryInOrder
  /\ BatchInv
  /\ OnlyCommitted

\* What makes OnceWithoutFaults inductive: until something fails one relay at a
\* time holds rows, none of them is out yet, and what is out and not marked is
\* what it has just published.
OnceInv ==
  /\ \A r \in Relays :
       relay[r].pc # "publish" => relay[r].batch = {} /\ relay[r].done = {}
  /\ faults = 0 =>
       /\ twice = {}
       /\ \A r \in Relays :
            /\ relay[r].pc \in {"lead", "publish"} => lock = r
            /\ \A e \in relay[r].batch : e.g \notin Stored
       /\ \A g \in Stored \cap (outbox \ published) :
            \E r \in Relays : g \in relay[r].done

Sent == {<<e.s, e.k>> : e \in {x \in events : x.g \in Stored}}

\* What the rest of the system may assume of the log and its relay together.
Delivery == INSTANCE OrderedDelivery WITH head <- heads, sent <- Sent

DeliverySpec == Delivery!Spec

\* What is committed is eventually delivered, after any bounded number of faults.
EventuallyDelivered ==
  \A g \in 1..MaxSeq :
    (\E e \in events : e.g = g) ~> g \in Stored
=============================================================================
