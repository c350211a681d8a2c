----------------------------- MODULE EventStore -----------------------------
(***************************************************************************)
(* The append path of the event store (packages/eventstore, store.py and   *)
(* migrations/0001): writers on their own PostgreSQL connections append    *)
(* batches of events to streams.  A writer reads the head of its stream,   *)
(* later opens one transaction that compares-and-sets the head, inserts    *)
(* the event rows and their outbox rows one by one, and commits.           *)
(*                                                                         *)
(* What PostgreSQL contributes is modelled from how store.py uses it: the  *)
(* stream_heads row is locked from the compare-and-set to the end of the   *)
(* transaction, nothing of an open transaction is visible to others, and   *)
(* the identity column global_seq is drawn at INSERT and never given back, *)
(* so an aborted transaction leaves a gap and commits may become visible   *)
(* out of global_seq order.                                                *)
(***************************************************************************)
EXTENDS Integers

CONSTANTS
  Writers,   \* connections that call append()
  Streams,   \* (world_id, stream, stream_key) triples
  MaxBatch,  \* bound: events in one append()
  MaxSeq     \* bound: global_seq values ever drawn

ASSUME StoreAssumption == MaxBatch \in Nat /\ MaxSeq \in Nat /\ Streams # {}

VARIABLES
  heads,     \* es.stream_heads.head_seq, 0 for a stream with no row
  events,    \* committed rows of es.events
  nextG,     \* the next value of the global_seq identity
  tx         \* what each writer's call of append() has done so far

storeVars == <<heads, events, nextG, tx>>

\* global_seq, stream and stream_seq of a row; the payload is left out.
Row == [g : Nat, s : Streams, k : Nat]

Tx == [pc : {"idle", "ready", "open"}, s : Streams, exp : Nat, n : Nat,
       i : Nat, rows : SUBSET Row]

StoreTypeOK ==
  /\ heads \in [Streams -> Nat]
  /\ events \subseteq Row
  /\ nextG \in Nat
  /\ tx \in [Writers -> Tx]

\* Between two calls of append() nothing is remembered of the last one.
Idle == [pc |-> "idle", s |-> CHOOSE s \in Streams : TRUE,
         exp |-> 0, n |-> 0, i |-> 0, rows |-> {}]

StoreInit ==
  /\ heads = [s \in Streams |-> 0]
  /\ events = {}
  /\ nextG = 1
  /\ tx = [w \in Writers |-> Idle]

-----------------------------------------------------------------------------
Closed(w) == tx' = [tx EXCEPT ![w] = Idle]

\* The caller reads the head it will append after; nothing is locked yet.
ReadHead(w, s, n) ==
  /\ tx[w].pc = "idle"
  /\ tx' = [tx EXCEPT ![w] = [pc |-> "ready", s |-> s, exp |-> heads[s],
                              n |-> n, i |-> 0, rows |-> {}]]
  /\ UNCHANGED <<heads, events, nextG>>

\* _validate raises before the database is touched.
Reject(w) ==
  /\ tx[w].pc = "ready"
  /\ Closed(w)
  /\ UNCHANGED <<heads, events, nextG>>

HeadLocked(s) == \E v \in Writers : tx[v].pc = "open" /\ tx[v].s = s

\* Mutant: expected_head is not compared.
CompareAndSetUnchecked(w) ==
  /\ tx[w].pc = "ready"
  /\ ~HeadLocked(tx[w].s)
  /\ tx' = [tx EXCEPT ![w].pc = "open"]
  /\ UNCHANGED <<heads, events, nextG>>

\* Mutant: the head is compared by a plain SELECT, which takes no row lock.
CompareAndSetUnlocked(w) ==
  /\ tx[w].pc = "ready"
  /\ heads[tx[w].s] = tx[w].exp
  /\ tx' = [tx EXCEPT ![w].pc = "open"]
  /\ UNCHANGED <<heads, events, nextG>>

\* INSERT ... ON CONFLICT DO NOTHING for a new stream, UPDATE ... WHERE
\* head_seq = expected otherwise: both wait for the row's lock.
CompareAndSet(w) ==
  /\ tx[w].pc = "ready"
  /\ ~HeadLocked(tx[w].s)
  /\ heads[tx[w].s] = tx[w].exp
  /\ tx' = [tx EXCEPT ![w].pc = "open"]
  /\ UNCHANGED <<heads, events, nextG>>

\* rowcount = 0: ConcurrencyConflict, the caller rehydrates.
Conflict(w) ==
  /\ tx[w].pc = "ready"
  /\ ~HeadLocked(tx[w].s)
  /\ heads[tx[w].s] # tx[w].exp
  /\ Closed(w)
  /\ UNCHANGED <<heads, events, nextG>>

\* One event row and its outbox row; the identity column is drawn here.
InsertRow(w) ==
  /\ tx[w].pc = "open"
  /\ tx[w].i < tx[w].n
  /\ nextG <= MaxSeq
  /\ nextG' = nextG + 1
  /\ tx' = [tx EXCEPT ![w].i = @ + 1,
                      ![w].rows = @ \cup {[g |-> nextG, s |-> tx[w].s,
                                           k |-> tx[w].exp + tx[w].i + 1]}]
  /\ UNCHANGED <<heads, events>>

Commit(w) ==
  /\ tx[w].pc = "open"
  /\ tx[w].i = tx[w].n
  /\ heads' = [heads EXCEPT ![tx[w].s] = tx[w].exp + tx[w].n]
  /\ events' = events \cup tx[w].rows
  /\ Closed(w)
  /\ UNCHANGED nextG

\* The writer or its connection dies inside the transaction.
Abort(w) ==
  /\ tx[w].pc = "open"
  /\ Closed(w)
  /\ UNCHANGED <<heads, events, nextG>>

StoreStep(w) ==
  \/ \E s \in Streams, n \in 1..MaxBatch : ReadHead(w, s, n)
  \/ Reject(w)
  \/ CompareAndSet(w)
  \/ Conflict(w)
  \/ InsertRow(w)
  \/ Commit(w)
  \/ Abort(w)

StoreNext == \E w \in Writers : StoreStep(w)

StoreSpec == StoreInit /\ [][StoreNext]_storeVars

-----------------------------------------------------------------------------
\* A stream's committed history is 1, 2, ..., head with nothing missing and
\* nothing twice, whatever transactions overlapped, conflicted or died
\* (expected_head is the only concurrency control of store.append).
StreamDense ==
  \A s \in Streams :
    /\ \A e \in events : e.s = s => e.k \in 1..heads[s]
    /\ \A k \in 1..heads[s] : \E e \in events : e.s = s /\ e.k = k
    /\ \A e, f \in events : e.s = s /\ f.s = s /\ e.k = f.k => e = f

\* Reading a stream in stream_seq order and reading the whole log in
\* global_seq order (the relay, the --from-es replay) agree on every stream:
\* the row lock spans the draw of global_seq.
StreamOrderIsGlobalOrder ==
  \A e, f \in events : e.s = f.s /\ e.k < f.k => e.g < f.g

\* A committed row appears in the past of nothing the stream already showed:
\* new rows of a stream carry a larger global_seq than all its old rows, so a
\* reader that has read a stream up to a global_seq never misses a late one.
NoLateRow ==
  [][\A e \in events' \ events : \A f \in events : e.s = f.s => f.g < e.g]_events

-----------------------------------------------------------------------------
(* The inductive invariant behind the three properties above.               *)
EventsInv ==
  \A e \in events : e.k \in 1..heads[e.s] /\ e.g < nextG

GlobalSeqUnique ==
  /\ \A e, f \in events : e.g = f.g => e = f
  /\ \A w \in Writers, e \in events : \A r \in tx[w].rows : r.g # e.g
  /\ \A v, w \in Writers : v # w =>
       \A q \in tx[v].rows, r \in tx[w].rows : q.g # r.g

\* An open transaction holds its stream's row lock: the head it compared with
\* is still the head, and its rows continue the stream in both orders.
OpenTxInv ==
  \A w \in Writers :
    LET t == tx[w] IN
    /\ t.pc # "open" => t.rows = {} /\ t.i = 0
    /\ t.pc = "open" => t.exp = heads[t.s] /\ t.i <= t.n
    /\ \A r \in t.rows :
         /\ r.s = t.s /\ r.g < nextG
         /\ r.k \in (t.exp + 1)..(t.exp + t.i)
         /\ \A e \in events : e.s = t.s => e.g < r.g
    /\ \A k \in (t.exp + 1)..(t.exp + t.i) : \E r \in t.rows : r.k = k
    /\ \A q, r \in t.rows : q.k = r.k => q = r
    /\ \A q, r \in t.rows : q.k < r.k => q.g < r.g

OneOpenTxPerStream ==
  \A v, w \in Writers :
    v # w /\ tx[v].pc = "open" /\ tx[w].pc = "open" => tx[v].s # tx[w].s

StoreInv ==
  /\ StoreTypeOK
  /\ StreamDense
  /\ StreamOrderIsGlobalOrder
  /\ EventsInv
  /\ GlobalSeqUnique
  /\ OpenTxInv
  /\ OneOpenTxPerStream
=============================================================================
