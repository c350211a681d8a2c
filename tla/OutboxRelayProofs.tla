-------------------------- MODULE OutboxRelayProofs --------------------------
(* The append path keeps its streams dense and ordered, for any writers, any *)
(* streams and any bounds; the outbox relay loses nothing and keeps every    *)
(* stream in order, for any number of relays, faults, batch size and set of  *)
(* refused rows.                                                             *)
EXTENDS OutboxRelay, TLAPS

-----------------------------------------------------------------------------
(* The append path.                                                          *)

\* The empty store satisfies the invariant.
LEMMA InitStoreInv == StoreInit => StoreInv
<1> SUFFICES ASSUME StoreInit PROVE StoreInv
  OBVIOUS
<1> DEFINE any == CHOOSE s \in Streams : TRUE
<1>1. any \in Streams
  BY StoreAssumption
<1>2. Idle \in Tx
  BY <1>1 DEF Idle, Tx
<1>3. StoreTypeOK
  BY <1>2 DEF StoreTypeOK, StoreInit
<1>4. StreamDense /\ StreamOrderIsGlobalOrder /\ EventsInv
  BY DEF StoreInit, StreamDense, StreamOrderIsGlobalOrder, EventsInv
<1>5. \A w \in Writers : tx[w].pc = "idle" /\ tx[w].rows = {} /\ tx[w].i = 0
                         /\ tx[w].exp = 0
  BY DEF StoreInit, Idle
<1>6. GlobalSeqUnique /\ OneOpenTxPerStream
  BY <1>5 DEF StoreInit, GlobalSeqUnique, OneOpenTxPerStream
<1>7. OpenTxInv
  <2>1. \A a, b \in Nat : a = 0 /\ b = 0 => (a + 1)..(a + b) = {}
    OBVIOUS
  <2>2. ASSUME NEW w \in Writers
        PROVE  (tx[w].exp + 1)..(tx[w].exp + tx[w].i) = {}
    BY <1>5, <2>1
  <2>3. QED
    BY <1>5, <2>2 DEF OpenTxInv
<1>8. QED
  BY <1>3, <1>4, <1>6, <1>7 DEF StoreInv

(* A call that ends without effect: Reject, Conflict, Abort.                 *)
LEMMA CloseStoreInv ==
  ASSUME StoreInv, NEW w \in Writers, Closed(w),
         UNCHANGED <<heads, events, nextG>>
  PROVE  StoreInv'
<1>1. Idle \in Tx
  <2>1. (CHOOSE s \in Streams : TRUE) \in Streams
    BY StoreAssumption
  <2>2. QED
    BY <2>1 DEF Idle, Tx
<1>2. tx'[w] = Idle /\ (\A v \in Writers \ {w} : tx'[v] = tx[v])
  BY DEF Closed, StoreInv, StoreTypeOK
<1>3. Idle.pc = "idle" /\ Idle.rows = {} /\ Idle.i = 0 /\ Idle.exp = 0
  BY DEF Idle
<1>4. StoreTypeOK'
  BY <1>1 DEF StoreInv, StoreTypeOK, Closed
<1>5. StreamDense' /\ StreamOrderIsGlobalOrder' /\ EventsInv'
  BY DEF StoreInv, StreamDense, StreamOrderIsGlobalOrder, EventsInv
<1>6. GlobalSeqUnique' /\ OneOpenTxPerStream'
  BY <1>2, <1>3 DEF StoreInv, GlobalSeqUnique, OneOpenTxPerStream
<1>7. OpenTxInv'
  BY <1>2, <1>3 DEF StoreInv, OpenTxInv
<1>8. QED
  BY <1>4, <1>5, <1>6, <1>7 DEF StoreInv

\* Reading a head changes no row: the invariant is kept.
LEMMA ReadHeadStoreInv ==
  ASSUME StoreInv, NEW w \in Writers, NEW s \in Streams,
         NEW n \in 1..MaxBatch, ReadHead(w, s, n)
  PROVE  StoreInv'
<1> DEFINE t == [pc |-> "ready", s |-> s, exp |-> heads[s],
                 n |-> n, i |-> 0, rows |-> {}]
<1>1. tx'[w] = t /\ (\A v \in Writers \ {w} : tx'[v] = tx[v])
  BY DEF ReadHead, StoreInv, StoreTypeOK
<1>2. t \in Tx
  BY StoreAssumption DEF Tx, StoreInv, StoreTypeOK
<1>3. StoreTypeOK'
  BY <1>2 DEF StoreInv, StoreTypeOK, ReadHead
<1>4. StreamDense' /\ StreamOrderIsGlobalOrder' /\ EventsInv'
  BY DEF StoreInv, StreamDense, StreamOrderIsGlobalOrder, EventsInv, ReadHead
<1>5. t.pc = "ready" /\ t.rows = {} /\ t.i = 0 /\ t.exp \in Nat
  BY DEF StoreInv, StoreTypeOK
<1> HIDE DEF t
<1>6. GlobalSeqUnique' /\ OneOpenTxPerStream'
  BY <1>1, <1>5
     DEF StoreInv, GlobalSeqUnique, OneOpenTxPerStream, ReadHead
<1>7. OpenTxInv'
  BY <1>1, <1>5 DEF StoreInv, OpenTxInv, ReadHead
<1>8. QED
  BY <1>3, <1>4, <1>6, <1>7 DEF StoreInv

\* The transaction that passes the compare-and-set is the only open one of its
\* stream.
LEMMA CompareAndSetStoreInv ==
  ASSUME StoreInv, NEW w \in Writers, CompareAndSet(w)
  PROVE  StoreInv'
<1>1. /\ tx'[w] = [tx[w] EXCEPT !.pc = "open"]
      /\ \A v \in Writers \ {w} : tx'[v] = tx[v]
  BY DEF CompareAndSet, StoreInv, StoreTypeOK
<1>2. /\ tx'[w].pc = "open" /\ tx'[w].s = tx[w].s /\ tx'[w].exp = tx[w].exp
      /\ tx'[w].n = tx[w].n /\ tx'[w].i = tx[w].i /\ tx'[w].rows = tx[w].rows
      /\ tx[w].i = 0 /\ tx[w].rows = {} /\ tx[w].n \in Nat /\ tx[w].exp \in Nat
  BY <1>1 DEF CompareAndSet, StoreInv, StoreTypeOK, OpenTxInv, Tx
<1>3. StoreTypeOK'
  <2>1. tx'[w] \in Tx
    BY <1>1 DEF StoreInv, StoreTypeOK, Tx
  <2>2. QED
    BY <2>1 DEF StoreInv, StoreTypeOK, CompareAndSet
<1>4. StreamDense' /\ StreamOrderIsGlobalOrder' /\ EventsInv'
  BY DEF StoreInv, StreamDense, StreamOrderIsGlobalOrder, EventsInv,
         CompareAndSet
<1>5. GlobalSeqUnique'
  BY <1>1, <1>2 DEF StoreInv, GlobalSeqUnique, CompareAndSet
<1>6. OneOpenTxPerStream'
  BY <1>1, <1>2 DEF StoreInv, OneOpenTxPerStream, CompareAndSet, HeadLocked
<1>7. OpenTxInv'
  BY <1>1, <1>2 DEF StoreInv, OpenTxInv, CompareAndSet
<1>8. QED
  BY <1>3, <1>4, <1>5, <1>6, <1>7 DEF StoreInv

\* A row drawn inside a transaction continues its stream in both orders.
LEMMA InsertRowStoreInv ==
  ASSUME StoreInv, NEW w \in Writers, InsertRow(w)
  PROVE  StoreInv'
<1> DEFINE t == tx[w]
           row == [g |-> nextG, s |-> t.s, k |-> t.exp + t.i + 1]
<1>1. /\ tx'[w] = [t EXCEPT !.i = t.i + 1, !.rows = t.rows \cup {row}]
      /\ \A v \in Writers \ {w} : tx'[v] = tx[v]
  BY DEF InsertRow, StoreInv, StoreTypeOK
<1>2. t \in Tx /\ nextG \in Nat
  BY DEF StoreInv, StoreTypeOK
<1>3. row \in Row
  BY <1>2 DEF Row, Tx
<1>4. /\ tx'[w].pc = "open" /\ tx'[w].s = t.s /\ tx'[w].exp = t.exp
      /\ tx'[w].n = t.n /\ tx'[w].i = t.i + 1
      /\ tx'[w].rows = t.rows \cup {row}
      /\ t.i \in Nat /\ t.n \in Nat /\ t.exp \in Nat /\ t.i < t.n
      /\ t.exp = heads[t.s] /\ t.s \in Streams /\ t.pc = "open"
  <2>1. t.pc = "open" /\ t.i < t.n
    BY DEF InsertRow
  <2>2. t.exp = heads[t.s]
    BY <2>1 DEF StoreInv, OpenTxInv
  <2>3. t.i \in Nat /\ t.n \in Nat /\ t.exp \in Nat /\ t.s \in Streams
    BY <1>2 DEF Tx
  <2>4. t = [pc |-> t.pc, s |-> t.s, exp |-> t.exp, n |-> t.n, i |-> t.i,
             rows |-> t.rows]
    BY <1>2 DEF Tx
  <2> HIDE DEF t, row
  <2>5. QED
    BY <1>1, <2>1, <2>2, <2>3, <2>4
<1>5. row.g = nextG /\ row.s = t.s /\ row.k = t.exp + t.i + 1
  OBVIOUS
<1>6. /\ \A e \in events : e.g < nextG /\ e.g \in Nat
      /\ \A v \in Writers : \A r \in tx[v].rows :
           r.g < nextG /\ r.g \in Nat /\ r.k \in Nat
  BY DEF StoreInv, StoreTypeOK, EventsInv, OpenTxInv, Row, Tx
<1>7. StoreTypeOK'
  <2>1. t.rows \cup {row} \in SUBSET Row /\ t.i + 1 \in Nat
    BY <1>2, <1>3, <1>4 DEF Tx
  <2>2. tx'[w] \in Tx
    BY <1>1, <1>2, <2>1 DEF Tx
  <2>3. QED
    BY <2>2, <1>2 DEF StoreInv, StoreTypeOK, InsertRow
<1>8. StreamDense' /\ StreamOrderIsGlobalOrder' /\ EventsInv'
  BY <1>2, <1>6 DEF StoreInv, StreamDense, StreamOrderIsGlobalOrder, EventsInv,
                    InsertRow
<1> HIDE DEF row
<1>9. GlobalSeqUnique'
  <2>1. \A v \in Writers : \A r \in tx'[v].rows :
          r \in tx[v].rows \/ (v = w /\ r = row)
    BY <1>1, <1>4
  <2>2. UNCHANGED events
    BY DEF InsertRow
  <2>3. (\A e, f \in events : e.g = f.g => e = f)'
    BY <2>2 DEF StoreInv, GlobalSeqUnique
  <2>4. (\A v \in Writers, e \in events : \A r \in tx[v].rows : r.g # e.g)'
    BY <2>1, <2>2, <1>5, <1>6 DEF StoreInv, GlobalSeqUnique
  <2>5. (\A u, v \in Writers : u # v =>
           \A q \in tx[u].rows, r \in tx[v].rows : q.g # r.g)'
    BY <2>1, <1>5, <1>6 DEF StoreInv, GlobalSeqUnique
  <2>6. QED
    BY <2>3, <2>4, <2>5 DEF GlobalSeqUnique
<1>10. OneOpenTxPerStream'
  <2>1. \A v \in Writers : tx'[v].pc = tx[v].pc /\ tx'[v].s = tx[v].s
    BY <1>1, <1>4
  <2>2. QED
    BY <2>1 DEF StoreInv, OneOpenTxPerStream
<1>11. OpenTxInv'
  <2> SUFFICES ASSUME NEW v \in Writers
               PROVE  /\ tx'[v].pc # "open" => tx'[v].rows = {} /\ tx'[v].i = 0
                      /\ tx'[v].pc = "open" => /\ tx'[v].exp = heads'[tx'[v].s]
                                               /\ tx'[v].i <= tx'[v].n
                      /\ \A r \in tx'[v].rows :
                           /\ r.s = tx'[v].s /\ r.g < nextG'
                           /\ r.k \in (tx'[v].exp + 1)..(tx'[v].exp + tx'[v].i)
                           /\ \A e \in events' : e.s = tx'[v].s => e.g < r.g
                      /\ \A k \in (tx'[v].exp + 1)..(tx'[v].exp + tx'[v].i) :
                           \E r \in tx'[v].rows : r.k = k
                      /\ \A q, r \in tx'[v].rows : q.k = r.k => q = r
                      /\ \A q, r \in tx'[v].rows : q.k < r.k => q.g < r.g
    BY DEF OpenTxInv
  <2>1. heads' = heads /\ events' = events /\ nextG' = nextG + 1
    BY DEF InsertRow
  <2>2. CASE v # w
    BY <2>1, <2>2, <1>1, <1>2, <1>6 DEF StoreInv, OpenTxInv
  <2>3. CASE v = w
    <3>1. \A r \in t.rows : /\ r.s = t.s /\ r.g < nextG /\ r.g \in Nat
                            /\ r.k \in (t.exp + 1)..(t.exp + t.i)
                            /\ \A e \in events : e.s = t.s => e.g < r.g
      BY <1>6 DEF StoreInv, OpenTxInv
    <3>2. \A k \in (t.exp + 1)..(t.exp + t.i) : \E r \in t.rows : r.k = k
      BY DEF StoreInv, OpenTxInv
    <3>3. \A q, r \in t.rows : /\ q.k = r.k => q = r
                               /\ q.k < r.k => q.g < r.g
      BY DEF StoreInv, OpenTxInv
    <3> HIDE DEF t
    <3>4. \A r \in tx'[w].rows :
            /\ r.s = t.s /\ r.g < nextG'
            /\ r.k \in (t.exp + 1)..(t.exp + t.i + 1)
            /\ \A e \in events' : e.s = t.s => e.g < r.g
      BY <3>1, <2>1, <1>2, <1>4, <1>5, <1>6
    <3>5. \A k \in (t.exp + 1)..(t.exp + t.i + 1) :
            \E r \in tx'[w].rows : r.k = k
      BY <3>2, <1>4, <1>5
    <3>6. \A q, r \in tx'[w].rows : q.k = r.k => q = r
      BY <3>1, <3>3, <1>4, <1>5
    <3>7. \A q, r \in tx'[w].rows : q.k < r.k => q.g < r.g
      BY <3>1, <3>3, <1>2, <1>4, <1>5
    <3>8. t.i + 1 <= t.n /\ t.exp = heads'[t.s]
      BY <1>4, <2>1
    <3>9. QED
      BY <2>3, <3>4, <3>5, <3>6, <3>7, <3>8, <1>4
  <2>4. QED
    BY <2>2, <2>3
<1>12. QED
  BY <1>7, <1>8, <1>9, <1>10, <1>11 DEF StoreInv

\* A commit extends its stream from head + 1 without a gap.
LEMMA CommitStoreInv ==
  ASSUME StoreInv, NEW w \in Writers, Commit(w)
  PROVE  StoreInv'
<1> DEFINE t == tx[w]
<1>1. /\ t.pc = "open" /\ t.i = t.n /\ t.exp = heads[t.s]
      /\ t.exp \in Nat /\ t.n \in Nat /\ t.s \in Streams
      /\ t.rows \in SUBSET Row /\ nextG \in Nat
  BY DEF Commit, StoreInv, StoreTypeOK, OpenTxInv, Tx
<1>2. /\ heads' = [heads EXCEPT ![t.s] = t.exp + t.n]
      /\ events' = events \cup t.rows
      /\ nextG' = nextG
  BY DEF Commit
<1>3. Idle \in Tx
  <2>1. (CHOOSE s \in Streams : TRUE) \in Streams
    BY StoreAssumption
  <2>2. QED
    BY <2>1 DEF Idle, Tx
<1>4. tx'[w] = Idle /\ (\A v \in Writers \ {w} : tx'[v] = tx[v])
  BY DEF Commit, Closed, StoreInv, StoreTypeOK
<1>5. Idle.pc = "idle" /\ Idle.rows = {} /\ Idle.i = 0 /\ Idle.exp = 0
  BY DEF Idle
<1>6. StoreTypeOK'
  BY <1>1, <1>2, <1>3 DEF StoreInv, StoreTypeOK, Commit, Closed
<1>7. /\ \A r \in t.rows : /\ r.s = t.s /\ r.g < nextG /\ r.g \in Nat
                            /\ r.k \in (t.exp + 1)..(t.exp + t.n)
                            /\ \A e \in events : e.s = t.s => e.g < r.g
      /\ \A k \in (t.exp + 1)..(t.exp + t.n) : \E r \in t.rows : r.k = k
      /\ \A q, r \in t.rows : q.k = r.k => q = r
      /\ \A q, r \in t.rows : q.k < r.k => q.g < r.g
      /\ \A q, r \in t.rows : q.g = r.g => q = r
  <2>1. /\ \A r \in t.rows : /\ r.s = t.s /\ r.g < nextG
                              /\ r.k \in (t.exp + 1)..(t.exp + t.n)
                              /\ \A e \in events : e.s = t.s => e.g < r.g
        /\ \A k \in (t.exp + 1)..(t.exp + t.n) : \E r \in t.rows : r.k = k
        /\ \A q, r \in t.rows : q.k = r.k => q = r
        /\ \A q, r \in t.rows : q.k < r.k => q.g < r.g
    BY <1>1 DEF StoreInv, OpenTxInv
  <2>2. \A r \in t.rows : r.g \in Nat /\ r.k \in Nat
    BY <1>1 DEF Row
  <2> HIDE DEF t
  <2>3. QED
    BY <2>1, <2>2
<1>8. /\ \A e \in events : /\ e.k \in 1..heads[e.s] /\ e.g < nextG
                           /\ e.s \in Streams /\ e.k \in Nat /\ e.g \in Nat
      /\ \A s \in Streams : heads[s] \in Nat
  BY DEF StoreInv, StoreTypeOK, EventsInv, Row
<1>9. /\ \A s \in Streams \ {t.s} : heads'[s] = heads[s]
      /\ heads'[t.s] = t.exp + t.n
      /\ \A s \in Streams : heads[s] <= heads'[s] /\ heads'[s] \in Nat
  BY <1>1, <1>2, <1>8 DEF StoreInv, StoreTypeOK
<1>10. \A e \in events' : e \in events \/ e \in t.rows
  BY <1>2
<1> HIDE DEF t
<1>11. StreamDense'
  <2> SUFFICES ASSUME NEW s \in Streams
               PROVE  /\ \A e \in events' : e.s = s => e.k \in 1..heads'[s]
                      /\ \A k \in 1..heads'[s] :
                           \E e \in events' : e.s = s /\ e.k = k
                      /\ \A e, f \in events' :
                           e.s = s /\ f.s = s /\ e.k = f.k => e = f
    BY DEF StreamDense
  <2>1. \A e \in events' : e.s = s => e.k \in 1..heads'[s]
    BY <1>1, <1>7, <1>8, <1>9, <1>10
  <2>2. \A k \in 1..heads'[s] : \E e \in events' : e.s = s /\ e.k = k
    <3>1. \A k \in 1..heads[s] : \E e \in events' : e.s = s /\ e.k = k
      BY <1>2 DEF StoreInv, StreamDense
    <3>2. CASE s # t.s
      BY <3>1, <3>2, <1>9
    <3>3. CASE s = t.s
      <4>1. \A k \in (t.exp + 1)..(t.exp + t.n) :
              \E e \in events' : e.s = s /\ e.k = k
        BY <3>3, <1>2, <1>7
      <4>2. QED
        BY <3>1, <3>3, <4>1, <1>1, <1>9
    <3>4. QED
      BY <3>2, <3>3
  <2>3. \A e, f \in events' : e.s = s /\ f.s = s /\ e.k = f.k => e = f
    <3>1. \A e, f \in events : e.s = s /\ f.s = s /\ e.k = f.k => e = f
      BY DEF StoreInv, StreamDense
    <3>2. \A e \in events, r \in t.rows : e.s = r.s => e.k < r.k
      BY <1>1, <1>7, <1>8
    <3>3. QED
      BY <3>1, <3>2, <1>1, <1>7, <1>8, <1>10
  <2>4. QED
    BY <2>1, <2>2, <2>3
<1>12. StreamOrderIsGlobalOrder'
  <2>1. \A e, f \in events : e.s = f.s /\ e.k < f.k => e.g < f.g
    BY DEF StoreInv, StreamOrderIsGlobalOrder
  <2>2. \A e \in events, r \in t.rows : e.s = r.s => e.k < r.k /\ e.g < r.g
    BY <1>1, <1>7, <1>8
  <2>3. \A e \in events, r \in t.rows : e.s = r.s => ~(r.k < e.k)
    BY <1>1, <1>7, <1>8
  <2>4. QED
    BY <2>1, <2>2, <2>3, <1>7, <1>10 DEF StreamOrderIsGlobalOrder
<1>13. EventsInv'
  BY <1>1, <1>2, <1>7, <1>8, <1>9, <1>10 DEF EventsInv
<1>14. GlobalSeqUnique'
  <2>1. \A e, f \in events' : e.g = f.g => e = f
    BY <1>7, <1>10 DEF StoreInv, GlobalSeqUnique, t
  <2>2. \A v \in Writers, e \in events' : \A r \in tx'[v].rows : r.g # e.g
    BY <1>4, <1>5, <1>10 DEF StoreInv, GlobalSeqUnique, t
  <2>3. \A u, v \in Writers : u # v =>
          \A q \in tx'[u].rows, r \in tx'[v].rows : q.g # r.g
    BY <1>4, <1>5 DEF StoreInv, GlobalSeqUnique
  <2>4. QED
    BY <2>1, <2>2, <2>3 DEF GlobalSeqUnique
<1>15. OneOpenTxPerStream'
  BY <1>4, <1>5 DEF StoreInv, OneOpenTxPerStream
<1>16. OpenTxInv'
  <2>1. ASSUME NEW v \in Writers, v # w
        PROVE  tx[v].pc = "open" => tx[v].s # t.s
    BY <2>1, <1>1 DEF StoreInv, OneOpenTxPerStream, t
  <2>2. ASSUME NEW v \in Writers, v # w
        PROVE  /\ tx[v].pc # "open" => tx[v].rows = {} /\ tx[v].i = 0
               /\ tx[v].pc = "open" => tx[v].exp = heads'[tx[v].s]
                                      /\ tx[v].i <= tx[v].n
               /\ \A r \in tx[v].rows : \A e \in events' :
                    e.s = tx[v].s => e.g < r.g
    <3>1. tx[v] \in Tx
      BY DEF StoreInv, StoreTypeOK
    <3>2. tx[v].s \in Streams
      BY <3>1 DEF Tx
    <3>3. /\ tx[v].pc # "open" => tx[v].rows = {} /\ tx[v].i = 0
          /\ tx[v].pc = "open" => tx[v].exp = heads[tx[v].s]
                                 /\ tx[v].i <= tx[v].n
          /\ \A r \in tx[v].rows : \A e \in events :
               e.s = tx[v].s => e.g < r.g
      BY DEF StoreInv, OpenTxInv
    <3>4. QED
      BY <3>2, <3>3, <2>1, <2>2, <1>7, <1>9, <1>10
  <2>3. ASSUME NEW v \in Writers, v # w
        PROVE  /\ \A r \in tx[v].rows :
                    /\ r.s = tx[v].s /\ r.g < nextG'
                    /\ r.k \in (tx[v].exp + 1)..(tx[v].exp + tx[v].i)
               /\ \A k \in (tx[v].exp + 1)..(tx[v].exp + tx[v].i) :
                    \E r \in tx[v].rows : r.k = k
               /\ \A q, r \in tx[v].rows : q.k = r.k => q = r
               /\ \A q, r \in tx[v].rows : q.k < r.k => q.g < r.g
    BY <1>2 DEF StoreInv, OpenTxInv
  <2>4. \A v \in Writers \ {w} : tx'[v] = tx[v]
    BY <1>4
  <2>5. (\A k \in (Idle.exp + 1)..(Idle.exp + Idle.i) : FALSE)
    BY <1>5
  <2>6. tx'[w] = Idle
    BY <1>4
  <2>7. QED
    BY <2>2, <2>3, <2>4, <2>5, <2>6, <1>5 DEF OpenTxInv
<1>17. QED
  BY <1>6, <1>11, <1>12, <1>13, <1>14, <1>15, <1>16 DEF StoreInv

\* Every step of every writer keeps the invariant of the append path.
LEMMA StepStoreInv == StoreInv /\ [StoreNext]_storeVars => StoreInv'
<1> SUFFICES ASSUME StoreInv, [StoreNext]_storeVars PROVE StoreInv'
  OBVIOUS
<1>1. CASE UNCHANGED storeVars
  BY <1>1 DEF storeVars, StoreInv, StoreTypeOK, StreamDense,
     StreamOrderIsGlobalOrder, EventsInv, GlobalSeqUnique, OpenTxInv,
     OneOpenTxPerStream
<1>2. CASE StoreNext
  <2> SUFFICES ASSUME NEW w \in Writers, StoreStep(w) PROVE StoreInv'
    BY <1>2 DEF StoreNext
  <2>1. CASE \E s \in Streams, n \in 1..MaxBatch : ReadHead(w, s, n)
    BY <2>1, ReadHeadStoreInv
  <2>2. CASE Reject(w)
    BY <2>2, CloseStoreInv DEF Reject
  <2>3. CASE CompareAndSet(w)
    BY <2>3, CompareAndSetStoreInv
  <2>4. CASE Conflict(w)
    BY <2>4, CloseStoreInv DEF Conflict
  <2>5. CASE InsertRow(w)
    BY <2>5, InsertRowStoreInv
  <2>6. CASE Commit(w)
    BY <2>6, CommitStoreInv
  <2>7. CASE Abort(w)
    BY <2>7, CloseStoreInv DEF Abort
  <2>8. QED
    BY <2>1, <2>2, <2>3, <2>4, <2>5, <2>6, <2>7 DEF StoreStep
<1>3. QED
  BY <1>1, <1>2

\* In every reachable state of the append path streams are dense, locked by at
\* most one transaction, and ordered alike by stream_seq and global_seq.
THEOREM StoreInvariant == StoreSpec => []StoreInv
<1>1. QED
  BY InitStoreInv, StepStoreInv, PTL DEF StoreSpec

(* Streams stay dense: expected_head alone, with the row lock PostgreSQL     *)
(* takes for it, keeps concurrent appends from skipping or reusing a number. *)
THEOREM StreamsAreDense == StoreSpec => []StreamDense
<1>1. StoreInv => StreamDense
  BY DEF StoreInv
<1>2. QED
  BY StoreInvariant, <1>1, PTL

(* The global order of the log extends the order of every stream.            *)
THEOREM GlobalOrderExtendsStreams == StoreSpec => []StreamOrderIsGlobalOrder
<1>1. StoreInv => StreamOrderIsGlobalOrder
  BY DEF StoreInv
<1>2. QED
  BY StoreInvariant, <1>1, PTL
(* Rows that become visible extend their streams at the end of the log.      *)
LEMMA NewRows ==
  ASSUME StoreInv, StoreNext
  PROVE  /\ events \subseteq events'
         /\ \A e \in events' \ events :
              /\ \E w \in Writers : e \in tx[w].rows
              /\ \A f \in events : f.g # e.g
              /\ \A f \in events : e.s = f.s => f.g < e.g
<1>1. PICK w \in Writers : StoreStep(w)
  BY DEF StoreNext
<1>2. CASE Commit(w)
  <2>1. events' = events \cup tx[w].rows
    BY <1>2 DEF Commit
  <2>2. \A r \in tx[w].rows : /\ r.s = tx[w].s
                              /\ \A e \in events : e.s = tx[w].s => e.g < r.g
    BY DEF StoreInv, OpenTxInv
  <2>3. \A r \in tx[w].rows, f \in events : f.g # r.g
    BY DEF StoreInv, GlobalSeqUnique
  <2>4. QED
    BY <2>1, <2>2, <2>3
<1>3. CASE events' = events
  BY <1>3
<1>4. QED
  BY <1>1, <1>2, <1>3
     DEF StoreStep, ReadHead, Reject, CompareAndSet, Conflict, InsertRow, Abort

(* A reader that has seen a stream up to a global_seq misses nothing later.  *)
THEOREM NoRowComesLate == StoreSpec => NoLateRow
<1>1. StoreInv /\ [StoreNext]_storeVars
      => [\A e \in events' \ events :
            \A f \in events : e.s = f.s => f.g < e.g]_events
  BY NewRows DEF storeVars
<1>2. QED
  BY StoreInvariant, <1>1, PTL DEF StoreSpec, NoLateRow

-----------------------------------------------------------------------------
(* The relay.                                                                *)

AllInv == StoreInv /\ RelayInv

\* With nothing appended and no relay started both invariants hold.
LEMMA InitAllInv == Init => AllInv
<1> SUFFICES ASSUME Init PROVE AllInv
  OBVIOUS
<1>1. StoreInv
  BY InitStoreInv DEF Init
<1>2. RelayTypeOK
  BY RelayAssumption DEF Init, RelayInit, RelayTypeOK, Relay, Off
<1>3. events = {} /\ Stored = {} /\ window = {} /\ outbox = {}
  BY DEF Init, StoreInit, RelayInit, Stored
<1>4. BatchInv
  BY DEF Init, RelayInit, BatchInv, Off
<1>5. QED
  BY <1>1, <1>2, <1>3, <1>4
     DEF AllInv, RelayInv, NoSilentLoss, FirstDeliveryInOrder, OnlyCommitted

(* What a publish may do to what JetStream holds.                            *)
LEMMA PublishStores ==
  ASSUME RelayTypeOK, NEW e \in Row, Publish(e), window \subseteq Stored
  PROVE  Stored' = Stored \cup {e.g}
<1>1. CASE e.g \in window
  BY <1>1 DEF Publish, busVars, Stored
<1>2. CASE e.g \notin window
  BY <1>2 DEF Publish, Stored
<1>3. QED
  BY <1>1, <1>2

\* An append adds an outbox row for each event row and nothing to JetStream.
LEMMA AppendRelayInv ==
  ASSUME AllInv, AppendStep
  PROVE  AllInv'
<1>1. StoreInv /\ RelayInv /\ StoreNext
  BY DEF AllInv, AppendStep
<1>2. StoreInv'
  BY <1>1, StepStoreInv
<1>3. /\ events \subseteq events'
      /\ \A e \in events' \ events :
           /\ \A f \in events : f.g # e.g
           /\ \A f \in events : e.s = f.s => f.g < e.g
  BY <1>1, NewRows
<1>4. /\ outbox' = outbox \cup {e.g : e \in events' \ events}
      /\ UNCHANGED <<published, lock, relay, topic, dlq, twice, window, faults>>
      /\ Stored' = Stored
  BY DEF AppendStep, busVars, Stored
<1>5. events' \subseteq Row
  BY <1>2 DEF StoreInv, StoreTypeOK
<1>6. \A e, f \in events' : e.s = f.s /\ e.k < f.k => e.g < f.g
  BY <1>2 DEF StoreInv, StreamOrderIsGlobalOrder
<1>7. \A e \in events' : e.g \in Nat /\ e.k \in Nat
  BY <1>5 DEF Row
<1>8. \A e \in events' \ events : e.g \notin Stored
  BY <1>1, <1>3 DEF RelayInv, OnlyCommitted
<1>9. RelayTypeOK'
  BY <1>1, <1>4, <1>7 DEF RelayInv, RelayTypeOK
\* A row that comes later never precedes one that was there.
<1>10. \A e \in events, f \in events' \ events : e.s = f.s => ~(f.k < e.k)
  BY <1>3, <1>6, <1>7
<1>11. NoSilentLoss'
  BY <1>1, <1>3, <1>4, <1>8 DEF RelayInv, RelayTypeOK, NoSilentLoss,
                                OnlyCommitted
<1>12. FirstDeliveryInOrder'
  BY <1>1, <1>4, <1>8, <1>10 DEF RelayInv, FirstDeliveryInOrder
<1>13. BatchInv'
  BY <1>1, <1>3, <1>4, <1>10 DEF RelayInv, BatchInv
<1>14. OnlyCommitted'
  BY <1>1, <1>3, <1>4 DEF RelayInv, OnlyCommitted
<1>15. QED
  BY <1>2, <1>9, <1>11, <1>12, <1>13, <1>14 DEF AllInv, RelayInv

(* Everything but an append leaves the store alone.                          *)
LEMMA KeepStoreInv ==
  ASSUME StoreInv, UNCHANGED storeVars
  PROVE  StoreInv' /\ UNCHANGED events
<1>1. StoreInv'
  BY StepStoreInv
<1>2. QED
  BY <1>1 DEF storeVars

(* Steps of the processes that publish and mark nothing.                     *)
LEMMA QuietRelayInv ==
  ASSUME AllInv, RelayTypeOK', UNCHANGED <<storeVars, topic, dlq>>,
         window' \subseteq window, outbox' \subseteq outbox,
         outbox \ published \subseteq outbox' \ published',
         NEW r \in Relays, \A q \in Relays \ {r} : relay'[q] = relay[q],
         relay'[r].batch \in {relay[r].batch, {}},
         relay'[r].done \in {relay[r].done, {}}
  PROVE  AllInv'
<1>1. StoreInv' /\ events' = events /\ Stored' = Stored /\ RelayInv
  BY KeepStoreInv DEF AllInv, storeVars, Stored
<1>2. NoSilentLoss' /\ FirstDeliveryInOrder' /\ OnlyCommitted'
  BY <1>1 DEF RelayInv, NoSilentLoss, FirstDeliveryInOrder, OnlyCommitted
<1>3. BatchInv'
  BY <1>1 DEF RelayInv, BatchInv
<1>4. QED
  BY <1>1, <1>2, <1>3 DEF AllInv, RelayInv

\* Publishing the lowest row of a batch, whatever becomes of the batch, keeps
\* streams in order at JetStream.
LEMMA PublishRowInv ==
  ASSUME AllInv, NEW r \in Relays, NEW e \in relay[r].batch, First(r, e),
         Publish(e), UNCHANGED <<storeVars, outbox, published>>, RelayTypeOK',
         \A q \in Relays \ {r} : relay'[q] = relay[q],
         relay'[r].batch \subseteq relay[r].batch \ {e},
         relay[r].batch \ {e} \subseteq relay'[r].batch
           \/ relay'[r].batch = {},
         relay'[r].done \subseteq relay[r].done \cup {e.g}
  PROVE  AllInv'
<1>1. StoreInv' /\ events' = events /\ StoreInv /\ RelayInv
  BY KeepStoreInv DEF AllInv, storeVars
<1>2. e \in events /\ events \subseteq Row
  BY <1>1 DEF RelayInv, BatchInv, StoreInv, StoreTypeOK
<1>3. Stored' = Stored \cup {e.g}
  BY <1>1, <1>2, PublishStores DEF RelayInv, OnlyCommitted
<1>4. \A x, y \in events : x.s = y.s /\ x.k < y.k => x.g < y.g
  BY <1>1 DEF StoreInv, StreamOrderIsGlobalOrder
<1>5. \A x \in events : x.g \in Nat
  BY <1>2 DEF Row
\* e goes first in its batch, so what precedes it is out already.
<1>6. \A f \in events : f.s = e.s /\ f.k < e.k => f.g \in Stored
  BY <1>1, <1>2, <1>4, <1>5 DEF RelayInv, BatchInv, First
<1>7. \A x, y \in events : x.g = y.g => x = y
  BY <1>1 DEF StoreInv, GlobalSeqUnique
<1>8. NoSilentLoss'
  BY <1>1, <1>3 DEF RelayInv, NoSilentLoss
<1>9. FirstDeliveryInOrder'
  BY <1>1, <1>2, <1>3, <1>6, <1>7 DEF RelayInv, FirstDeliveryInOrder
<1>10. BatchInv'
  BY <1>1, <1>3 DEF RelayInv, BatchInv
<1>11. OnlyCommitted'
  <2>1. window' \subseteq window \cup {e.g}
    BY DEF Publish, busVars
  <2>2. QED
    BY <1>1, <1>2, <1>3, <2>1 DEF RelayInv, OnlyCommitted
<1>12. QED
  BY <1>1, <1>8, <1>9, <1>10, <1>11 DEF AllInv, RelayInv

\* A step of a relay keeps the types of outbox, relays and JetStream.
LEMMA RelayTypeStep ==
  ASSUME AllInv, NEW r \in Relays, RelayStep(r)
  PROVE  RelayTypeOK'
<1>1. RelayTypeOK /\ relay \in [Relays -> Relay]
  BY DEF AllInv, RelayInv, RelayTypeOK
<1>2. events \subseteq Row /\ relay[r] \in Relay /\ Off \in Relay
  BY <1>1 DEF AllInv, StoreInv, StoreTypeOK, Relay, Off
<1>3. Released(r) \in Relays \cup {NoRelay}
  BY <1>1 DEF Released, RelayTypeOK
<1>4. Fault => faults' \in 0..MaxFaults
  BY <1>1, RelayAssumption DEF Fault, RelayTypeOK
<1>5. ASSUME NEW e \in relay[r].batch, Publish(e)
      PROVE  /\ topic' \subseteq Nat /\ dlq' \subseteq Nat
             /\ twice' \subseteq Nat /\ window' \subseteq Nat
  <2>1. e.g \in Nat
    BY <1>2 DEF Relay, Row
  <2>2. QED
    BY <1>1, <1>5, <2>1 DEF Publish, busVars, RelayTypeOK
<1>6. Exit(r) => relay' \in [Relays -> Relay] /\ lock' \in Relays \cup {NoRelay}
  BY <1>1, <1>2, <1>3 DEF Exit
<1>7. CASE Start(r)
  <2>1. [relay[r] EXCEPT !.pc = "standby"] \in Relay
    BY <1>2 DEF Relay
  <2>2. QED
    BY <1>1, <1>7, <2>1 DEF Start, RelayTypeOK, busVars
<1>8. CASE Acquire(r)
  <2>1. [relay[r] EXCEPT !.pc = "lead"] \in Relay
    BY <1>2 DEF Relay
  <2>2. QED
    BY <1>1, <1>8, <2>1 DEF Acquire, RelayTypeOK, busVars
<1>9. CASE Fetch(r)
  <2>1. PICK b \in Batches(Unpublished) :
          relay' = [relay EXCEPT ![r] = [pc |-> "publish", batch |-> b,
                                         done |-> {}]]
    BY <1>9 DEF Fetch
  <2>2. b \subseteq Row
    BY <1>2 DEF Batches, Unpublished
  <2>3. [pc |-> "publish", batch |-> b, done |-> {}] \in Relay
    BY <2>2 DEF Relay
  <2>4. QED
    BY <1>1, <1>9, <2>1, <2>3 DEF Fetch, RelayTypeOK, busVars
<1>10. CASE \E e \in relay[r].batch : PublishRow(r, e)
  <2>1. PICK e \in relay[r].batch : PublishRow(r, e)
    BY <1>10
  <2>2. e.g \in Nat
    BY <1>2 DEF Relay, Row
  <2>3. [relay[r] EXCEPT !.batch = @ \ {e}, !.done = @ \cup {e.g}] \in Relay
    BY <1>2, <2>2 DEF Relay
  <2>4. relay' \in [Relays -> Relay]
    BY <1>1, <2>1, <2>3 DEF PublishRow
  <2>5. QED
    BY <1>1, <1>5, <2>1, <2>4 DEF PublishRow, RelayTypeOK
<1>11. CASE MarkBatch(r)
  <2>1. [Off EXCEPT !.pc = "lead"] \in Relay
    BY DEF Off, Relay
  <2>2. QED
    BY <1>1, <1>11, <2>1 DEF MarkBatch, RelayTypeOK, busVars
<1>12. CASE SessionGone(r)
  BY <1>1, <1>6, <1>12 DEF SessionGone, RelayTypeOK, busVars
<1>13. CASE \E e \in relay[r].batch : PublishFails(r, e)
  BY <1>1, <1>4, <1>5, <1>6, <1>13 DEF PublishFails, RelayTypeOK, busVars
<1>14. CASE Purge(r)
  BY <1>1, <1>14 DEF Purge, RelayTypeOK, busVars
<1>15. CASE LoseSession(r)
  BY <1>1, <1>4, <1>15 DEF LoseSession, RelayTypeOK, busVars
<1>16. CASE Crash(r)
  BY <1>1, <1>4, <1>6, <1>16 DEF Crash, RelayTypeOK, busVars
<1>17. QED
  BY <1>7, <1>8, <1>9, <1>10, <1>11, <1>12, <1>13, <1>14, <1>15, <1>16
     DEF RelayStep, RelayWork

\* Every step of a relay, faults included, keeps the invariant.
LEMMA RelayStepInv ==
  ASSUME AllInv, NEW r \in Relays, RelayStep(r)
  PROVE  AllInv'
<1>1. RelayTypeOK' /\ relay \in [Relays -> Relay]
  BY RelayTypeStep DEF AllInv, RelayInv, RelayTypeOK
<1>2. relay[r] \in Relay
  BY <1>1
<1>3. Off.batch = {} /\ Off.done = {}
  BY DEF Off
<1>4. Exit(r) => /\ \A q \in Relays \ {r} : relay'[q] = relay[q]
                 /\ relay'[r].batch = {} /\ relay'[r].done = {}
  BY <1>1, <1>3 DEF Exit
<1>5. CASE Start(r) \/ Acquire(r)
  <2>1. /\ \A q \in Relays \ {r} : relay'[q] = relay[q]
        /\ relay'[r].batch = relay[r].batch /\ relay'[r].done = relay[r].done
    BY <1>1, <1>2, <1>5 DEF Start, Acquire, Relay
  <2>2. QED
    BY <1>1, <1>5, <2>1, QuietRelayInv DEF Start, Acquire, busVars
<1>6. CASE Fetch(r)
  <2>1. PICK b \in Batches(Unpublished) :
          relay' = [relay EXCEPT ![r] = [pc |-> "publish", batch |-> b,
                                         done |-> {}]]
    BY <1>6 DEF Fetch
  <2>2. /\ relay'[r].batch = b /\ relay'[r].done = {}
        /\ \A q \in Relays \ {r} : relay'[q] = relay[q]
    BY <1>1, <2>1
  <2>3. StoreInv' /\ events' = events /\ Stored' = Stored /\ StoreInv /\ RelayInv
    BY <1>6, KeepStoreInv DEF Fetch, AllInv, storeVars, busVars, Stored
  <2>4. /\ b \subseteq Unpublished
        /\ \A e \in b, f \in Unpublished : f.g < e.g => f \in b
    BY DEF Batches
  <2>5. \A e \in b : \A f \in events : f.s = e.s /\ f.k < e.k =>
          f \in b \/ f.g \in Stored
    BY <2>3, <2>4 DEF StoreInv, StreamOrderIsGlobalOrder, RelayInv, NoSilentLoss,
                      Unpublished
  <2>6. BatchInv'
    BY <2>2, <2>3, <2>4, <2>5 DEF RelayInv, BatchInv, Unpublished
  <2>7. NoSilentLoss' /\ FirstDeliveryInOrder' /\ OnlyCommitted'
    BY <1>6, <2>3 DEF Fetch, RelayInv, NoSilentLoss, FirstDeliveryInOrder,
                      OnlyCommitted, busVars
  <2>8. QED
    BY <1>1, <2>3, <2>6, <2>7 DEF AllInv, RelayInv
<1>7. CASE \E e \in relay[r].batch : PublishRow(r, e)
  <2>1. PICK e \in relay[r].batch : PublishRow(r, e)
    BY <1>7
  <2>2. /\ relay'[r].batch = relay[r].batch \ {e}
        /\ relay'[r].done = relay[r].done \cup {e.g}
        /\ \A q \in Relays \ {r} : relay'[q] = relay[q]
    BY <1>1, <1>2, <2>1 DEF PublishRow, Relay
  <2>3. QED
    BY <1>1, <2>1, <2>2, PublishRowInv DEF PublishRow
<1>8. CASE \E e \in relay[r].batch : PublishFails(r, e)
  <2>1. PICK e \in relay[r].batch : PublishFails(r, e)
    BY <1>8
  <2>2. CASE Publish(e)
    BY <1>1, <1>4, <2>1, <2>2, PublishRowInv DEF PublishFails
  <2>3. CASE UNCHANGED busVars
    BY <1>1, <1>4, <2>1, <2>3, QuietRelayInv DEF PublishFails, busVars
  <2>4. QED
    BY <2>1, <2>2, <2>3 DEF PublishFails
<1>9. CASE MarkBatch(r)
  <2>1. /\ \A q \in Relays \ {r} : relay'[q] = relay[q]
        /\ relay'[r].batch = {} /\ relay'[r].done = {}
    BY <1>1, <1>9 DEF MarkBatch, Off
  <2>2. StoreInv' /\ events' = events /\ Stored' = Stored /\ StoreInv /\ RelayInv
    BY <1>9, KeepStoreInv DEF MarkBatch, AllInv, storeVars, busVars, Stored
  <2>3. relay[r].done \subseteq Stored
    BY <2>2 DEF RelayInv, BatchInv
  <2>4. NoSilentLoss'
    BY <1>9, <2>2, <2>3 DEF MarkBatch, RelayInv, NoSilentLoss
  <2>5. BatchInv' /\ FirstDeliveryInOrder' /\ OnlyCommitted'
    BY <1>9, <2>1, <2>2 DEF MarkBatch, RelayInv, BatchInv, FirstDeliveryInOrder,
                            OnlyCommitted, busVars
  <2>6. QED
    BY <1>1, <2>2, <2>4, <2>5 DEF AllInv, RelayInv
<1>10. CASE SessionGone(r) \/ Crash(r)
  BY <1>1, <1>4, <1>10, QuietRelayInv DEF SessionGone, Crash, busVars
<1>11. CASE Purge(r) \/ LoseSession(r)
  BY <1>1, <1>11, QuietRelayInv DEF Purge, LoseSession, busVars
<1>12. QED
  BY <1>5, <1>6, <1>7, <1>8, <1>9, <1>10, <1>11 DEF RelayStep, RelayWork

\* Every step of writers, relays and the duplicate window keeps both
\* invariants.
LEMMA StepAllInv == AllInv /\ [Next]_allVars => AllInv'
<1> SUFFICES ASSUME AllInv, [Next]_allVars PROVE AllInv'
  OBVIOUS
<1>1. CASE AppendStep
  BY <1>1, AppendRelayInv
<1>2. CASE \E r \in Relays : RelayStep(r)
  BY <1>2, RelayStepInv
<1>3. ASSUME UNCHANGED <<storeVars, outbox, published, lock, relay, topic, dlq,
                         twice, faults>>,
             window' \subseteq window
      PROVE  AllInv'
  <2>1. StoreInv' /\ events' = events /\ Stored' = Stored /\ RelayInv
    BY <1>3, KeepStoreInv DEF AllInv, Stored
  <2>2. RelayTypeOK' /\ BatchInv' /\ OnlyCommitted'
    BY <1>3, <2>1 DEF RelayInv, RelayTypeOK, BatchInv, OnlyCommitted
  <2>3. NoSilentLoss' /\ FirstDeliveryInOrder'
    BY <1>3, <2>1 DEF RelayInv, NoSilentLoss, FirstDeliveryInOrder
  <2>4. QED
    BY <2>1, <2>2, <2>3 DEF AllInv, RelayInv
<1>4. CASE \E g \in window : Forget(g)
  BY <1>3, <1>4 DEF Forget
<1>5. CASE UNCHANGED allVars
  BY <1>3, <1>5 DEF allVars, relayVars, busVars
<1>6. QED
  BY <1>1, <1>2, <1>4, <1>5 DEF Next

\* Both invariants hold in every reachable state.
LEMMA SpecAllInv == Spec => []AllInv
<1>1. QED
  BY InitAllInv, StepAllInv, PTL DEF Spec

(* The invariant of outbox, relays and JetStream is one of every reachable   *)
(* state: that of the append path makes it inductive.                        *)
THEOREM RelayInvariant == Spec => []RelayInv
<1>1. AllInv => RelayInv
  BY DEF AllInv
<1>2. QED
  BY SpecAllInv, <1>1, PTL

(* Nothing committed is lost on its way to JetStream, whoever crashes.       *)
THEOREM NothingIsLost == Spec => []NoSilentLoss
<1>1. AllInv => NoSilentLoss
  BY DEF AllInv, RelayInv
<1>2. QED
  BY SpecAllInv, <1>1, PTL

(* Every stream reaches JetStream in stream_seq order.                       *)
THEOREM StreamsArriveInOrder == Spec => []FirstDeliveryInOrder
<1>1. AllInv => FirstDeliveryInOrder
  BY DEF AllInv, RelayInv
<1>2. QED
  BY SpecAllInv, <1>1, PTL
(* The abstract view of an append: heads only grow.                          *)
LEMMA AppendRefines ==
  ASSUME AllInv, AllInv', AppendStep
  PROVE  (\E s \in Streams : Delivery!Record(s)) \/ UNCHANGED <<heads, Sent>>
<1>1. /\ StoreInv /\ StoreNext /\ Stored' = Stored
      /\ heads \in [Streams -> Nat]
  BY DEF AllInv, AppendStep, StoreInv, StoreTypeOK, busVars, Stored
<1>2. Sent' = Sent
  <2>1. \A e \in events' \ events : e.g \notin Stored
    BY <1>1, NewRows DEF AllInv, RelayInv, OnlyCommitted
  <2>2. events \subseteq events'
    BY <1>1, NewRows
  <2>3. QED
    BY <1>1, <2>1, <2>2 DEF Sent
<1>3. PICK w \in Writers : StoreStep(w)
  BY <1>1 DEF StoreNext
<1>4. CASE Commit(w)
  <2>1. /\ tx[w].s \in Streams /\ tx[w].n \in Nat
        /\ tx[w].exp = heads[tx[w].s]
    BY <1>1, <1>4 DEF StoreInv, StoreTypeOK, OpenTxInv, Tx, Commit
  <2>2. heads' = [heads EXCEPT ![tx[w].s] = tx[w].exp + tx[w].n]
    BY <1>4 DEF Commit
  <2>3. CASE tx[w].n = 0
    BY <1>1, <1>2, <2>1, <2>2, <2>3
  <2>4. CASE tx[w].n > 0
    <3>1. heads'[tx[w].s] > heads[tx[w].s]
      BY <1>1, <2>1, <2>2, <2>4
    <3>2. heads' = [heads EXCEPT ![tx[w].s] = heads'[tx[w].s]]
      BY <1>1, <2>1, <2>2
    <3>3. QED
      BY <1>2, <2>1, <3>1, <3>2 DEF Delivery!Record
  <2>5. QED
    BY <2>1, <2>3, <2>4
<1>5. CASE UNCHANGED heads
  BY <1>2, <1>5
<1>6. QED
  BY <1>3, <1>4, <1>5
     DEF StoreStep, ReadHead, Reject, CompareAndSet, Conflict, InsertRow, Abort

(* The abstract view of a publish: the next event of its stream is sent, or  *)
(* nothing new happened.                                                     *)
LEMMA PublishRefines ==
  ASSUME AllInv, NEW r \in Relays, NEW e \in relay[r].batch, First(r, e),
         Publish(e), UNCHANGED storeVars
  PROVE  \/ \E s \in Streams : \E k \in 1..heads[s] : Delivery!Send(s, k)
         \/ UNCHANGED <<heads, Sent>>
<1>1. /\ events' = events /\ heads' = heads
      /\ e \in events /\ e \in Row /\ e.k \in 1..heads[e.s]
  BY DEF AllInv, RelayInv, BatchInv, StoreInv, StoreTypeOK, EventsInv, storeVars
<1>2. Stored' = Stored \cup {e.g}
  BY <1>1, PublishStores DEF AllInv, RelayInv, OnlyCommitted
<1>3. \A x, y \in events : x.g = y.g => x = y
  BY DEF AllInv, StoreInv, GlobalSeqUnique
<1>4. Sent' = Sent \cup {<<e.s, e.k>>}
  BY <1>1, <1>2, <1>3 DEF Sent
<1>5. CASE <<e.s, e.k>> \in Sent
  BY <1>1, <1>4, <1>5
<1>6. CASE <<e.s, e.k>> \notin Sent
  <2>1. ASSUME NEW j \in 1..(e.k - 1)
        PROVE  <<e.s, j>> \in Sent
    <3>1. e.s \in Streams /\ e.k \in Nat /\ heads[e.s] \in Nat /\ j \in Nat
      BY <1>1 DEF Row, AllInv, StoreInv, StoreTypeOK
    <3>2. j \in 1..heads[e.s] /\ j < e.k
      BY <1>1, <3>1
    <3>3. PICK f \in events : f.s = e.s /\ f.k = j
      BY <3>1, <3>2 DEF AllInv, StoreInv, StreamDense
    <3>4. f.g < e.g /\ f.g \in Nat /\ e.g \in Nat
      BY <1>1, <3>2, <3>3 DEF AllInv, StoreInv, StoreTypeOK,
                              StreamOrderIsGlobalOrder, Row
    <3>5. f.g \in Stored
      BY <1>1, <3>2, <3>3, <3>4 DEF AllInv, RelayInv, BatchInv, First
    <3>6. QED
      BY <3>3, <3>5 DEF Sent
  <2>2. Delivery!Send(e.s, e.k)
    BY <1>1, <1>4, <1>6, <2>1 DEF Delivery!Send
  <2>3. QED
    BY <1>1, <2>2 DEF Row
<1>7. QED
  BY <1>5, <1>6

\* Every step is a recording, a sending or a stutter of OrderedDelivery.
LEMMA StepRefines ==
  ASSUME AllInv, AllInv', [Next]_allVars
  PROVE  [Delivery!Next]_Delivery!vars
<1> USE DEF Delivery!Next, Delivery!vars
<1>1. CASE AppendStep
  BY <1>1, AppendRefines
<1>2. ASSUME UNCHANGED <<storeVars, topic, dlq>>
      PROVE  UNCHANGED <<heads, Sent>>
  BY <1>2 DEF storeVars, Sent, Stored
<1>3. CASE \E r \in Relays : RelayStep(r)
  <2>1. PICK r \in Relays : RelayStep(r)
    BY <1>3
  <2>2. CASE \E e \in relay[r].batch : PublishRow(r, e)
    BY <2>2, PublishRefines DEF PublishRow
  <2>3. CASE \E e \in relay[r].batch : PublishFails(r, e)
    BY <2>3, <1>2, PublishRefines DEF PublishFails, busVars
  <2>4. QED
    BY <1>2, <2>1, <2>2, <2>3
       DEF RelayStep, RelayWork, Start, Acquire, Fetch, MarkBatch, SessionGone,
           Purge, LoseSession, Crash, busVars
<1>4. CASE \E g \in window : Forget(g)
  BY <1>2, <1>4 DEF Forget
<1>5. CASE UNCHANGED allVars
  BY <1>2, <1>5 DEF allVars, relayVars, busVars
<1>6. QED
  BY <1>1, <1>3, <1>4, <1>5 DEF Next

(* The store, its outbox and any number of relays implement ordered delivery. *)
THEOREM RelayImplementsDelivery == Spec => DeliverySpec
<1>1. Init => Delivery!Init
  BY DEF Init, StoreInit, RelayInit, Stored, Sent, Delivery!Init
<1>2. QED
  BY <1>1, StepRefines, SpecAllInv, PTL DEF Spec, DeliverySpec, Delivery!Spec

-----------------------------------------------------------------------------
(* No duplicates before the first fault.                                     *)

\* Nothing is out or in flight initially.
LEMMA InitOnceInv == Init => OnceInv
BY DEF Init, RelayInit, OnceInv, Off, Stored

\* A step that publishes nothing, marks no more than it published and leaves the
\* relays but one alone.
LEMMA QuietOnceInv ==
  ASSUME RelayTypeOK, OnceInv, NEW r \in Relays,
         \A q \in Relays \ {r} : relay'[q] = relay[q],
         relay'[r].pc # "publish" => relay'[r].batch = {} /\ relay'[r].done = {},
         faults' = faults, Stored' = Stored, twice' = twice,
         faults = 0 =>
           /\ relay'[r].pc \in {"lead", "publish"} => lock' = r
           /\ \A q \in Relays \ {r} :
                relay[q].pc \in {"lead", "publish"} => lock' = q
           /\ \A e \in relay'[r].batch : e.g \notin Stored
           /\ \A g \in Stored \cap (outbox' \ published') :
                \E q \in Relays : g \in relay'[q].done
  PROVE  OnceInv'
BY DEF OnceInv

\* Committed rows enter the outbox with numbers JetStream has not seen.
LEMMA AppendOnceInv ==
  ASSUME AllInv, OnceInv, AppendStep
  PROVE  OnceInv'
<1>1. /\ outbox' = outbox \cup {e.g : e \in events' \ events}
      /\ UNCHANGED <<published, lock, relay, twice, faults>> /\ Stored' = Stored
  BY DEF AppendStep, busVars, Stored
<1>2. \A e \in events' \ events : e.g \notin Stored
  BY NewRows DEF AllInv, AppendStep, RelayInv, OnlyCommitted
<1>3. QED
  BY <1>1, <1>2 DEF OnceInv

\* A row goes out of one batch and into what that relay will mark.
LEMMA PublishOnceInv ==
  ASSUME AllInv, OnceInv, NEW r \in Relays, NEW e \in relay[r].batch,
         PublishRow(r, e)
  PROVE  OnceInv'
<1>1. /\ RelayTypeOK /\ BatchInv /\ OnlyCommitted
      /\ e \in events /\ e \in Row
      /\ \A x, y \in events : x.g = y.g => x = y
  <2>1. RelayTypeOK /\ BatchInv /\ OnlyCommitted
    BY DEF AllInv, RelayInv
  <2>2. events \subseteq Row /\ \A x, y \in events : x.g = y.g => x = y
    BY DEF AllInv, StoreInv, StoreTypeOK, GlobalSeqUnique
  <2>3. e \in events
    BY <2>1 DEF BatchInv
  <2>4. QED
    BY <2>1, <2>2, <2>3
<1>2. /\ relay[r].pc = "publish" /\ Publish(e)
      /\ UNCHANGED <<outbox, published, lock, faults>>
  BY DEF PublishRow, First
<1>3. /\ relay'[r].pc = "publish"
      /\ relay'[r].batch = relay[r].batch \ {e}
      /\ relay'[r].done = relay[r].done \cup {e.g}
      /\ \A q \in Relays \ {r} : relay'[q] = relay[q]
  <2>1. relay \in [Relays -> Relay]
        /\ relay' = [relay EXCEPT ![r].batch = @ \ {e}, ![r].done = @ \cup {e.g}]
    BY <1>1 DEF RelayTypeOK, PublishRow
  <2>2. relay'[r] = [relay[r] EXCEPT !.batch = @ \ {e}, !.done = @ \cup {e.g}]
        /\ \A q \in Relays \ {r} : relay'[q] = relay[q]
    BY <2>1
  <2>3. QED
    BY <1>2, <2>1, <2>2 DEF Relay
<1>4. Stored' = Stored \cup {e.g}
  BY <1>1, <1>2, PublishStores DEF OnlyCommitted
<1>5. CASE faults = 0
  <2>1. /\ lock = r /\ twice = {}
        /\ \A q \in Relays \ {r} : relay[q].pc \notin {"lead", "publish"}
        /\ \A q \in Relays \ {r} : relay[q].batch = {}
    BY <1>2, <1>5 DEF OnceInv
  <2>2. \A f \in relay[r].batch : f.g \notin Stored
    BY <1>5 DEF OnceInv
  <2>3. twice' = {}
    BY <1>2, <2>1, <2>2 DEF Publish, busVars
  <2>4. \A f \in relay[r].batch \ {e} : f \in events /\ f.g # e.g
    BY <1>1 DEF BatchInv
  <2>5. \A g \in Stored' \cap (outbox' \ published') :
          \E q \in Relays : g \in relay'[q].done
    <3> SUFFICES ASSUME NEW g \in Stored' \cap (outbox' \ published')
                 PROVE  \E q \in Relays : g \in relay'[q].done
      OBVIOUS
    <3>1. CASE g = e.g
      BY <1>3, <3>1
    <3>2. CASE g # e.g
      <4>1. g \in Stored \cap (outbox \ published)
        BY <1>2, <1>4, <3>2
      <4>2. PICK q \in Relays : g \in relay[q].done
        BY <1>5, <4>1 DEF OnceInv
      <4>3. QED
        BY <1>3, <4>2
    <3>3. QED
      BY <3>1, <3>2
  <2>6. \A q \in Relays : \A f \in relay'[q].batch : f.g \notin Stored'
    BY <1>3, <1>4, <2>1, <2>2, <2>4
  <2>7. \A q \in Relays :
          relay'[q].pc # "publish" => relay'[q].batch = {} /\ relay'[q].done = {}
    BY <1>3 DEF OnceInv
  <2>8. \A q \in Relays : relay'[q].pc \in {"lead", "publish"} => lock' = q
    BY <1>2, <1>3, <2>1
  <2>9. QED
    BY <2>3, <2>5, <2>6, <2>7, <2>8 DEF OnceInv
<1>6. CASE faults # 0
  BY <1>2, <1>3, <1>6 DEF OnceInv
<1>7. QED
  BY <1>5, <1>6

\* What a relay does: a row is fetched only while no relay holds one.
LEMMA RelayOnceInv ==
  ASSUME AllInv, OnceInv, NEW r \in Relays, RelayStep(r)
  PROVE  OnceInv'
<1>1. /\ RelayTypeOK /\ relay \in [Relays -> Relay] /\ r # NoRelay
      /\ published \subseteq outbox /\ NoRelay \notin Relays
      /\ faults \in Nat
  BY RelayAssumption DEF AllInv, RelayInv, RelayTypeOK
<1>2. CASE Start(r)
  <2>1. /\ relay[r].pc = "off" /\ relay'[r] = [relay[r] EXCEPT !.pc = "standby"]
        /\ \A q \in Relays \ {r} : relay'[q] = relay[q]
        /\ UNCHANGED <<outbox, published, lock, twice, faults, topic, dlq>>
    BY <1>1, <1>2 DEF Start, busVars
  <2>2. /\ relay'[r].pc = "standby" /\ relay'[r].batch = {}
        /\ relay'[r].done = {} /\ relay[r].done = {}
    BY <1>1, <2>1 DEF Relay, OnceInv
  <2>3. Stored' = Stored
    BY <2>1 DEF Stored
  <2>4. \A q \in Relays : relay'[q].done = relay[q].done
    BY <2>1, <2>2
  <2>5. faults = 0 =>
          /\ \A q \in Relays \ {r} : relay[q].pc \in {"lead", "publish"} => lock = q
          /\ \A g \in Stored \cap (outbox \ published) :
               \E q \in Relays : g \in relay[q].done
    BY DEF OnceInv
  <2>6. faults = 0 =>
          /\ relay'[r].pc \in {"lead", "publish"} => lock' = r
          /\ \A q \in Relays \ {r} :
               relay[q].pc \in {"lead", "publish"} => lock' = q
          /\ \A e \in relay'[r].batch : e.g \notin Stored
          /\ \A g \in Stored \cap (outbox' \ published') :
               \E q \in Relays : g \in relay'[q].done
    BY <2>1, <2>2, <2>4, <2>5
  <2>7. /\ relay'[r].pc # "publish" => relay'[r].batch = {} /\ relay'[r].done = {}
        /\ faults' = faults /\ twice' = twice
    BY <2>1, <2>2
  <2>8. QED
    BY <1>1, <2>1, <2>3, <2>6, <2>7, QuietOnceInv
<1>3. CASE Acquire(r)
  <2>1. /\ relay[r].pc = "standby" /\ relay'[r] = [relay[r] EXCEPT !.pc = "lead"]
        /\ \A q \in Relays \ {r} : relay'[q] = relay[q]
        /\ UNCHANGED <<outbox, published, twice, faults, topic, dlq>>
        /\ lock = NoRelay /\ lock' = r
    BY <1>1, <1>3 DEF Acquire, busVars
  <2>2. /\ relay'[r].pc = "lead" /\ relay'[r].batch = {}
        /\ relay'[r].done = {} /\ relay[r].done = {}
    BY <1>1, <2>1 DEF Relay, OnceInv
  <2>3. Stored' = Stored
    BY <2>1 DEF Stored
  <2>4. \A q \in Relays : relay'[q].done = relay[q].done
    BY <2>1, <2>2
  <2>5. faults = 0 => \A q \in Relays : relay[q].pc \notin {"lead", "publish"}
    BY <1>1, <2>1 DEF OnceInv
  <2>6. faults = 0 => \A g \in Stored \cap (outbox \ published) :
                        \E q \in Relays : g \in relay[q].done
    BY DEF OnceInv
  <2>7. faults = 0 =>
          /\ relay'[r].pc \in {"lead", "publish"} => lock' = r
          /\ \A q \in Relays \ {r} :
               relay[q].pc \in {"lead", "publish"} => lock' = q
          /\ \A e \in relay'[r].batch : e.g \notin Stored
          /\ \A g \in Stored \cap (outbox' \ published') :
               \E q \in Relays : g \in relay'[q].done
    BY <2>1, <2>2, <2>4, <2>5, <2>6
  <2>8. /\ relay'[r].pc # "publish" => relay'[r].batch = {} /\ relay'[r].done = {}
        /\ faults' = faults /\ twice' = twice
    BY <2>1, <2>2
  <2>9. QED
    BY <1>1, <2>1, <2>3, <2>7, <2>8, QuietOnceInv
<1>4. CASE Fetch(r)
  <2>1. PICK b \in Batches(Unpublished) :
          relay' = [relay EXCEPT ![r] = [pc |-> "publish", batch |-> b,
                                         done |-> {}]]
    BY <1>4 DEF Fetch
  <2>2. /\ relay[r].pc = "lead" /\ lock = r
        /\ UNCHANGED <<outbox, published, lock, twice, faults, topic, dlq>>
    BY <1>4 DEF Fetch, busVars
  <2>3. /\ relay'[r].pc = "publish" /\ relay'[r].batch = b
        /\ relay'[r].done = {} /\ relay[r].done = {}
        /\ \A q \in Relays \ {r} : relay'[q] = relay[q]
    BY <1>1, <2>1, <2>2 DEF OnceInv
  <2>4. faults = 0 => \A q \in Relays : relay[q].done = {}
    BY <2>2, <2>3 DEF OnceInv
  <2>5. \A e \in b : e.g \in outbox \ published
    BY DEF Batches, Unpublished
  <2>6. faults = 0 => \A g \in Stored : g \notin outbox \ published
    BY <2>4 DEF OnceInv
  <2>7. Stored' = Stored
    BY <2>2 DEF Stored
  <2>8. QED
    BY <1>1, <2>2, <2>3, <2>5, <2>6, <2>7, QuietOnceInv DEF OnceInv
<1>5. CASE \E e \in relay[r].batch : PublishRow(r, e)
  BY <1>5, PublishOnceInv
<1>6. CASE MarkBatch(r)
  <2>1. /\ relay[r].pc = "publish" /\ lock = r
        /\ published' = published \cup (relay[r].done \cap outbox)
        /\ relay'[r] = [Off EXCEPT !.pc = "lead"]
        /\ \A q \in Relays \ {r} : relay'[q] = relay[q]
        /\ UNCHANGED <<outbox, lock, twice, faults, topic, dlq>>
    BY <1>1, <1>6 DEF MarkBatch, busVars
  <2>2. /\ relay'[r].pc = "lead" /\ relay'[r].batch = {} /\ relay'[r].done = {}
    BY <2>1 DEF Off
  <2>3. Stored' = Stored
    BY <2>1 DEF Stored
  <2>4. ASSUME faults = 0 PROVE Stored \cap (outbox' \ published') = {}
    <3>1. \A q \in Relays \ {r} : relay[q].done = {}
      BY <2>1, <2>4 DEF OnceInv
    <3>2. \A g \in Stored \cap (outbox \ published) : g \in relay[r].done
      BY <2>4, <3>1 DEF OnceInv
    <3>3. QED
      BY <2>1, <3>2
  <2>5. QED
    BY <1>1, <2>1, <2>2, <2>3, <2>4, QuietOnceInv DEF OnceInv
<1>7. CASE SessionGone(r)
  <2>1. /\ relay[r].pc \in {"lead", "publish"} /\ lock # r
        /\ relay'[r] = Off /\ \A q \in Relays \ {r} : relay'[q] = relay[q]
        /\ UNCHANGED <<outbox, published, twice, faults, topic, dlq>>
    BY <1>1, <1>7 DEF SessionGone, Exit, busVars
  <2>2. faults # 0
    BY <2>1 DEF OnceInv
  <2>3. relay'[r].batch = {} /\ relay'[r].done = {}
    BY <2>1 DEF Off
  <2>4. QED
    BY <2>1, <2>2, <2>3 DEF OnceInv
<1>8. CASE Purge(r)
  <2>1. /\ UNCHANGED <<lock, relay, twice, faults, topic, dlq>>
        /\ outbox' \ published' \subseteq outbox \ published
    BY <1>8 DEF Purge, busVars
  <2>2. Stored' = Stored
    BY <2>1 DEF Stored
  <2>3. QED
    BY <2>1, <2>2 DEF OnceInv
<1>9. CASE LoseSession(r)
  <2>1. faults' # 0 /\ relay' = relay
    BY <1>1, <1>9 DEF LoseSession, Fault
  <2>2. QED
    BY <2>1 DEF OnceInv
<1>10. CASE Crash(r) \/ \E e \in relay[r].batch : PublishFails(r, e)
  <2>1. /\ faults' # 0 /\ relay'[r] = Off
        /\ \A q \in Relays \ {r} : relay'[q] = relay[q]
    BY <1>1, <1>10 DEF Crash, PublishFails, Fault, Exit
  <2>2. relay'[r].batch = {} /\ relay'[r].done = {}
    BY <2>1 DEF Off
  <2>3. QED
    BY <2>1, <2>2 DEF OnceInv
<1>11. QED
  BY <1>2, <1>3, <1>4, <1>5, <1>6, <1>7, <1>8, <1>9, <1>10
     DEF RelayStep, RelayWork

\* Every step keeps what makes OnceWithoutFaults inductive.
LEMMA StepOnceInv == AllInv /\ OnceInv /\ [Next]_allVars => OnceInv'
<1> SUFFICES ASSUME AllInv, OnceInv, [Next]_allVars PROVE OnceInv'
  OBVIOUS
<1>1. ASSUME UNCHANGED <<outbox, published, lock, relay, topic, dlq, twice, faults>>
      PROVE  OnceInv'
  BY <1>1 DEF OnceInv, Stored
<1>2. CASE \E g \in window : Forget(g)
  BY <1>1, <1>2 DEF Forget
<1>3. CASE UNCHANGED allVars
  BY <1>1, <1>3 DEF allVars, relayVars, busVars
<1>4. QED
  BY <1>2, <1>3, AppendOnceInv, RelayOnceInv DEF Next

(* Only a fault makes a duplicate: while no process died, no session was lost *)
(* and no publish failed, JetStream stores every row at most once, however    *)
(* short its duplicate window is.                                             *)
THEOREM StoredOnceWithoutFaults == Spec => []OnceWithoutFaults
<1>1. OnceInv => OnceWithoutFaults
  BY DEF OnceInv, OnceWithoutFaults
<1>2. QED
  BY <1>1, SpecAllInv, InitOnceInv, StepOnceInv, PTL DEF Spec
=============================================================================
