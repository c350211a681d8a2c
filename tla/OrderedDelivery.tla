--------------------------- MODULE OrderedDelivery ---------------------------
(***************************************************************************)
(* What the event store and its relay promise together: streams only grow, *)
(* and every event of a stream is sent, in stream order (or put aside in   *)
(* the dead-letter stream when its turn comes).  Writers, transactions,    *)
(* batches, leaders and message ids are invisible here.                    *)
(***************************************************************************)
EXTENDS Integers

CONSTANT Streams

VARIABLES
  head,   \* how many events each stream has
  sent    \* <<stream, stream_seq>> of the events sent at least once

vars == <<head, sent>>

Init ==
  /\ head = [s \in Streams |-> 0]
  /\ sent = {}

Record(s) ==
  /\ head'[s] > head[s]
  /\ head' = [head EXCEPT ![s] = head'[s]]
  /\ UNCHANGED sent

Send(s, k) ==
  /\ k \in 1..head[s]
  /\ <<s, k>> \notin sent
  /\ \A j \in 1..(k - 1) : <<s, j>> \in sent
  /\ sent' = sent \cup {<<s, k>>}
  /\ UNCHANGED head

Next == \E s \in Streams : Record(s) \/ \E k \in 1..head[s] : Send(s, k)

Spec == Init /\ [][Next]_vars
=============================================================================
