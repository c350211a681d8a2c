---------------------------- MODULE MCOutboxRelay ----------------------------
(* Two writers, two relays, two rows of which the gate refuses the second.   *)
EXTENDS OutboxRelay, TLC

MCInvalid == {2}

Symmetry == Permutations(Writers) \cup Permutations(Relays)
=============================================================================
