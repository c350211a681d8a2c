--------------------------- MODULE MCTimelineReplay ---------------------------
(* Every log of up to five events about one actor and two players.           *)
EXTENDS TimelineReplay, TLC

Symmetry == Permutations(Players)
=============================================================================
