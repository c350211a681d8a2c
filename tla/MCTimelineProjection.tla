------------------------ MODULE MCTimelineProjection ------------------------
(* Two players; four events that come one by one, or three that do not.     *)
EXTENDS TimelineProjection, TLC

Symmetry == Permutations(Players)
=============================================================================
