----------------------------- MODULE MCTickEngine -----------------------------
(* Three ticks by two workers, each with its shards, and two faults.         *)
EXTENDS TickEngine
=============================================================================
