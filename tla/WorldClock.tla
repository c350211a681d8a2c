------------------------------ MODULE WorldClock ------------------------------
(* What the tick engines promise the rest of the system: world time advances *)
(* by one tick at a time, each of them run before the clock moves on.        *)
EXTENDS Naturals

VARIABLES
  now,      \* the tick the world is at
  running   \* has it started?

vars == <<now, running>>

Init == now = 0 /\ running = FALSE

Begin == ~running /\ running' = TRUE /\ now' = now

Finish == running /\ running' = FALSE /\ now' = now + 1

Next == Begin \/ Finish

Spec == Init /\ [][Next]_vars
=============================================================================
