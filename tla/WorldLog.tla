-------------------------------- MODULE WorldLog --------------------------------
(***************************************************************************)
(* What the services of the town share: the world's log, as the relay      *)
(* hands it to every durable consumer (its order is the global sequence of *)
(* EventStore), a script of what the rest of the world writes into it, and *)
(* a budget of faults.                                                     *)
(*                                                                         *)
(* The relay may lag on any stream, so a consumer of several durables may  *)
(* meet their messages in any order; within one durable they keep theirs.  *)
(***************************************************************************)
EXTENDS Integers, Sequences, FiniteSets

CONSTANTS
  Nothing,
  People,        \* actor ids, numbered in their sorted order
  Scenes,        \* bound: name: [script, faults, ...], what may happen in a behaviour
  MaxLog         \* bound: events of the log

ASSUME LogAssumption ==
  /\ People \subseteq Nat /\ IsFiniteSet(People) /\ MaxLog \in Nat
  /\ \A s \in DOMAIN Scenes : Scenes[s].faults \in Nat

VARIABLES
  scene,
  log,           \* every event, in the order of global_seq
  script,        \* events the rest of the world has still to write
  faults         \* history: faults so far

logVars == <<scene, log, script, faults>>

Scene == Scenes[scene]

LogInit ==
  /\ scene \in DOMAIN Scenes
  /\ log = <<>> /\ script = Scene.script /\ faults = 0

Ids == 1..Len(log)

Of(types) == {i \in Ids : log[i].type \in types}

\* The next message of a durable that has acknowledged all up to pos.
Pending(types, pos) == {i \in Of(types) : i > pos}

Earliest(S) == CHOOSE i \in S : \A j \in S : i <= j

Latest(S) == CHOOSE i \in S : \A j \in S : j <= i

\* append: what goes wrong before the commit leaves no trace.
Write(events) ==
  /\ Len(log) + Len(events) <= MaxLog
  /\ log' = log \o events

Fault == faults < Scene.faults /\ faults' = faults + 1

\* Workers, engine and actors go on without the services modelled here.
WorldWrites ==
  /\ script # <<>>
  /\ Write(<<Head(script)>>) /\ script' = Tail(script)
  /\ UNCHANGED <<scene, faults>>
=================================================================================
