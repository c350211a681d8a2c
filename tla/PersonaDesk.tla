------------------------------ MODULE PersonaDesk ------------------------------
(***************************************************************************)
(* The persona studio (gateway: admin.py) and what the tick worker makes   *)
(* of its files (lf_actor/reload.py).  A persona is a file: retiring it    *)
(* moves the file away and then appends the event that makes the read      *)
(* models forget the actor; returning is the way back.  If the append      *)
(* fails the file is moved back.                                           *)
(*                                                                         *)
(* Everything up to the append runs without an await; requests interleave  *)
(* while one of them waits for the event store.                            *)
(***************************************************************************)
EXTENDS Integers, Sequences, FiniteSets

CONSTANTS
  Actors,     \* numbered in the order of their file names
  MaxActors,  \* LF_MAX_ACTORS
  MaxFaults   \* bound on everything that goes wrong

ASSUME DeskAssumption ==
  /\ Actors \subseteq Nat
  /\ MaxActors \in Nat \ {0} /\ MaxFaults \in Nat

VARIABLES
  root,      \* personas with a file where the worker looks
  dormant,   \* of these, the ones that are switched off
  shelf,     \* how many files of a persona are in retired/
  edition,   \* the newest modification time
  waiting,   \* requests that wait for their append
  life,      \* the actors' streams
  errands,   \* what the studio is still going to be asked
  faults,
  overlap,   \* history: two requests about one persona at once
  anew       \* history: personas created while the world knew them as retired

deskVars == <<root, dormant, shelf, edition, waiting, errands, overlap, anew>>

Errand == [op : {"put", "switch", "delete", "restore", "purge"}, who : Actors]

LifeType == {"identity", "retired", "returned", "shift", "reply", "comment",
             "dm", "act", "burst", "advanced", "achieved"}

DeskTypeOK ==
  /\ root \subseteq Actors /\ dormant \subseteq Actors
  /\ shelf \in [Actors -> Nat] /\ edition \in Nat
  /\ waiting \subseteq [op : {"delete", "restore"}, who : Actors]
  /\ errands \subseteq Errand
  /\ \A a \in Actors : \A n \in 1..Len(life[a]) : life[a][n].type \in LifeType
  /\ faults \in 0..MaxFaults
  /\ overlap \in BOOLEAN /\ anew \subseteq Actors

\* of: what an event answers or is about; what: a number that says more.
Entry(type, t, of, what) == [type |-> type, tick |-> t, of |-> of, what |-> what]

Fault == faults < MaxFaults /\ faults' = faults + 1

LifeCycle(a) ==
  SelectSeq(life[a], LAMBDA e : e.type \in {"retired", "returned"})

Gone(a) ==
  /\ LifeCycle(a) # <<>>
  /\ LifeCycle(a)[Len(LifeCycle(a))].type = "retired"

Asked(op, a) == [op |-> op, who |-> a]

Answer(op, a) ==
  /\ Asked(op, a) \in errands
  /\ errands' = errands \ {Asked(op, a)}

\* PUT: a new file, or the old one with its author and its unknown keys.
PutPersona(a) ==
  /\ Answer("put", a)
  /\ root' = root \cup {a}
  /\ anew' = IF Gone(a) /\ a \notin root THEN anew \cup {a} ELSE anew
  /\ overlap' = (overlap \/ \E w \in waiting : w.who = a)
  /\ dormant' = dormant \ {a}
  /\ edition' = edition + 1
  /\ UNCHANGED <<shelf, waiting, life, faults>>

\* PUT with active = false.
SwitchOff(a) ==
  /\ a \in root
  /\ Answer("switch", a)
  /\ dormant' = dormant \cup {a}
  /\ edition' = edition + 1
  /\ UNCHANGED <<root, shelf, waiting, life, faults, overlap, anew>>

\* DELETE, first half: 404 and 410 change nothing.
DeletePersona(a) ==
  /\ a \in root
  /\ Answer("delete", a)
  /\ root' = root \ {a}
  /\ shelf' = [shelf EXCEPT ![a] = @ + 1]
  /\ waiting' = waiting \cup {Asked("delete", a)}
  /\ overlap' = (overlap \/ \E w \in waiting : w.who = a)
  /\ UNCHANGED <<dormant, edition, life, faults, anew>>

\* POST restore, first half: 409 while a file is there, 404 without one.
RestorePersona(a) ==
  /\ a \notin root /\ shelf[a] > 0
  /\ Answer("restore", a)
  /\ root' = root \cup {a}
  /\ shelf' = [shelf EXCEPT ![a] = @ - 1]
  /\ waiting' = waiting \cup {Asked("restore", a)}
  /\ overlap' = (overlap \/ \E w \in waiting : w.who = a)
  /\ UNCHANGED <<dormant, edition, life, faults, anew>>

\* DELETE of an archived file, for good.
PurgeRetired(a) ==
  /\ shelf[a] > 0
  /\ Answer("purge", a)
  /\ shelf' = [shelf EXCEPT ![a] = @ - 1]
  /\ overlap' = (overlap \/ \E w \in waiting : w.who = a)
  /\ UNCHANGED <<root, dormant, edition, waiting, life, faults, anew>>

\* The append succeeds, perhaps after one conflict with the actor's own tick.
AppendDone(w) ==
  /\ w \in waiting
  /\ life' = [life EXCEPT ![w.who] =
                Append(@, Entry(IF w.op = "delete" THEN "retired" ELSE "returned",
                                0, w.who, 0))]
  /\ waiting' = waiting \ {w}
  /\ UNCHANGED <<root, dormant, shelf, edition, errands, faults, overlap, anew>>

\* Mutant: a failed append leaves the file where it was moved.
PutBackNot(w) == UNCHANGED <<root, shelf>>

\* The file goes back; what lies there by now is overwritten.
PutBack(w) ==
  IF w.op = "delete"
  THEN /\ root' = root \cup {w.who}
       /\ shelf' = [shelf EXCEPT ![w.who] = @ - 1]
  ELSE /\ root' = root \ {w.who}
       /\ shelf' = [shelf EXCEPT ![w.who] = @ + 1]

\* It cannot go back when another request has taken it meanwhile.
Movable(w) == IF w.op = "delete" THEN shelf[w.who] > 0 ELSE w.who \in root

\* The append fails: no connection, or a second conflict.
AppendFails(w) ==
  /\ w \in waiting
  /\ Fault
  /\ IF Movable(w) THEN PutBack(w) ELSE UNCHANGED <<root, shelf>>
  /\ waiting' = waiting \ {w}
  /\ UNCHANGED <<dormant, edition, life, errands, overlap, anew>>

\* The gateway ends while requests wait.
DeskCrash ==
  /\ waiting # {}
  /\ Fault
  /\ waiting' = {} /\ overlap' = TRUE
  /\ UNCHANGED <<root, dormant, shelf, edition, life, errands, anew>>

DeskInit(cast) ==
  /\ root = cast /\ dormant = {} /\ shelf = [a \in Actors |-> 0]
  /\ edition = 0 /\ waiting = {} /\ life = [a \in Actors |-> <<>>]
  /\ overlap = FALSE /\ anew = {}

DeskStep ==
  \/ \E a \in Actors :
       \/ PutPersona(a) \/ SwitchOff(a)
       \/ DeletePersona(a) \/ RestorePersona(a) \/ PurgeRetired(a)
  \/ \E w \in waiting : AppendDone(w) \/ AppendFails(w)
  \/ DeskCrash

-----------------------------------------------------------------------------
(* What the worker reads.                                                   *)

\* scan_fingerprint: the names and the newest modification time.
Fingerprint == [names |-> root, newest |-> edition]

\* load_personas, cut to the size of the world: a file that sleeps is skipped.
Roster ==
  {a \in root \ dormant :
     Cardinality({b \in root \ dormant : b < a}) < MaxActors}
=============================================================================
