------------------------------- MODULE Sampler -------------------------------
(***************************************************************************)
(* What the breakpoint engine promises to the rest of the kernel, without  *)
(* its table, its lock and the order in which things are done: a set of    *)
(* instructions with an int3, and a number of threads at work in the       *)
(* detector.  Module Breakpoints implements it.                            *)
(*                                                                         *)
(* The promise about the instructions ends when an int3 is planted in an   *)
(* engine that is stopping (Break), that about the threads never.          *)
(***************************************************************************)
EXTENDS Naturals

CONSTANT Addr

VARIABLES
  phase,      \* "off", "on", "stopping"
  list,       \* the instructions that may be sampled
  planted,    \* those with an int3 in their place
  busy,       \* threads at work
  broken

vars == <<phase, list, planted, busy, broken>>

Init == phase = "off" /\ list = {} /\ planted = {} /\ busy = 0 /\ broken = FALSE

\* The int3s are s, as long as the promise holds.
Planted(s) == planted' = s \/ broken'

Start ==
  /\ phase = "off" /\ phase' = "on" /\ busy = 0
  /\ list' \in SUBSET Addr
  /\ Planted({})
  /\ UNCHANGED <<busy, broken>>

\* A thread meets an int3 and takes it out, whatever the phase.
TakeOut ==
  /\ \E a \in planted : Planted(planted \ {a})
  /\ UNCHANGED <<phase, list, busy, broken>>

Enter ==
  /\ phase = "on" /\ busy' = busy + 1
  /\ UNCHANGED <<phase, list, planted, broken>>

Plant ==
  /\ phase = "on"
  /\ \E a \in list \ planted : Planted(planted \cup {a})
  /\ UNCHANGED <<phase, list, busy, broken>>

Leave ==
  /\ busy > 0 /\ busy' = busy - 1
  /\ UNCHANGED <<phase, list, planted, broken>>

\* From here on nobody enters ...
Stop ==
  /\ phase = "on" /\ phase' = "stopping"
  /\ Planted({})
  /\ UNCHANGED <<list, busy, broken>>

\* ... and when all have left, it is off.
Halt ==
  /\ phase = "stopping" /\ phase' = "off" /\ busy = 0
  /\ list' = {}
  /\ UNCHANGED <<planted, busy, broken>>

\* An int3 planted by a thread that does not know yet that the engine stops; what
\* becomes of the int3s afterwards.
Break ==
  /\ phase = "stopping" /\ busy > 0
  /\ broken' = TRUE
  /\ UNCHANGED <<phase, list, busy>>

Drift == broken /\ UNCHANGED <<phase, list, busy, broken>>

Next == Start \/ TakeOut \/ Enter \/ Plant \/ Leave \/ Stop \/ Halt \/ Break \/ Drift

Spec == Init /\ [][Next]_vars
=============================================================================
