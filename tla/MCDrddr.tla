------------------------------- MODULE MCDrddr -------------------------------
(***************************************************************************)
(* Instances of Drddr for TLC.                                             *)
(***************************************************************************)
EXTENDS Drddr, TLC

CONSTANTS c1, c2, controller, a1, d1, zero, none

MCWorkers == {c1, c2}
MCAddr    == {a1}
MCLists   == {<<a1>>}
MCParams  == {2}
MCNoParams == {-1}
MCData    == {d1}
MCWrites  == {<<d1, TRUE, FALSE>>}
MCNumHalf == 2^29
Symmetry  == Permutations(MCWorkers)
=============================================================================
