---------------------------- MODULE MCWatchpoints ----------------------------
(***************************************************************************)
(* Instances of Watchpoints for TLC.                                       *)
(***************************************************************************)
EXTENDS Watchpoints, TLC

CONSTANTS c1, c2, ctl, d1, zero, none

MCWorkers == {c1, c2}
MCData    == {d1}
MCReadWrite == {<<d1, TRUE, TRUE>>, <<zero, FALSE, FALSE>>}
MCMasked  == {d1} \X {TRUE} \X BOOLEAN
MCNumHalf == 2^29
Symmetry  == Permutations(MCWorkers)
=============================================================================
