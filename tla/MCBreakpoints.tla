---------------------------- MODULE MCBreakpoints ----------------------------
(***************************************************************************)
(* Instances of Breakpoints for TLC.                                       *)
(***************************************************************************)
EXTENDS Breakpoints, TLC

CONSTANTS t1, t2, a1, a2, a3, none

MCThreads == {t1, t2}
MCAddr    == {a1, a2, a3}
MCLists   == {<<a1, a2>>, <<a3>>}
MCList    == {<<a1, a2, a3>>}
MCParams  == {-2, 2}
MCNoParams == {-1}
Symmetry  == Permutations(MCThreads)
=============================================================================
