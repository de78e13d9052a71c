------------------------------ MODULE MCConsole ------------------------------
(***************************************************************************)
(* An instance of Console for TLC.                                         *)
(***************************************************************************)
EXTENDS Console, TLC

CONSTANTS s1, s2, a1, a2, none

MCShells == {s1, s2}
MCAddr   == {a1, a2}
MCLists  == {<<a1, a2>>, <<a2>>}
MCParams == {-2}
=============================================================================
