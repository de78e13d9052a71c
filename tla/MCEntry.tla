------------------------------- MODULE MCEntry -------------------------------
(***************************************************************************)
(* An instance of Entry for TLC.  A byte is a digit of base 16.  The call  *)
(* of do_int3 lies across a page boundary, that of do_debug does not.      *)
(***************************************************************************)
EXTENDS Entry

MCText     == 0..29
MCOriginal ==
  LET bytes == <<1, 14, 2, 0, 3, 0, 5, 14, 1, 2, 3, 4, 9, 9, 9,
                 7, 14, 6, 0, 0, 1, 5, 14, 8, 7, 6, 5, 9, 9, 9>>
  IN [a \in MCText |-> bytes[a + 1]]
MCGate     == [int3 |-> 0, debug |-> 15]
MCCall     == [int3 |-> 7, debug |-> 22]
MCKernel   == [int3 |-> 12 + 17185, debug |-> 27 + 22136]
MCOurs     == [int3 |-> 40960, debug |-> 41235]
MCWords    == 0..54
MCTrapSps  == {51, 52}
=============================================================================
