CONSTANTS
  c1 = c1  c2 = c2  ctl = ctl  d1 = d1  zero = zero  none = none
  Workers <- MCWorkers
  Ctl = ctl
  NSlots = 2
  Data <- MCData
  Zero = zero
  OtherCauses = TRUE
  NumHalf = 4
  MaxCount = 4
  NoNum = none
  Accesses <- MCReadWrite
CHECK_DEADLOCK FALSE
SPECIFICATION Spec
SYMMETRY Symmetry
INVARIANTS TypeOK RegistersFollowTable NoLeak
PROPERTIES RemovesOwnWatch ReportsTheCause
