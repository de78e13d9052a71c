CONSTANTS
  c1 = c1  c2 = c2  ctl = ctl  d1 = d1  zero = zero  none = none
  Workers <- MCWorkers
  Ctl = ctl
  NSlots = 1
  Data <- MCData
  Zero = zero
  OtherCauses = FALSE
  NumHalf <- MCNumHalf
  MaxCount = 3
  NoNum = none
  Accesses <- MCMasked
CHECK_DEADLOCK FALSE
SPECIFICATION FairSpec
PROPERTY EngineReturns
