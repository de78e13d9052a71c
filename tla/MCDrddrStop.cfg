CONSTANTS
  c1 = c1  c2 = c2  controller = controller  a1 = a1  d1 = d1
  zero = zero  none = none
  Workers <- MCWorkers
  Addr <- MCAddr
  Lists <- MCLists
  Params <- MCNoParams
  NAddress = 2
  MaxStarts = 1
  NoAddr = none
  Ctl = controller
  NSlots = 1
  Data <- MCData
  Zero = zero
  OtherCauses = FALSE
  NumHalf <- MCNumHalf
  MaxCount = 1
  NoNum = none
  Accesses <- MCWrites
CHECK_DEADLOCK FALSE
SPECIFICATION FairSpec
PROPERTY StopReturns
