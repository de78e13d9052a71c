CONSTANTS
  t1 = t1  t2 = t2  a1 = a1  a2 = a2  a3 = a3  none = none
  Threads <- MCThreads
  Addr <- MCAddr
  Lists <- MCList
  Params <- MCNoParams
  NAddress = 3
  MaxStarts = 1
  NoAddr = none
SPECIFICATION Spec
INVARIANT StopDisarms
