CONSTANTS
  s1 = s1  s2 = s2  a1 = a1  a2 = a2  none = none
  Shells <- MCShells
  Addr <- MCAddr
  Lists <- MCLists
  Params <- MCParams
  NAddress = 2
  NoAddr = none
  NThreads = 1
  MonBufSize = 300
  InUse = {4}
  MaxCommands = 3
CHECK_DEADLOCK FALSE
SPECIFICATION FairSpec
INVARIANTS TypeOK ListWhole CountExact UnloadedClean MonitorFits
PROPERTIES StopTakesEffect CommandServed 
