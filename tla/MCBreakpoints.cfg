CONSTANTS
  t1 = t1  t2 = t2  a1 = a1  a2 = a2  a3 = a3  none = none
  Threads <- MCThreads
  Addr <- MCAddr
  Lists <- MCLists
  Params <- MCParams
  NAddress = 3
  MaxStarts = 2
  NoAddr = none
SPECIFICATION Spec
SYMMETRY Symmetry
INVARIANTS
  TypeOK TrapCountExact StopWaits PlantedIsTracked TextRestored SamplesKept
PROPERTIES
  TrapsDisownedByInitOnly ImplementsSampler
