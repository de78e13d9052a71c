CONSTANTS
  Text <- MCText
  Original <- MCOriginal
  Gate <- MCGate
  Call <- MCCall
  Kernel <- MCKernel
  Ours <- MCOurs
  ByteBase = 16
  CallOp = 14
  PageSize = 10
  Words <- MCWords
  TrapSps <- MCTrapSps
CHECK_DEADLOCK FALSE
SPECIFICATION Spec
INVARIANTS TypeOK Restored WorkSeesTrap HandlersInPlace PagesSealed
PROPERTIES CallsLand ForeignPassedOn FreedOnlyInTail
