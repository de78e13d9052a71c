SPECIFICATION Spec
CONSTANT Instructions <- MCInstructions
INVARIANT ReportsRealAccess
INVARIANT NothingMissed
INVARIANT FetchesWhole
