CONSTANTS
  Names <- MCNames
  Dangerous <- MCDangerous
  Frequent <- MCFrequent
  Alike <- MCAlike
  Texts <- MCTexts
  PartListings <- MCPartListings
  Listings <- MCListings
CHECK_DEADLOCK FALSE
SPECIFICATION Spec
INVARIANTS TypeOK PrintedOnce PrintedIsRight AllFound
