SPECIFICATION Spec
CONSTANTS
  Key = {b1}
  Xuni = {}
  Bogus = {}
  Difficulty = {1, 2}
  MemoryCost = 1
  Native = FALSE
  PoolErrors = {}
  MaxSessions = 1
  NoHit = NoHit
PROPERTIES FilteredHitIsBogus
CHECK_DEADLOCK FALSE
