SPECIFICATION Spec
CONSTANTS
  Key = {b1}
  Xuni = {}
  Bogus = {}
  Difficulty = {1, 2}
  MemoryCost = 1
  Native = TRUE
  PoolErrors = {}
  MaxSessions = 2
  NoHit = NoHit
PROPERTIES DroppedRowIsBogus
CHECK_DEADLOCK FALSE
