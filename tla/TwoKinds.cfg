SPECIFICATION Spec
CONSTANTS
  Key = {b1, b2}
  Xuni = {b2}
  Bogus = {}
  Difficulty = {1}
  MemoryCost = 1
  Native = FALSE
  PoolErrors = {}
  MaxSessions = 1
  NoHit = NoHit
INVARIANTS AcksAreTrue
CHECK_DEADLOCK FALSE
