SPECIFICATION FairSpec
CONSTANTS
  Key = {b1}
  Xuni = {}
  Bogus = {}
  Difficulty = {1, 2}
  MemoryCost = 1
  Native = TRUE
  PoolErrors = {}
  MaxSessions = 1
  NoHit = NoHit
PROPERTIES HeldBlockReachesPool ShutdownCompletes
CHECK_DEADLOCK FALSE
