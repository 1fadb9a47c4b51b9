SPECIFICATION Spec
CONSTANTS
  Key = {b1, b2}
  Xuni = {}
  Bogus = {b2}
  Difficulty = {1, 2}
  MemoryCost = 1
  Native = TRUE
  PoolErrors <- AllErrors
  MaxSessions = 2
  NoHit = NoHit
INVARIANTS TypeOK ClosedRowsSettled OneOpenRow NoHitVanishes SendsProvedBlocks
PROPERTIES ImplementsLedger FlushLogsRejectsOnly AcceptedNeverRequeued
CONSTRAINTS OneTrouble OneFound
CHECK_DEADLOCK FALSE
