SPECIFICATION Spec
CONSTANTS
  Lease = {l1, l2}
  Block = {b1}
  Self = Self
  Thread = {t1, t2}
  Watchdog = Watchdog
  MaxUp = 2
  MaxEvents = 3
CONSTRAINT Worthwhile
SYMMETRY Alike
INVARIANTS CountedWhereMined WorkerSound
CHECK_DEADLOCK FALSE
