SPECIFICATION Spec
CONSTANTS
  Worker = {w1, w2}
  Lease = {l1, l2}
  Handler = {h1, h2}
  Watchdog = Watchdog
  None = None
  Price = 40
  Funds = 60
  Amount = 20
  MaxRequests = 2
  MaxCrashes = 1
CONSTRAINT Worthwhile
SYMMETRY Alike
INVARIANTS BooksBalance PartedOnlyByOthers ChargedOnce RentNotRefused
CHECK_DEADLOCK FALSE
