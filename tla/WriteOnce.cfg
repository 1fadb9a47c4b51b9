SPECIFICATION Spec
CONSTANTS
  Template = "fallback"
  MaxStarts = 3
INVARIANTS TrackerWrittenOnce
CHECK_DEADLOCK FALSE
