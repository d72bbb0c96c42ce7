\* A process that ends is not resumed.
SPECIFICATION Spec
CONSTANTS
  Threads <- MCThreads
  Main = 1
  MaximumSuspendCount = 2
  Failures = {"continue", "mode", "restore"}
INVARIANTS
  StoppedIsFrozen
  ListsTheOthers
  SuspendedAsAsked
PROPERTIES
  BreakInStops
CHECK_DEADLOCK FALSE
