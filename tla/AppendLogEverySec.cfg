CONSTANTS
  FSync = "everysec"
  MaxWrites = 3
  MaxGen = 2
  MaxCrashes = 2
  PowerFails = FALSE
  Tears = FALSE
  Faults = FALSE
SPECIFICATION Spec
INVARIANTS PromisedServed CleanShutdown
PROPERTY ImplementsDurableLog
CHECK_DEADLOCK FALSE
