CONSTANTS
  FSync = "everysec"
  MaxWrites = 2
  MaxGen = 1
  MaxCrashes = 1
  PowerFails = TRUE
  Tears = FALSE
  Faults = FALSE
SPECIFICATION Spec
INVARIANTS PromisedServed
CHECK_DEADLOCK FALSE
