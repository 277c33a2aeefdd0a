CONSTANTS
  FSync = "always"
  MaxWrites = 2
  MaxGen = 1
  MaxCrashes = 2
  PowerFails = FALSE
  Tears = TRUE
  Faults = FALSE
SPECIFICATION Spec
INVARIANTS PromisedServed
CHECK_DEADLOCK FALSE
