CONSTANTS
  FSync = "always"
  MaxWrites = 2
  MaxGen = 2
  MaxCrashes = 2
  PowerFails = TRUE
  Tears = TRUE
  Faults = TRUE
SPECIFICATION Spec
INVARIANTS TypeOK MemoryOnDisk ReplayInOrder PromisedDurable CleanShutdown
CHECK_DEADLOCK FALSE
