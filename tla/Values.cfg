SPECIFICATION ValuesSpec
CONSTANTS
  Base = 2
  Elements <- MCElements
  MaxEntries = 2
  MaxBytes = 2
  MaxPushes = 4
  MaxLevel = 3
  None = None
INVARIANTS
  TypeOK
  BothWays
  RangeSelects
  SortedSetSound
  RoundTrips
  CutsDetected
PROPERTIES
  ImplementsDeque
  ImplementsScoredSet
  ImplementTables
