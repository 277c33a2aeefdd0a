CONSTANTS
  ka = ka
  kb = kb
  Cmds <- MCCmds
  Keys = {ka, kb}
  MinInt <- MCMinInt
  MaxInt = 1
  Second = 2
  Text = 999
  MaxDuration = 4
  MaxCount = 2
  Milli = 1
  Epoch = 1
  Limit = 1
  StartTime = 2
  MaxTime = 6
  MaxLen = 3
SPECIFICATION MCSpec
INVARIANTS TypeOK Indexed NoSilentChange IntegersFit NoEmptyCollection SInterIsIntersection
PROPERTIES EvictsOnlyExpired NoRevival Reclaimed
