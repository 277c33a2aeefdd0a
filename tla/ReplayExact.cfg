CONSTANTS
  ca = ca
  cb = cb
  Conns = {ca, cb}
  Databases = 2
  ka = ka
  kb = kb
  Cmds <- MCCmds
  Menus = {"keys", "sessions", "far"}
  Keys = {ka, kb}
  MinInt <- MCMinInt
  MaxInt = 2
  Second = 2
  Text = 999
  MaxDuration = 16
  MaxCount = 2
  Milli = 2
  Epoch = 17
  StartTime = 18
  MaxTime = 21
  MaxDrift = 1
  MaxLog = 3
SPECIFICATION MCSpec
INVARIANTS TypeOK ExactBeforeDeadlines RecoveredIndexed
