CONSTANTS
  ca = ca
  cb = cb
  Conns = {ca}
  Databases = 1
  ka = ka
  kb = kb
  Cmds <- MCCmds
  Menus = {"extend"}
  Keys = {ka, kb}
  MinInt <- MCMinInt
  MaxInt = 2
  Second = 1
  Text = 999
  MaxDuration = 16
  MaxCount = 2
  Milli = 1
  Epoch = 17
  StartTime = 18
  MaxTime = 21
  MaxDrift = 0
  MaxLog = 3
SPECIFICATION MCSpec
INVARIANTS SameWhenever
