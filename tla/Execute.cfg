CONSTANTS
  a = a
  b = b
  Keys = {a, b}
  Conns = {c1, c2}
  Compactor = compactor
  Expirer = expirer
  Nobody = nobody
  NumDBs = 1
  NumShards = 2
  Route <- MCRoute
  Requests <- MCRequests
  MaxWrites = 2
  MaxGen = 1
SPECIFICATION FairSpec
INVARIANTS TypeOK Exclusion LogFollowsRuns SnapshotCut NoCircularWait
PROPERTY Served
