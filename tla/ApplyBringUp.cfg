CONSTANTS
  NumCP = 2
  N = 4
  Options <- BringingUp
  Selections <- All
  Clusters <- FreshOnly
  MaxRuns = 2
  MaxFlaps = 0
  MaxHangs = 1
SPECIFICATION FairSpec
INVARIANTS OneEtcdCluster
PROPERTIES EndsOrHangs BringUp
CHECK_DEADLOCK FALSE
