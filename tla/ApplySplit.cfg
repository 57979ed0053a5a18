CONSTANTS
  NumCP = 2
  N = 2
  Options <- Joining
  Selections <- NewOnly
  Clusters <- Growing
  MaxRuns = 1
  MaxFlaps = 0
  MaxHangs = 0
SPECIFICATION Spec
PROPERTIES BootstrapHarmless
CHECK_DEADLOCK FALSE
