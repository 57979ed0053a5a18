CONSTANTS
  NumCP = 1
  N = 3
  Options <- Asking
  Selections <- All
  Clusters <- UpOnly
  MaxRuns = 1
  MaxFlaps = 0
  MaxHangs = 0
SPECIFICATION Spec
INVARIANTS ConfirmedOnly
CHECK_DEADLOCK FALSE
