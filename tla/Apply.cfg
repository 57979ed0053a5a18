CONSTANTS
  NumCP = 2
  N = 4
  Options <- Every
  Selections <- Filters
  Clusters <- Mixed
  MaxRuns = 1
  MaxFlaps = 1
  MaxHangs = 1
SPECIFICATION Spec
INVARIANTS OneControlPlaneAtATime WorkersAfterControlPlane WorkersWithinLimit PreflightHonoured ResultHonest DryRunVerdict
CHECK_DEADLOCK FALSE
