CONSTANTS
  NumCP = 2
  N = 4
  Legacy <- LastNode
  Options <- Every
  MaxRuns = 1
  MaxFlaps = 0
  MaxHangs = 1
SPECIFICATION FairSpec
INVARIANTS OneControlPlaneAtATime WorkersAfterControlPlane WorkersWithinLimit ChangedOnlyAsPlanned
PROPERTIES DrainedBeforeReboot EndsOrHangs
CHECK_DEADLOCK FALSE
