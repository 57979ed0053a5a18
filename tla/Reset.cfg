CONSTANTS
  N = 3
  Options <- MCOptions
  Stages <- MCStages
SPECIFICATION Spec
INVARIANTS WaitHonest
CHECK_DEADLOCK FALSE
