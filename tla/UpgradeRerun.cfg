CONSTANTS
  NumCP = 1
  N = 2
  Legacy <- LastNode
  Options <- Default
  MaxRuns = 2
  MaxFlaps = 1
  MaxHangs = 0
SPECIFICATION Spec
INVARIANTS ResultHonest
CHECK_DEADLOCK FALSE
