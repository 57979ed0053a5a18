CONSTANTS
  N = 3
  MaxOthers = 2
  MaxParallels <- MCMaxParallels
SPECIFICATION FairSpec
INVARIANTS TypeOK ExclusiveNodes LimitRespected ResultComplete NothingInFlightAfterReturn
PROPERTIES AtMostOneLateStart 
CHECK_DEADLOCK FALSE
