SPECIFICATION Spec
CONSTANTS
  s1 = s1
  s2 = s2
  s3 = s3
  Sessions <- MCSessions
  Saved <- MCSaved
  Initial = s1
  Capacity = 6
  MaxMessages = 2
  MaxIncidents = 2
CHECK_DEADLOCK FALSE
INVARIANT IdleTabIsTrue
INVARIANT WaitingIsHeard
 
