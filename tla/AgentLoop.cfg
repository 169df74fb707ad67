CONSTANTS
  Histories <- MCHistories
  MaxCalls = 2
  MaxTurns = 3
  MaxSteering = 1
  MaxFollowUps = 1
  RefreshHook = TRUE
SPECIFICATION FairSpec
 
INVARIANT QueuedMessagesAreHeardOnce
 
PROPERTY RunEnds
