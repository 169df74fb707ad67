CONSTANTS
  NumCalls <- MCNumCalls
  Permits <- MCPermits
  PostHookSet = TRUE
SPECIFICATION FairSpec
INVARIANT StartsEndsAndResultsAgree
INVARIANT ToolsEndInTime
INVARIANT SequentialToolRunsAlone
PROPERTY KeepsContract
PROPERTY BatchEnds
