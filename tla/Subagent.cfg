CONSTANTS
  MaxSpawned <- OneSubagent
  MaxSent <- ThreePrompts
  MaxReplies <- MCMaxReplies
  MaxActive <- MCMaxActive
SPECIFICATION FairSpec
CHECK_DEADLOCK FALSE
INVARIANT StatusFollowsTheDrain
INVARIANT NoReplyIsLost
PROPERTY AbortedIsFinal
PROPERTY AbortsAndCallsEnd
