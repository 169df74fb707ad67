SPECIFICATION FairSpec
CONSTANTS
  Outside = {"/etc"}
  Options <- MCOptions
  Secrets = {"$KEY"}
  Sessions <- MCSessions
  Agents <- MCAgents
  SessionOf <- MCSessionOf
  Mains <- MCMains
  MaxCalls <- MCMaxCalls
  MaxPrompts <- MCMaxPrompts
  RequestsOf <- MCRequestsOf
  Trustable <- MCTrustable
  Samples <- MCSamples
  Slots <- MCSlots
  MaxCommands = 2
  FirstConfig <- MCConfig
CHECK_DEADLOCK FALSE
INVARIANT ApprovalInvariant
PROPERTY NobodyWaitsForever
PROPERTY AnsweredOnceByItsOwn
 
