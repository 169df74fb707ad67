SPECIFICATION Spec
CONSTANTS
  ArgParts = 2
  Vision = FALSE
  Bridge = TRUE
  MaxBlocks = 2
  MaxRetries = 1
  Prompts <- MCPrompts
CHECK_DEADLOCK FALSE
INVARIANT HeardIsSaid
INVARIANT RequestsArePaired
PROPERTY StreamsKeepTheContract
PROPERTY RequestsEnd
