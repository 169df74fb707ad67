SPECIFICATION MCSpec
CONSTANTS
  s1 = s1
  s2 = s2
  j1 = j1
  j2 = j2
  None = None
  Sessions <- MCSessions
  Callers <- MCCallers
  Initial = s1
  Found <- MCFound
  Homes <- MCHomes
  Directories <- MCDirectories
  Machine <- MCMachine
  Paths <- MCPaths
  Budget = 1
  Window = 1
  MaxTime = 2
  MaxChildren = 3
  MaxCalls = 2
  MaxChanges = 2
  MaxFaults = 2
  MaxAtWork = 2
  MaxIncidents = 1
SYMMETRY MCSymmetry
CHECK_DEADLOCK FALSE
INVARIANT RegistryInvariant
INVARIANT KeeperInvariant
INVARIANT FeedInvariant
PROPERTY ClientsAreSpared
