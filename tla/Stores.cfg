SPECIFICATION MCSpec
CONSTANTS
  None = None
  x = x
  y = y
  codex = codex
  claude = claude
  Calls <- MCCallers
  Providers <- MCProviders
  LoginProvider = codex
  MaxIssued = 4
  MaxFaults = 1
  Threads <- MCCallers
  Files = {"f1", "f2"}
  Home = "f1"
  Keys = {"k1", "k2"}
  Efforts = {"low", "high"}
  Wordings = {"low", "light", "high"}
  Standard <- MCStandard
  Alternates = {"low"}
  Configured <- MCMaps
  Acceptances = {{}, {"light", "high"}}
  MaxEvents = 2
  Commands <- MCCallers
  Values = {"old", "new"}
  Default = "old"
  Rules = {"read", "mine"}
  DefaultRules = {"read"}
  Projects <- MCProjects
  MaxCommands = 3
SYMMETRY MCSymmetry
CHECK_DEADLOCK FALSE
INVARIANT CredentialsInvariant
 
INVARIANT SettingsInvariant
PROPERTY WritersKeepTheRest
