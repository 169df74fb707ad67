SPECIFICATION MCSpec
CONSTANTS
  None = None
  Folders = {"c1", "c2"}
  MaxMade = 3
  MaxIncidents = 2
  Weight <- MCWeight
  Threshold = 4
  Target = 2
  MaxEntries = 6
  MaxResults = 2
  Weights = {1, 2}
  w1 = w1
  w2 = w2
  w3 = w3
  FileCalls <- MCFileCalls
  Spellings = {"a.rs", "./a.rs", "a.md", "a.tmp", "b.rs"}
  FileAt <- MCFileAt
  Temporary <- MCTemporary
  MaxMishaps = 1
SYMMETRY MCSymmetry
CHECK_DEADLOCK FALSE
INVARIANT LogInvariant
INVARIANT BranchInvariant
 
PROPERTY CutsAreRight
PROPERTY EditsKeepWhatIsThere
