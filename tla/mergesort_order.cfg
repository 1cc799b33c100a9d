SPECIFICATION Spec
CONSTANTS
  Inputs <- UnsortedRest
  MaxLineCount = 3
  CommitInterval = 1
  MaxSorts = 1
  MaxFaults = 0
INVARIANTS
  SortedOutput
CHECK_DEADLOCK FALSE
