SPECIFICATION Spec
CONSTANTS
  Inputs <- SomeInputs
  MaxLineCount = 2
  CommitInterval = 2
  MaxSorts = 2
  MaxFaults = 1
INVARIANTS
  TypeOK
  Complete
  MergesKeepOrder
  NoReadOfUnwritten
PROPERTIES
  PassesHalve
CHECK_DEADLOCK FALSE
