SPECIFICATION FairSpec
CONSTANTS
  e1 = e1
  e2 = e2
  e3 = e3
  t1 = t1
  t2 = t2
  s1 = s1
  s2 = s2
  load = load
  Executions <- ThreeExecutions
  JobName <- OneJob
  Steps <- TwoSteps
  Threads <- TwoThreads
  Owner <- TwoOfOne
  Values <- One
  MaxCalls = 2
INVARIANTS
  TypeOK
  OnePerName
  ExistsIfRunning
  SumsHold
  TempDataKept
PROPERTIES
  NameComesFree
CHECK_DEADLOCK FALSE
