SPECIFICATION Spec
CONSTANTS
  alarm = alarm
  report = report
  Threads <- TwoThreads
  MaxMessages = 3
  MaxStarts = 2
  MaxStops = 1
  MaxDrops = 2
  MaxRefusals = 1
SYMMETRY Symmetry
INVARIANTS
  TypeOK
  SentOnce
  ClosedBeforeReplaced
  LockGivenBack
CHECK_DEADLOCK FALSE
