SPECIFICATION Spec
CONSTANTS
  alarm = alarm
  report = report
  Threads <- TwoThreads
  MaxMessages = 2
  MaxStarts = 1
  MaxStops = 0
  MaxDrops = 1
  MaxRefusals = 0
INVARIANTS
  OneReconnects
CHECK_DEADLOCK FALSE
