SPECIFICATION FairSpec
CONSTANTS
  orders = orders
  Names <- OneName
  LogIds <- TwoIds
  CommitInterval = 2
  MaxFiles = 2
  MaxFailures = 1
  MaxFaults = 1
  MaxDeaths = 1
INVARIANTS
  TypeOK
  NothingLost
  OncePerOpening
PROPERTIES
  MovedWhole
  EveryFileMoved
CHECK_DEADLOCK FALSE
