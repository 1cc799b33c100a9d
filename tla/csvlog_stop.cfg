SPECIFICATION FairSpec
CONSTANTS
  p1 = p1
  p2 = p2
  orders = orders
  visits = visits
  Producers <- OneProducer
  Names <- OneName
  TxNames <- NoName
  FlushMode <- AllAuto
  Limit = 2
  Capacity = 1
  Interval = 1
  Header = TRUE
  MaxRestarts = 0
  MaxWrites = 1
  MaxTime = 0
  MaxFaults = 0
  MaxKills = 0
  Spilling <- NoName
  MaxDups = 0
PROPERTIES
  StopEnds
