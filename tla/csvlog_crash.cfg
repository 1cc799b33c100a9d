SPECIFICATION Spec
CONSTANTS
  p1 = p1
  p2 = p2
  orders = orders
  visits = visits
  Producers <- OneProducer
  Names <- OneName
  TxNames <- NoName
  FlushMode <- AllAuto
  Limit = 2
  Capacity = 1
  Interval = 1
  Header = FALSE
  MaxRestarts = 1
  MaxWrites = 2
  MaxTime = 1
  MaxFaults = 0
  MaxKills = 1
  Spilling <- OneName
  MaxDups = 0
INVARIANTS
  Lossless
  StoredInOrder
  NoOverdueLine
  NamesDistinct
PROPERTIES
  FinishedForGood
  ImplementsLogStore
