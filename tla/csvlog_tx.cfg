SPECIFICATION Spec
CONSTANTS
  p1 = p1
  p2 = p2
  orders = orders
  visits = visits
  Producers <- OneProducer
  Names <- TwoNames
  TxNames <- TwoNames
  FlushMode <- AllAlways
  Limit = 2
  Capacity = 1
  Interval = 1
  Header = TRUE
  MaxRestarts = 0
  MaxWrites = 2
  MaxTime = 1
  MaxFaults = 1
  MaxKills = 0
  Spilling <- NoName
  MaxDups = 1
SYMMETRY NameSymmetry
INVARIANTS
  TypeOK
  ProducerOrder
  WorkerSurvives
