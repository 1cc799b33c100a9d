SPECIFICATION Spec
CONSTANTS
  shop = shop
  admin = admin
  Apps <- TwoApps
  Limit = 2
  Limits <- SomeLimits
  Start = 0
  MaxSeq = 4
  MaxSets = 2
  MaxCrashes = 2
SYMMETRY Symmetry
INVARIANTS
  TypeOK
  Unique
  NothingWasted
PROPERTIES
  Ascending
CHECK_DEADLOCK FALSE
