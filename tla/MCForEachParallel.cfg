CONSTANTS
  N = 4
  GOMAXPROCS = 3
SPECIFICATION FairSpec
INVARIANTS
  PoolInv
  CallsDisjoint
  LateStartsBounded
PROPERTIES
  ImplementsBulkCall
  EventuallyReturns
CHECK_DEADLOCK FALSE
