SPECIFICATION FairSpec
CHECK_DEADLOCK FALSE
CONSTANTS
  Threads = {t1, t2}
  Onus = {o1}
  MaxCalls = 3
  MaxFaults = 2
  MaxReports = 2
  NoEntry = NoEntry
  Null = Null
INVARIANTS
  NoDanglingQueue
  SoleWaiterIsRegistered
  ClearedWhenInactive
PROPERTIES
  WantedIsDeleted
