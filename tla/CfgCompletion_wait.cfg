\* Two handler threads, an alloc object and a GEM port of a GPON board.
SPECIFICATION Spec
CONSTANTS
  Threads = {t1, t2}
  AllocObjs = {a1}
  GemObjs = {g1}
  Ids = {i1, i2}
  BalOutcomes <- SomeOutcomes
  Gpon = TRUE
  MaxGemCfgKeyCheck = 2
  NoEntry = NoEntry
  Null = Null
SYMMETRY ThreadSymmetry
INVARIANTS
  NoDanglingQueue
  SoleWaiterIsFound
  AnswersOwnRequest
  OkMeansReached
  IteratorValidWhenClean
