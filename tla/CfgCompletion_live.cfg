\* One handler thread, an alloc object and a GEM port, under the fairness of the scheduler.
SPECIFICATION FairSpec
CONSTANTS
  Threads = {t1}
  AllocObjs = {a1}
  GemObjs = {g1}
  Ids = {i1, i2}
  BalOutcomes <- FewOutcomes
  Gpon = TRUE
  MaxGemCfgKeyCheck = 3
  NoEntry = NoEntry
  Null = Null
PROPERTIES
  CallReturns
  IndicationsDrain
