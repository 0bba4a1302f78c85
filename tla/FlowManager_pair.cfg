\* A replicated symmetric pair of one subscriber, a trap-to-host flow of another.
SPECIFICATION Spec
CONSTANTS
  u1 = u1
  d1 = d1
  h1 = h1
  u2 = u2
  d2 = d2
  Threads = {t1, t2}
  Flows = {h1, u2, d2}
  Req <- ReqOf
  MaxReplicated = 2
  MaxFlowId = 3
  AddOutcomes = {"ok", "err"}
  ClearOutcomes = {"ok", "err"}
  Serialised = TRUE
  MaxFaults = 1
  None = None
CONSTRAINT FewTainted
SYMMETRY ThreadSymmetry
CHECK_DEADLOCK FALSE
INVARIANTS
  TypeOK
  KeyExclusive
  CachedIsInstalled
  IdsAccounted
  ClearIdIsUnused
  DownstreamIsReachable
