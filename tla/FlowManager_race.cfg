\* Calls for one subscriber overlap.
SPECIFICATION Spec
CONSTANTS
  u1 = u1
  d1 = d1
  h1 = h1
  u2 = u2
  d2 = d2
  Threads = {t1, t2}
  Flows = {u1, d1}
  Req <- ReqOf
  MaxReplicated = 2
  MaxFlowId = 2
  AddOutcomes = {"ok", "already", "err"}
  ClearOutcomes = {"ok", "err"}
  Serialised = FALSE
  MaxFaults = 2
  None = None
SYMMETRY ThreadSymmetry
CHECK_DEADLOCK FALSE
INVARIANTS
  NoUseAfterFree
