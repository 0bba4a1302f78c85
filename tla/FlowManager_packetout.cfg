\* Packet-out to a port whose flows were removed.
SPECIFICATION Spec
CONSTANTS
  u1 = u1
  d1 = d1
  h1 = h1
  u2 = u2
  d2 = d2
  Threads = {t1}
  Flows = {u1, d1, d2}
  Req <- ReqOf
  MaxReplicated = 2
  MaxFlowId = 3
  AddOutcomes = {"ok"}
  ClearOutcomes = {"ok"}
  Serialised = TRUE
  MaxFaults = 0
  None = None
CHECK_DEADLOCK FALSE
INVARIANTS
  PacketOutOwnsPort
