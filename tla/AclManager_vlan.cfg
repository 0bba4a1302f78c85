\* One flow of the uplink: the VLAN its key has is not the one that is taken off the list.
SPECIFICATION Spec
CONSTANTS
  f1 = f1
  f2 = f2
  f3 = f3
  FlowIds = {f1}
  Requests <- Few
  MaxAclId = 3
  MaxAclWithVlan = 1
  AnyVlan = 4095
  MaxCalls = 1
  MaxFaults = 0
  None = None
INVARIANTS
  VlanLeavesWithFlow
