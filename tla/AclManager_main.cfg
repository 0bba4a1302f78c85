\* Three flow ids, ACLs shared between GEM ports and VLANs, the VLAN limit at the second ACL.
SPECIFICATION Spec
CONSTANTS
  f1 = f1
  f2 = f2
  f3 = f3
  FlowIds = {f1, f2, f3}
  Requests <- Ponwise
  MaxAclId = 2
  MaxAclWithVlan = 1
  AnyVlan = 4095
  MaxCalls = 2
  MaxFaults = 1
  None = None
SYMMETRY FlowSymmetry
INVARIANTS
  CountsAreExact
  IdsMatchBal
  InstalledIsAllowed
PROPERTIES
  ImplementsTrapTable
