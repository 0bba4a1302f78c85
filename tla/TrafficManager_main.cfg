\* Two subscribers with one tech profile each, two QMP ids, BAL refusing once.
SPECIFICATION Spec
CONSTANTS
  s1 = s1
  s2 = s2
  Subs = {s1, s2}
  TechProfiles = {"one", "two", "alike"}
  QueuesOf <- TechProfileQueues
  MapOf <- TechProfileMaps
  Services <- Pairs
  MaxSchedId = 2
  MaxQmpId = 2
  PonPorts = 1
  NniPorts = 1
  KnowsQueues = TRUE
  MaxFaults = 1
  None = None
SYMMETRY Symmetry
CONSTRAINT Bound
INVARIANTS
  SchedIdsExclusive
  SchedulersAreOwned
  FlowHasItsQueues
  QmpIdsAccounted
  GemsAreMapped
  GoneMeansGone
