SPECIFICATION FairSpec
CONSTANTS
  NumDevices = 1
  NumPons = 2
  NumNnis = 1
  Admins = {a1, a2}
  MaxTrials = 2
  MaxFaults = 2
  MaxCalls = 2
CHECK_DEADLOCK FALSE
INVARIANTS
  DisableOkMeansDown
  ReenableOkMeansDiscovering
  FailedMeansUntouched
  ActiveHasScheduler
PROPERTIES
  MainDecides
