SPECIFICATION FairSpec
CONSTANTS
  Ssids = {A, B}
  None = None
  Managers = {"nm", "networkd", "ifupdown"}
  WpaCliWorks = TRUE
  AssocWait = 20
  AuthGrace = 6
  DhcpWait = 15
  MaxRequests = 2
  MaxCrashes = 1
INVARIANTS TypeOK OkMeansJoined RollbackRestores FilesPaired
PROPERTIES PersistedWasJoined HandlingEnds
CHECK_DEADLOCK FALSE
