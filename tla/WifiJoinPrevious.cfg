SPECIFICATION Spec
CONSTANTS
  Ssids = {A, B}
  None = None
  Managers = {"ifupdown"}
  WpaCliWorks = TRUE
  AssocWait = 20
  AuthGrace = 6
  DhcpWait = 15
  MaxRequests = 2
  MaxCrashes = 0
INVARIANT PreviousRestored
CHECK_DEADLOCK FALSE
