CONSTANTS
  Launches = {"p1", "p2", "p3"}
  HostOf <- OneHost
  None = None
  MaxTroubles = 1
SPECIFICATION Spec
PROPERTY FreshLockStays
CHECK_DEADLOCK FALSE
