CONSTANTS
  Launches = {"p1", "p2", "p3"}
  HostOf <- TwoHosts
  None = None
  MaxTroubles = 2
SPECIFICATION FairSpec
INVARIANTS TypeOK InstalledIsVerified OneDownload CleanedUp
PROPERTIES OnlyVerifiedRuns EveryLaunchEnds
CHECK_DEADLOCK FALSE
