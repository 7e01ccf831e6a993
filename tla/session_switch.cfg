SPECIFICATION Spec
CONSTANTS
  None = None
  StateIds = {"A", "B"}
  ConfigIds = {"cA", "cB"}
  DimSetIds = {"dA", "dB"}
  Relations = {"rel", "rel2"}
  Members = {"m1", "m2"}
  Tokens = {"lo", "hi"}
  RequestIds <- SwitchRequests
  Commands <- SwitchCommands
  Expectations <- SwitchVersions
  ClientOf <- OneProc
  Committed <- StoreA
  Procs = {"p1"}
  MaxCrashes = 0
  MaxFaults = 0
  Tears = {"interleaved"}
INVARIANTS
  MemoryIsDisk
PROPERTIES
  LockedIsUntouched
  ExpectedVersionHeld
