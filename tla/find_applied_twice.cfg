SPECIFICATION Spec
CONSTANTS
  None = None
  StateIds = {"A"}
  ConfigIds = {"cA"}
  DimSetIds = {"dA"}
  Relations = {"rel", "rel2"}
  Members = {"m1", "m2"}
  Tokens = {"lo", "hi"}
  RequestIds <- CrashRequests
  Commands <- CrashCommands
  Expectations <- AnyVersion
  ClientOf <- OneProc
  Committed <- StoreA
  Procs = {"p1"}
  MaxCrashes = 1
  MaxFaults = 0
  Tears = {}
INVARIANTS
  AppliedOnce
