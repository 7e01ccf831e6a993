SPECIFICATION FairSpec
CONSTANTS
  None = None
  StateIds = {"A", "B", "C"}
  ConfigIds = {"cA", "cB"}
  DimSetIds = {"dA", "dB"}
  Relations = {"rel", "rel2"}
  Members = {"m1", "m2"}
  Tokens = {"lo", "hi"}
  RequestIds <- FaultRequests
  Commands <- FaultCommands
  Expectations <- AnyVersion
  ClientOf <- OneProc
  Committed <- StoreMissing
  Procs = {"p1"}
  MaxCrashes = 1
  MaxFaults = 1
  Tears = {"partial"}
INVARIANTS
  AuditedIsStored
  AcceptedIsAudited
PROPERTIES
  EveryRequestAnswered
