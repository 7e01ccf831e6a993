SPECIFICATION Spec
CONSTANTS
  None = None
  StateIds = {"A", "B"}
  ConfigIds = {"cA", "cB"}
  DimSetIds = {"dA", "dB"}
  Relations = {"rel", "rel2"}
  Members = {"m1", "m2"}
  Tokens = {"lo", "hi"}
  RequestIds <- DurableRequests
  Commands <- DurableCommands
  Expectations <- AnyVersion
  ClientOf <- OneProc
  Committed <- StoreA
  Procs = {"p1"}
  MaxCrashes = 2
  MaxFaults = 0
  Tears = {}
INVARIANTS
  OneLinePerRequest
PROPERTIES
  DurableSpec
