SPECIFICATION Spec
CONSTANTS
  None = None
  StateIds = {"A", "B"}
  ConfigIds = {"cA"}
  DimSetIds = {"dA"}
  Relations = {"rel", "rel2"}
  Members = {"m1", "m2"}
  Tokens = {"lo", "hi"}
  RequestIds <- SharedRequests
  Commands <- SharedCommands
  Expectations <- AnyVersion
  ClientOf <- OneProc
  Committed <- StoreA
  Procs = {"p1"}
  MaxCrashes = 1
  MaxFaults = 0
  Tears = {"unterminated"}
INVARIANTS
  TypeOK
  Reopens
  MemoryIsDisk
  AuditedIsStored
  AuditChain
PROPERTIES
  StateGrows
