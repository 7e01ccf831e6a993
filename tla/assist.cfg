CONSTANTS
  None = None
  Calls = {c1, c2}
  MemberIds <- MCMembers
  ScaleIds = {"s", "none"}
  RelationIds = {"r", "bare"}
  ContractionIds = {}
  DimensionOrder <- MCOrder
  Units = 2
  States <- MCStates
  InitialStates <- MCDocuments
  Locked = {"n"}
  JudgeTokens = {"hi", "stray"}
  Requests <- MCRequests
  Edits <- MCEdits
  Retirable <- MCRetirable
  Joined <- MCJoined
  MaxCells = 2
  MaxAsks = 2
  MaxEdits = 1
  MaxOpens = 2
  MaxRestarts = 1
SPECIFICATION Spec
INVARIANTS TypeOK OncePerToken
PROPERTIES RecordingDecidesNothing EveryCallEnds
CHECK_DEADLOCK FALSE
