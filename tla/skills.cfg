CONSTANTS
  Runs = {"r1", "r2"}
  Targets = {"gemini", "agents-md"}
  RootsOf <- MCRootsOf
  PathOrder <- MCPathOrder
  AgentsRoot = ".agents/skills"
  FileOrder <- MCFileOrder
  Versions = {"1", "2"}
  Ships <- MCShips
  Commands <- MCCommands
  None = None
  Mine = Mine
  Unreadable = Unreadable
  MaxCommands = 3
  MaxTroubles = 1
  MaxEdits = 1
SPECIFICATION FairSpec
INVARIANTS TypeOK RecordsAreTrue InstalledStays NoEmptyAgents OneWriter
PROPERTIES EditsAreKept EveryRunEnds
CHECK_DEADLOCK FALSE
