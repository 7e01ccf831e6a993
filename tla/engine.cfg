CONSTANTS
  None = None
  MemberIds <- MCMembers
  ScaleIds <- MCScales
  RelationIds <- MCRelations
  ContractionIds <- MCContractions
  DimensionOrder <- MCOrder
  Units <- MCUnits
  Files <- MCFiles
  OutsideFiles <- MCOutside
  Contents <- MCContents
  Limits <- MCLimits
  InitialDocuments <- MCDocuments
  DimensionSpecs <- MCDimensionSpecs
  ScaleSpecs <- MCScaleSpecs
  RelationSpecs <- MCRelationSpecs
  ContractionSpecs <- MCContractionSpecs
  MemberSpecs <- MCMemberSpecs
  Rosters <- MCRosters
  Observations <- MCObservations
  ObservedCells <- MCCells
  Retirements <- MCRetirements
  MaxWrites = 3
SPECIFICATION Spec
INVARIANTS
  TypeOK
  CycleSearchIsExact
  RollupIsExact
  ContractionSumsWays
  OppositionIsNeverHidden
  ProposalsDecideNothing
  NoopChangesNothing
  PagesAreWhole
PROPERTY NothingIsLost
CHECK_DEADLOCK FALSE
