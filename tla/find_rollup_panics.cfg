CONSTANTS
  None = None
  MemberIds <- MCMembers
  ScaleIds <- MCScales
  RelationIds <- MCRelations
  ContractionIds <- MCContractions
  DimensionOrder <- MCOrder
  Units <- MCUnits
  Files <- MCFiles
  OutsideFiles <- MCOutside
  Contents <- MCContents
  Limits <- MCLimits
  InitialDocuments <- MCImported
  DimensionSpecs <- MCDimensionSpecs
  ScaleSpecs <- MCScaleSpecs
  RelationSpecs <- MCRelationSpecs
  ContractionSpecs <- MCContractionSpecs
  MemberSpecs <- MCMemberSpecs
  Rosters <- MCRosters
  Observations <- MCObservations
  ObservedCells <- MCTwiceCells
  Retirements <- MCRetirements
  MaxWrites = 3
SPECIFICATION Spec
INVARIANT RolledUpLoads
CHECK_DEADLOCK FALSE
