SPECIFICATION BlueprintSpec
CONSTANTS
  NULL = NULL
  Params <- MCParams
  MaxParams = 3
  Decode <- MCDecode
  SortSpec <- MCSortSpec
  Pieces <- MCPieces
  Atol <- MCAtol
  MaxOps = 2
  Width = 4
  AllocFails = TRUE
  Sources <- MCSources
  SourceIds = {"songs", "albums", "films"}
INVARIANTS
  OverridesReachFilters
  ManifestAnswersTheQueryString
  ManifestLoadsWhatIsReferenced
  OnlyResultsHoldMemory
CHECK_DEADLOCK FALSE
