SPECIFICATION Spec
CONSTANTS
  NULL = NULL
  Field <- MCField
  Value <- MCValue
  Empty = ""
  Record = FALSE
  MallocFails = FALSE
  Items <- MCItems
  r1 = r1
  r2 = r2
  RowId = {r1, r2}
  Searchable = {"title"}
  Derived = {"summary"}
  Encodable = {"a"}
  Decodable = {"", "a"}
  Slots = 2
  IdxModulus = 2
  Garbage = "garbage"
  MaxProviders = 2
  Provider <- MCProvider
  ReadsField <- MCReadsField
  PutsItem <- MCPutsItem
  TokenTexts = {"a", "long"}
  FirstCapacity = 1
  MaxAbsent = 1
SYMMETRY RowSymmetry
INVARIANTS
  DecodedTextsStay
  IndexMissesOnlyCallbackWrites
  ExportFreesAll
CHECK_DEADLOCK FALSE
