SPECIFICATION PlainSpec
CONSTANTS
  r1 = r1
  r2 = r2
  title = title
  summary = summary
  empty = empty
  a = a
  NULL = NULL
  Empty = empty
  RowId <- MCRowId
  Value <- MCValue
  Decodable <- MCValue
  Field <- OneField
  Record = TRUE
  MallocFails = TRUE
  Items <- SomeItems
  Searchable = {title}
  Derived = {summary}
  Encodable <- MCValue
  TokenTexts = {a}
  DeriveChanges = TRUE
INVARIANTS
  RowStoreTypeOK
  SearchAgreesWithRead
  SearchFindsLiveRows
  DeletedLeavesOnlyTokens
PROPERTIES
  PutIsReadBack
