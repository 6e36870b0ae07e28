SPECIFICATION FairSpec
CONSTANTS
  p1 = p1
  title = title
  artist = artist
  empty = empty
  a = a
  b = b
  NULL = NULL
  Empty = empty
  Derived = {}
  Overlap = {}
  LoadFails = FALSE
  SaveFails = FALSE
  StrayPuts = FALSE
  Searchable = {}
  Encodable = {}
  Part <- OnePart
  RowId <- OnePartRows
  MaxLen = 4
  Field <- TwoFields
  Value <- TwoTexts
  Record = TRUE
  MallocFails = TRUE
  Items <- OneOfTwo
  Decodable <- TwoTexts
INVARIANTS
  TypeOK
  ReturnedMeansSaved
PROPERTIES
  ImplementsList
  CallReturns
