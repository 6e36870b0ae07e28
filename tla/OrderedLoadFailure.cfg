SPECIFICATION Spec
CONSTANTS
  p1 = p1
  title = title
  artist = artist
  empty = empty
  a = a
  b = b
  NULL = NULL
  Empty = empty
  Derived = {}
  Overlap = {}
  LoadFails = TRUE
  SaveFails = FALSE
  StrayPuts = FALSE
  Searchable = {}
  Encodable = {}
  Part <- OnePart
  RowId <- OnePartRows
  MaxLen = 2
  Field <- OneField
  Value <- ThreeTexts
  Record = TRUE
  MallocFails = FALSE
  Items <- WholeOne
  Decodable <- ThreeTexts
PROPERTIES
  NoAppendAfterFailedLoad
