SPECIFICATION FairSpec
CONSTANTS
  p1 = p1
  title = title
  artist = artist
  empty = empty
  a = a
  b = b
  NULL = NULL
  Empty = empty
  Derived = {}
  Overlap = {}
  LoadFails = TRUE
  SaveFails = TRUE
  StrayPuts = TRUE
  Searchable = {title}
  Encodable = {a}
  Part <- OnePart
  RowId <- OnePartRows
  MaxLen = 3
  Field <- OneField
  Value <- TwoTexts
  Record = FALSE
  MallocFails = TRUE
  Items <- AOrNothing
  Decodable <- TwoTexts
INVARIANTS
  Contiguous
  SearchFollowsRows
