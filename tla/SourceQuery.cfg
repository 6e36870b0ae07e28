SPECIFICATION Spec
CONSTANTS
  NULL = NULL
  Field <- MCField
  Type <- MCType
  Searchable = {"title"}
  HasTarget = {"genre"}
  Combine = {}
  CiSubstr <- MCCiSubstr
  CiSubstrPunct <- MCCiSubstrPunct
  SameText <- MCSameText
  Tokens <- MCTokens
  Position <- MCPosition
  Label <- MCLabel
  FtsHandles <- MCFtsHandles
  FtsFinds <- MCFtsFinds
  Number <- MCNumber
  TextBefore <- MCTextBefore
  MaxFields = 3
  MaxValues = 3
  Width = 8
  r1 = r1
  r2 = r2
  r3 = r3
  RowId = {r1, r2, r3}
  Rows <- MCRows
  Queries <- MCQueries
  FaultyQueries <- MCFaultyQueries
SYMMETRY RowSymmetry
INVARIANTS
  AnswerIsWhatFiltersMean
  OnlyReferencesAreLost
  PagesFollowTheAnswer
  AnswerIsSorted
