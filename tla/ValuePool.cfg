SPECIFICATION Spec
CONSTANTS
  Token <- MCToken
  Texts <- MCTexts
  Scalars <- MCScalars
  FieldNames <- MCFieldNames
  InitialCap = 4
  MaxIds = 3
  MaxCalls = 6
  AllocFails = TRUE
INVARIANTS
  TypeOK
  JsonFits
  OnlyTheTextIsHeld
PROPERTIES
  OnlyTheTargetChanges
CHECK_DEADLOCK FALSE
