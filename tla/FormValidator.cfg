SPECIFICATION Spec
CONSTANTS
  NULL = NULL
  Length <- MCLength
  IntOf <- MCIntOf
  Compiles <- MCCompiles
  Matches <- MCMatches
  JsCompiles <- MCCompiles
  JsMatches <- MCJsMatches
  AllocFails = TRUE
  Names = {"name", "credits"}
  JsValues <- MCValues
  Schemas <- MCSchemas
  MoreFields <- MCMoreFields
  Listener = {l1, l2}
  MaxWrites = 2
  MaxDepth = 2
INVARIANTS
  TypeOK
  LastHeardIsCurrent
  NoUpdateMissed
  ServerAgrees
  CallerFreesAll
PROPERTY
  OnlySubscribersAreCalled
SYMMETRY ListenersAlike
