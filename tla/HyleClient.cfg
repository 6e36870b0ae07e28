SPECIFICATION ClientSpec
CONSTANTS
  c1 = c1
  c2 = c2
  Caller = {c1, c2}
  Viewer = {c1}
  Blueprints <- MCBlueprints
  Worlds <- MCWorlds
  Asks <- MCAsks
  FieldTypes <- MCFieldTypes
  FieldValues <- MCFieldValues
  MaxNesting = 3
  RawTexts <- MCRawTexts
INVARIANTS
  ReadyMeansUsable
  EveryCallerHearsTheSame
  PlannedViewShowsNames
PROPERTY
  EveryLoadSettles
