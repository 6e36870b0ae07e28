SPECIFICATION Spec
CONSTANTS
  song = song
  Source = {song}
  MaxEntries = 2
  MaxHandle = 11
  MaxResults = 1
  Fresh <- LowestUnused
  OpenFails = TRUE
INVARIANTS
  TypeOK
  NoLeak
  OneOwner
