SPECIFICATION FairSpec
CONSTANTS
  Count = 2
  Words = {w, v}
  NL = NL
  None = None
  Chunk = 2
  MaxText = 3
INVARIANTS
  MiTypeOK
  NeverBlocks
PROPERTIES
  ImplementsLineQueue
  NotStarved
