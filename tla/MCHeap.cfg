CONSTANTS
  HEADER = 2
  PAGE = 4
  HEAP_MAX = 12
  Length = {1, 3}
  Alignment = {1, 4}
  ResizeAligned = FALSE
  FreeInside = FALSE
  NULL = NULL

SPECIFICATION FairSpec

INVARIANT TypeOK
INVARIANT Tiled
INVARIANT BuffersOwnBlocks
INVARIANT KfreeFindsHeader
INVARIANT StaleFreeRefused
PROPERTY KeepsPromise
PROPERTY CallsReturn
