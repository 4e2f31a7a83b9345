CONSTANTS
  HEADER = 2
  PAGE = 4
  HEAP_MAX = 12
  Length = {1, 3}
  Alignment = {1, 4}
  ResizeAligned = TRUE
  FreeInside = FALSE
  NULL = NULL

SPECIFICATION Spec

INVARIANT KfreeFindsHeader
