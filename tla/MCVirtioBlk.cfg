CONSTANTS
  QUEUE_SIZE = 6
  NUM_DMA_SLOTS = 2
  IDX_MAX = 3
  Sector = {s1, s2}
  Value = {zero, one}
  ZERO = zero
  NULL = NULL

SPECIFICATION FairSpec

INVARIANT TypeOK
INVARIANT DescriptorsAccounted
INVARIANT NothingHeldBetweenCalls
INVARIANT InStep
PROPERTY KeepsPromise
PROPERTY CallsReturn
CHECK_DEADLOCK FALSE
