CONSTANTS
  MAX_PAGES = 6
  KERNEL_PAGES = 1
  Owner = {vmm, driver}
  NULL = NULL

SPECIFICATION FairSpec

INVARIANT TypeOK
INVARIANT Ownership
INVARIANT CountExact
INVARIANT ScanKnows
PROPERTY ImplementsAllocator
PROPERTY CallsReturn
