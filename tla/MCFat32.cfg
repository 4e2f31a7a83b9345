SPECIFICATION FairSpec
CONSTANTS
  total_data_clusters = 4
  entries_per_sector = 4
  UNITS = 2
  Command <- MCCommand
  Failures = {"read", "write", "fat"}
  MaxMishaps = 1
  NULL = NULL
  x = x
  y = y
INVARIANTS
  TypeOK
  
  NothingLeaks
  
  DirectoriesSound
PROPERTIES
  KeepsPromise
  CommandsReturn
