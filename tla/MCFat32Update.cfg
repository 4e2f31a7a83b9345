SPECIFICATION FairSpec
CONSTANTS
  total_data_clusters = 4
  entries_per_sector = 4
  UNITS = 2
  Command <- MCUpdateCommand
  Failures = {}
  MaxMishaps = 0
  NULL = NULL
  x = x
  y = y
PROPERTY
  WriteRecorded
