CONSTANTS
  MAX_TASKS = 3
  TimerCallbackRegistered = FALSE

SPECIFICATION FairSpec

PROPERTY CreatedTaskRuns
CHECK_DEADLOCK FALSE
