CONSTANTS
  MAX_TASKS = 3
  TimerCallbackRegistered = TRUE

SPECIFICATION FairSpec

INVARIANT SysretOwnStack
CHECK_DEADLOCK FALSE
