CONSTANTS
  MAX_TASKS = 3
  TimerCallbackRegistered = TRUE

SPECIFICATION FairSpec

INVARIANT TypeOK
INVARIANT CpuFollowsTask
 
INVARIANT UserStacksPrivate
INVARIANT BoundedWait
PROPERTY NoResurrection
PROPERTY CreatedTaskRuns
CHECK_DEADLOCK FALSE
