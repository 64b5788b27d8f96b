\* Three instances, in order and out of it.
SPECIFICATION FairSpec
CONSTANTS
  Procs = {4, 15, 16}
  StalePid = 7
  Worlds <- EveryWorld
  None = None
INVARIANT RunnerRecorded
PROPERTIES SomeoneRuns CheckEnds
\* In the end every instance runs or is gone.
CHECK_DEADLOCK FALSE
