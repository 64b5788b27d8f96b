\* Instances start together and there is no file.
SPECIFICATION Spec
CONSTANTS
  Procs = {4, 15, 16}
  StalePid = 7
  Worlds <- RaceWorlds
  None = None
INVARIANT AtMostOneRuns
\* In the end every instance runs or is gone.
CHECK_DEADLOCK FALSE
