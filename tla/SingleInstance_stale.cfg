\* A file left behind by a dead instance, one launch after the other.
SPECIFICATION Spec
CONSTANTS
  Procs = {4, 15, 16}
  StalePid = 7
  Worlds <- StaleWorlds
  None = None
INVARIANT AtMostOneRuns
\* In the end every instance runs or is gone.
CHECK_DEADLOCK FALSE
