\* One owner that starts, stops and restarts one worker, two events.
SPECIFICATION FairSpec
CONSTANTS
  Callers = {o1}
  Workers = {w1}
  Events = {e1, e2}
  ThreadNum = 1
  Delays = {1}
  MaxNow = 1
  MaxStarts = 2
  MaxStops = 1
  Nobody = Nobody
PROPERTIES StopReturns PostedRuns DelayedLeaves
\* In the end nobody calls and nothing is posted.
CHECK_DEADLOCK FALSE
