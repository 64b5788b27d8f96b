\* Two callers, two starts and two stops, two events.
SPECIFICATION Spec
CONSTANTS
  Callers = {o1, o2}
  Workers = {w1, w2}
  Events = {e1, e2}
  ThreadNum = 1
  Delays = {0, 1}
  MaxNow = 1
  MaxStarts = 2
  MaxStops = 2
  Nobody = Nobody
SYMMETRY Symmetry
INVARIANTS QuietWhenStopped EventAtOnePlace NoneLost
\* Start() needs unused threads: with both in use its loop has nothing to create.
CHECK_DEADLOCK FALSE
