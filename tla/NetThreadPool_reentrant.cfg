\* The unbounded queue of HttpClient; task bodies call run() and may throw,
\* and start() may follow stop().
SPECIFICATION FairSpec
CONSTANTS
  Clients = {c1}
  Workers = {w1, w2}
  Tasks = {t1, t2, t3}
  Null = Null
  QueueSizes = {0}
  StartSizes = {1, 2}
  Throwing = {t1, t2, t3}
  NestedRun = TRUE
  Restart = TRUE
INVARIANTS OneTaskAfterStop
PROPERTY ImplementsFifo
\* The pool rests when nobody calls it.
CHECK_DEADLOCK FALSE
