\* A queue of one place or unbounded, task bodies that do not call run().
SPECIFICATION FairSpec
CONSTANTS
  Clients = {c1, c2}
  Workers = {w1, w2}
  Tasks = {t1, t2, t3}
  Null = Null
  QueueSizes = {1}
  StartSizes = {1, 2}
  Throwing = {}
  NestedRun = FALSE
  Restart = FALSE
INVARIANTS TypeOK ItemsHaveTakers SpaceHasPosters TeardownSafe
PROPERTIES CallReturns TaskStarts StopReturns
\* The pool rests when nobody calls it.
CHECK_DEADLOCK FALSE
