\* A queue of two places (kProcEvQueueMaxSize + 1), four events, two callbacks.
SPECIFICATION FairSpec
CONSTANTS
  Registrars = {r1, r2}
  kProcEvQueueMaxSize = 1
  MaxEvents = 4
  MaxIds = 2
INVARIANTS NoMissedWakeup QuietWhenStopped InOrder OverflowDropsOldest
INVARIANTS NothingElseLost RemovedIsSilent
PROPERTIES StopReturns EventLeaves
\* The monitor rests when it is stopped and nobody calls it.
CHECK_DEADLOCK FALSE
