\* Two processes, three threads, an interrupt and a fault.
SPECIFICATION FairSpec
CONSTANTS
  Procs = {duo, solo}
  Threads = {t1, t2, u}
  ProcessOf <- TwoAndOne
  duo = duo
  solo = solo
  t1 = t1
  t2 = t2
  u = u
  Signals = {"SIGINT", "SIGSEGV"}
  Faults = {"SIGSEGV"}
  Frames = 2
  MaxSignals <- AsManyAsThreads
  Nobody = Nobody
INVARIANTS TracesWhole DeadLeftTrace
PROPERTY HandlerEnds
\* In the end every process is gone or gets no more signals.
CHECK_DEADLOCK FALSE
