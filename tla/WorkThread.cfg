\* One worker, three works, any number of sessions.
SPECIFICATION FairSpec
CONSTANTS
  Works = {k1, k2, k3}
  None = None
PROPERTIES ImplementsFifo CancelledForGood StopReturns AwakeWorkerDrains
