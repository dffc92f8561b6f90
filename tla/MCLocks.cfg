SPECIFICATION MCSpec
CONSTANTS
  Threads = {t1, t2}
  NoThread = NoThread
  Recursive = TRUE
  Responds = TRUE
  MaxDepth = 2
  MaxSequence = 2
  RWThreads = {t1, t2, t3}
  Asked = {t1}
INVARIANTS MutualExclusion NoStrandedSleeper BroadcastReachesAll NoStrandedWaiter
PROPERTIES ImplementsAbstractLock ImplementsRWLock  LocksProgress
