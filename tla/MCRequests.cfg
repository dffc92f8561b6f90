CONSTANTS
  Threads = {a, b, c}
  NoThread = NoThread
  Initial = {a, b, c}
  Suspenders = {b}
  Requesters = {b}
  Detachers = {c}
  Collectors = {a}
  Natives = {c}
  Checkpointers = {a, b}
  Agents = {a, b}
  MaxNesting = 2
  kMaxSuspendBarriers = 1
SPECIFICATION MCSpec
INVARIANTS FlippedBeforeRunning NoFlipInCritical CheckpointReachesAll PendingCheckpointKeepsRunnable
PROPERTIES RequestsComplete
