CONSTANTS
  NoThread = NoThread
  Threads = {a, b, c}
  Initial = {a, b, c}
  Suspenders = {b}
  Requesters = {}
  Detachers = {}
  Checkpointers = {a}
  Agents = {a, b}
  kMaxSuspendBarriers = 1
SPECIFICATION CheckpointSpec
INVARIANT LoweredCountIsBroadcast
