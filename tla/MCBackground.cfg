CONSTANTS
  Mutators = {t1}
  Compilers = {j1, j2}
  Methods = {m}
  NoMethod = NoMethod
  NoCode = NoCode
  Bridge = Bridge
  Loops = {m}
  Callers = {m}
  NoThread = NoThread
  InitialCapacity = 1
  ReservedCapacity = 2
  Megabyte = 2
  MaxCapacity = 2
  MaxCalls = 2
  MaxCompiles = 3
  MaxDepth = 1
  Delays = FALSE
  Requesters = {r1, r2}
  TaskIds = {j1, j2}
  Kinds = {"transition", "trim", "gc"}
  kWait = 1
  MaxTime = 1
  Client = client
  Workers = {w1, w2, w3}
  Tasks = {k1, k2}
SPECIFICATION MCSpec
INVARIANTS CodeInUseIsKept  ProfileIsKept NoOversleep PendingIsAlive
PROPERTIES WaitMeansDone WorkIsDone
