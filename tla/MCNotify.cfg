CONSTANTS
  NoThread = NoThread
  Threads = {a, b, c}
  Monitors = {m1, m2}
  Hashes = {1}
  kThinLockMaxCount = 0
  kUseReadBarrier = FALSE
  MaxDepth = 1
  Ops = {"enter", "exit", "wait", "notify", "interrupt"}
SPECIFICATION Spec
PROPERTIES NotifyWakesASleeper
