CONSTANTS
  Mutators = {t1}
  Compilers = {j1, j2}
  Methods = {m}
  NoMethod = NoMethod
  NoCode = NoCode
  Bridge = Bridge
  Loops = {m}
  Callers = {m}
  NoThread = NoThread
  InitialCapacity = 1
  ReservedCapacity = 2
  Megabyte = 2
  MaxCapacity = 2
  MaxCalls = 3
  MaxCompiles = 3
  MaxDepth = 1
  Delays = TRUE
SPECIFICATION Spec
INVARIANT EntryPointsAreMarked
