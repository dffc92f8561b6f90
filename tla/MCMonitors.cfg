CONSTANTS
  a = a
  b = b
  c = c
  d = d
  e = e
  NoThread = NoThread
  Monitors = {m1, m2}
SPECIFICATION MCSpec
SYMMETRY Interchangeable
INVARIANTS NoLostUpdate InstallNeverAborts MonitorInUseIsKept NobodyIsStranded
PROPERTIES ImplementsJavaMonitor
