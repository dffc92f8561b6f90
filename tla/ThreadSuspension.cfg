CONSTANTS
  NoThread = NoThread
  Threads = {a, b, c}
  Initial = {a, b, c}
  Suspenders = {a, b}
  Requesters = {a, b}
  Detachers = {a, b, c}
  kMaxSuspendBarriers = 1
SPECIFICATION FairSpec
INVARIANTS
  ExclusiveMeansSuspended  NoLostResume RequestedThreadIsKept NoSuspensionCycle
 
