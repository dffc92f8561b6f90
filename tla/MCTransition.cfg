CONSTANTS
  Requesters = {r1}
  TaskIds = {t1, t2}
  Kinds = {"transition"}
  kWait = 1
  MaxTime = 2
SPECIFICATION Spec
INVARIANTS TransitionIsHonoured
