CONSTANTS
  t1 = t1
  t2 = t2
  t3 = t3
  w = w
  fin = fin
  x = x
  y = y
  O = O
  A = A
  B = B
  I = I
  J = J
  Null = Null
  NoThread = NoThread
  NoClass = NoClass
  Threads = {t1, t2}
  Objects = {w, fin, x, y}
  Heaps <- MCHeaps
  MaxOps <- MCMaxOps
  MarkStackCapacity = 1
  Users = {t1, t2, t3}
  Classes = {O, A, B, I, J}
  LoadPrograms <- MCLoadPrograms
  InitPrograms <- MCInitPrograms
SPECIFICATION MCSpec
INVARIANTS
  ToSpaceInvariant NoFromSpaceRefs MarkingConverges
  ClassIsUnique SuperClassFirst ClassChecksHold
PROPERTIES
  ReferentDiscipline InitializedWhenUsed 
