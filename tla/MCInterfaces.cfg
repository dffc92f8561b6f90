CONSTANTS
  t1 = t1
  t2 = t2
  t3 = t3
  O = O
  A = A
  B = B
  I = I
  J = J
  NoThread = NoThread
  NoClass = NoClass
  Threads = {t1, t2, t3}
  Classes = {O, A, B, I, J}
  Programs <- MCPrograms
SPECIFICATION Spec
INVARIANT InterfacesFirst
