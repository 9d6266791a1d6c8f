SPECIFICATION Spec
CONSTANTS
  Nodes = {n1, n2}
  Threads = {t1, t2, t3}
  Null = Null
  Should = 8
INVARIANT TypeOK
INVARIANT OneUser
INVARIANT NoneLost
INVARIANT OneAdder
PROPERTY LockFree
