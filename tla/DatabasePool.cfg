SPECIFICATION Spec
CONSTANTS
  w1 = w1
  w2 = w2
  s1 = s1
  t = t
  u = u
  d = d
  p = p
  A = A
  B = B
  None = None
  Worker <- MCWorker
  Sync <- MCSync
  Op <- MCOp
  Transaction <- MCTransaction
  Direct <- MCDirect
  Faulty <- MCFaulty
  Row <- MCRow
  Rows <- MCRows
  AsyncTries = 2
  MaxLost = 1
INVARIANTS
  TypeOK
PROPERTIES
  ImplementsStore
  OperationsEnd
