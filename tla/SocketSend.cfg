SPECIFICATION Spec
CONSTANTS
  net = net
  w = w
  m = m
  challenge = challenge
  answer = answer
  p1 = p1
  p2 = p2
  p3 = p3
  Dummy = Dummy
  Nil = Nil
  Node <- MCNode
  Thread <- MCThread
  Consumer = net
  Sender <- MCSender
  Challenge = challenge
  Answer = answer
  BufferSize = 2
CHECK_DEADLOCK FALSE
INVARIANTS
  WireInOrder
  NothingDeletedIsUsed
PROPERTIES
  ConnectionProgresses
