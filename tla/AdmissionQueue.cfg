SPECIFICATION Spec
CONSTANTS
  a = a
  b = b
  c = c
  None = None
  Account <- MCAccount
  Session <- MCSession
  Skips <- MCSkips
  MaxAdding = 1
  Limit = 1
  Tolerance = 1
SYMMETRY Alike
INVARIANTS
  QueueIsLive
  FullWhileQueued
PROPERTIES
  LimitIsKept
  QueueIsFair
  LoadingIsKept
