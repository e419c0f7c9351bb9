SPECIFICATION Spec
CONSTANTS
  u = u
  v = v
  w = w
  p = p
  d = d
  i = i
  j = j
  None = None
  Worker <- MCThree
  Base <- MCBase
  Instance <- MCInstance
  Parent <- MCParent
INVARIANTS
  TypeOK
PROPERTIES
  ImplementsRounds
  RoundsEnd
