SPECIFICATION Spec
CONSTANTS
  v1 = v1
  v2 = v2
  v3 = v3
  None = None
  Victim <- MCThree
  Level <- MCLevel
  Hidden <- MCOne
  Shielded <- MCOne
  Mobile <- MCTwo
  Taunter <- MCOne
INVARIANTS
  TypeOK
  CurrentIsAvailable
PROPERTIES
  TargetIsAttacked
  VictimIsSticky
  NobodyOvertakes
