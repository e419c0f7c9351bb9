SPECIFICATION Spec
CONSTANTS
  a = a
  b = b
  g = g
  None = None
  Player <- MCParty
  Group <- MCNobody
  GroupOf <- MCAlone
  Leader <- MCNoLeader
  Quitter <- MCNobody
  MaxId = 2
  ResetDelay = 1
  Crashes = FALSE
INVARIANTS
  IdsAreReleased
