SPECIFICATION Spec
CONSTANTS
  a = a
  b = b
  g = g
  None = None
  Player <- MCParty
  Group <- MCGroup
  GroupOf <- MCPartyOf
  Leader <- MCLeader
  Quitter <- MCOther
  MaxId = 2
  ResetDelay = 1
  Crashes = TRUE
INVARIANTS
  TypeOK
  BindsAgree
  NextIsLowestFree
PROPERTIES
  EntersOwnInstance
