SPECIFICATION Spec
CONSTANTS
  p1 = p1
  p2 = p2
  p3 = p3
  p4 = p4
  g1 = g1
  g2 = g2
  None = None
  Player <- MCFour
  Group <- MCGroup
  Size = 3
  Votes = 2
  Compatible <- MCOneTank
  Sleepers <- MCSleepers
  Victims <- MCSleepers
SYMMETRY Alike
INVARIANTS
  OnePlace
  EntriesAreWhole
  GroupsAgree
  NoMatchIsMissed
PROPERTIES
  TheyGoTogether

