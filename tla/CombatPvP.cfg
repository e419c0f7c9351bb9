CONSTANTS
  c1 = c1
  p1 = p1
  p2 = p2
  Unit <- MCUnit
  ThreatOwner <- MCNone
  Player <- MCUnit
  Charmable <- MCNone
  Fickle <- MCNone
  PvPTimeout = 2
SPECIFICATION Spec
PROPERTIES
  ReactivationIsMutual
  PvPCombatExpires
