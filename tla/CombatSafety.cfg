CONSTANTS
  c1 = c1
  p1 = p1
  p2 = p2
  Unit <- MCUnit
  ThreatOwner <- MCThreatOwner
  Player <- MCPlayer
  Charmable <- MCCharmable
  Fickle <- MCFickle
  PvPTimeout = 1
SPECIFICATION Spec
SYMMETRY Players
INVARIANTS
  TypeOK
  RefsMatched
  FlagIffActiveRef
  ThreatImpliesCombat
  RefsOnlyPresent
PROPERTIES
  ImplementsCombatSpec
