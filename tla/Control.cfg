SPECIFICATION Spec
CONSTANTS
  warlock = warlock
  summoner = summoner
  siren = siren
  imp = imp
  wolf1 = wolf1
  wolf2 = wolf2
  eye = eye
  None = None
  Player <- MCPlayer
  Creature <- MCCreature
  Pet <- MCPet
  Guardian <- MCGuardian
  Puppet <- MCPuppet
  Master <- MCMaster
  Entry <- MCEntry
  Address <- MCAddress
  Charmable <- MCCharmable
  Area <- MCCreature
  Mortal <- MCMortal
  Fighter <- MCFighter
  Strays <- MCPet
INVARIANTS
  RegistersAgree
  FlagIsRight
PROPERTIES
  OnlyDyingPossessorsFail
