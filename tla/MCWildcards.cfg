SPECIFICATION Spec
CONSTANTS
  Stems <- MCStems
  MaxStems = 2
  Patterns <- MCPatterns
  MaxPattern = 6
  Rooms <- MCRooms
INVARIANTS
  WildTypeOK
  HelpExact
  ToldMatch
  NoneUntold
