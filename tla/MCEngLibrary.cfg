SPECIFICATION Spec
CONSTANTS
  Classes <- MCClasses
  Dicts <- MCDicts
  WordMax = 10
  Asked <- MCAsked
  Patterns <- MCPatterns
  Lexemes <- MCLexemes
  IdForms = {0, 2}
  FlagSets <- MCFlagSets
  LemmRooms <- MCLemmRooms
  TextRooms = {14, 65535, 65542}
  GramSize = 6
  ListMax = 2
INVARIANTS
  EngTypeOK
  EngReadings
  EngFormsBack
  EngHelp
  EngLexemes
