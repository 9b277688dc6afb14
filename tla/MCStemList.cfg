SPECIFICATION Spec
CONSTANTS
  Stems <- LineStems
  Rests <- MCRests
  MaxEntries = 3
  Tables <- MCTables
  NoTable = NoTable
  Lines <- MCLines
  FlexSources <- MCFlexSources
  MixSources <- MCMixSources
INVARIANTS
  ListTypeOK
  BoundsFall
  CallsAreReadings
  NoneLost
  ParadigmRead
PROPERTY
  LookupEnds
