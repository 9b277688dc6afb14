SPECIFICATION Spec
CONSTANTS
  lexA = lexA
  lexB = lexB
  Lexemes = {lexA, lexB}
  None = None
  FormSizes = {1, 2}
  FlexLists <- MCFlexLists
  LemmaCaps <- MCLemmaCaps
  FormCaps <- MCFormCaps
  GramCaps <- MCGramCaps
  Wide = 2
  MaxHits = 3
INVARIANTS
  TypeOK
  FormsComplete
  GramsOwned
  ErrorNamesFullArray
  NeighboursDiffer
PROPERTY
  CountSpec
