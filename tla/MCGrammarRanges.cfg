CONSTANTS
  Tables <- MCTables
  Words <- MCWords
  NoTable = NoTable
  PlainTable <- MCPlainTable
  Texts <- MCTexts
SPECIFICATION Spec
INVARIANT TensesNumbered
