SPECIFICATION Spec
CONSTANTS
  Words <- MCWords
  Forms <- MCForms
  Sizes = {10}
  NoStem = NoStem
INVARIANT CapitalizedAccepted
