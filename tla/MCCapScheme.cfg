SPECIFICATION Spec
CONSTANTS
  Words <- MCWords
  Forms <- MCForms
  Sizes = {3, 4, 10, 40}
  NoStem = NoStem
INVARIANTS
  CapTypeOK
  VerdictByParts
  WritesBack
  OwnFormsAccepted
PROPERTY
  Answered
