SPECIFICATION Spec
CONSTANTS
  Stems <- MCStems
  IdForms = {0, 1, 3, 255}
  Caps <- MCCaps
  MaxHits = 3
INVARIANTS
  FormTypeOK
  FormsWhole
  FormsComplete
