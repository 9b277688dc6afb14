SPECIFICATION Spec
CONSTANTS
  Chars <- MCChars
  Keys <- MCKeys
  KeysOf <- MCKeysOf
  Entries <- MCEntries
  Words <- MCWords
  SizeMod = 16
  NoStem = NoStem
INVARIANTS
  TreeInv
  LengthsAgree
  IndexLeadsHome
  ExactLookup
PROPERTIES
  TreeScanSpec
  PrefixSpec
  CallsEnd
