CONSTANTS
  a = a
  b = b
  Size = 6
  Descriptors = {a, b}
  Tables <- MCTables
  MaxSync = 4

SPECIFICATION Spec

INVARIANTS
  Intact
  IdleHasRoom
