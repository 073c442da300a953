CONSTANTS
  x1 = x1
  Items = {x1}
  BlockSize = 3
  Sizes = {2}
  Alignments = {1}
  MaxSync = 3
  MaxBlocks = 3
  MaxHeld = 1

SPECIFICATION Spec

INVARIANTS
  FreeIsFinished

CHECK_DEADLOCK FALSE
