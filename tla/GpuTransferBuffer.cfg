CONSTANTS
  x1 = x1
  Items = {x1}
  BlockSize = 3
  Sizes = {1, 4}
  Alignments = {2}
  MaxSync = 3
  MaxBlocks = 3
  MaxHeld = 2

SPECIFICATION Spec

INVARIANTS
  OnePlace
  HeldStaysAlive
  LookupIsCurrent
  DestroyedWhenIdle

CHECK_DEADLOCK FALSE
