CONSTANTS
  l1 = l1
  l2 = l2
  j1 = j1
  r1 = r1
  FrameLists = {l1}
  FlushLists = {j1}
  RayLists = {r1}
  BBCount = 2
  MaxSync <- Bounds

SPECIFICATION Spec

INVARIANTS
  ResetOnlyWhenIdle
  OneHolder
  RenderTargetFree

CHECK_DEADLOCK FALSE
