CONSTANTS
  o1 = o1
  o2 = o2
  Objects = {o1, o2}
  MaxSync = 3
  MaxQueue = 3

SPECIFICATION FairSpec

INVARIANTS
  AliveWhileUsed
  SweptWhenNotified

PROPERTIES
  ReleasedAtLast

CHECK_DEADLOCK FALSE
