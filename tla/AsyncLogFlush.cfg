CONSTANTS
  w1 = w1
  w2 = w2
  m1 = m1
  m2 = m2
  Writers = {w1}
  Messages = {m1}
  NoMessage = NoMessage
  BatchSize = 0
  FenceRange = 65536
  MaxWrites = 1
  MaxFences = 1

SPECIFICATION FairSpec

PROPERTIES
  FlushReturns
