CONSTANTS
  w1 = w1
  w2 = w2
  m1 = m1
  m2 = m2
  Writers = {w1, w2}
  Messages = {m1, m2}
  NoMessage = NoMessage
  BatchSize = 2
  FenceRange = 65536
  MaxWrites = 4
  MaxFences = 2

SYMMETRY WriterSymmetry

SPECIFICATION Spec

INVARIANTS
  TypeOK
  InOrder
  FlushIsBarrier
  DrainedAtEnd
