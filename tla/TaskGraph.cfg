CONSTANTS
  w1 = w1
  w2 = w2
  a = a
  b = b
  c = c
  phase1 = phase1
  Null = Null
  Workers <- MCWorkers
  Tasks <- MCTasks
  Signals <- MCSignals
  IdOf <- MCIdOf
  Script <- FrameScript
  Programs <- FramePrograms

SPECIFICATION FairSpec

INVARIANTS
  NoDoubleResume
  NoLostTask
  NoMissedRaise
  DependenciesHold
  RunComplete

PROPERTIES
  RunReturns
  DestructorJoins
  KeepsPromise
