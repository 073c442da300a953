CONSTANTS
  LineWidth = 3
  CacheCount = 3
  FileSizes = {0, 4, 6, 9, 15}
  MaxBuilds = 3

SPECIFICATION IndexFairSpec

INVARIANTS
  IndexTypeOK
  Ordered
  ShowsTheEnd
  FlagMeansReload
  QuietKnowsAll

PROPERTIES
  ReloadEnds

CHECK_DEADLOCK FALSE
