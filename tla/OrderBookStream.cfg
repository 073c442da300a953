CONSTANTS
  bids = bids
  Sides = {bids}
  Ranks = {1, 2, 3}
  Depth = 1
  MaxBuffered = 3
  MaxChanges = 4
  MaxStreams = 2

SPECIFICATION FairSpec

INVARIANTS
  BookIsExact
  GapMeansOvertaken
  NeverAhead

PROPERTIES
  NeverBack
  EndsInBook

CHECK_DEADLOCK FALSE
