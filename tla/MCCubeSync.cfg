SPECIFICATION FairSpec
CONSTANTS
  Rows <- TwoRows
  Kinds = {"job", "manual"}
  PageSize = 1
  Overlap = 2
  Delay = 1
  MaxTime = 4
  MaxMoves = 2
  MaxFaults = 1
INVARIANTS
  NothingBehindWatermark
PROPERTIES
  NeverBackwards
  TargetHeals
CHECK_DEADLOCK FALSE
