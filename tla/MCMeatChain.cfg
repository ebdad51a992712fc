SPECIFICATION MeatSpec
CONSTANTS
  Cuts = {1, 2, 3}
  PigDays <- MCPigDays
  CountDays <- MCCountDays
  Splits <- MCSplits
  t1 = t1
  t2 = t2
  LastDay = 3
  Net <- MCNet
  Kgs = {1, 3}
  MaxSeq = 1
  Threads = {t1, t2}
  MaxRequests = 2
  MaxFailures = 1
INVARIANTS
  SplitKeepsWeightAndCost
  QuietIsFresh
  CounterIsRows
  NoLoadBeforeStart
CHECK_DEADLOCK FALSE
SYMMETRY Symmetry
