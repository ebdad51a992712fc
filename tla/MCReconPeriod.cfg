SPECIFICATION ReconSpec
CONSTANTS
  b1 = b1
  b2 = b2
  t1 = t1
  t2 = t2
  f1 = f1
  Batches = {b1, b2}
  From <- MCFrom
  To <- MCTo
  FinalDay = 3
  Flows = {f1}
  FlowDay <- MCFlowDay
  Amounts = {2}
  CountedBefore <- MCCountedBefore
  WriteDays = {1}
  Threads = {t1, t2}
  MaxWrites = 3
  MatchingMethods = {1, 2}
  Unmapped = 3
  Inputs <- MCInputs
INVARIANTS
  OneBatchADay
  BooksStayTrue
  RunLosesNothing
PROPERTIES
  FinalUnlessRaced
  DecisionsAreKept
CHECK_DEADLOCK FALSE
SYMMETRY Symmetry
