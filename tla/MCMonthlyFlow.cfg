SPECIFICATION FlowSpec
CONSTANTS
  b0 = b0
  b1 = b1
  b2 = b2
  g1 = g1
  g2 = g2
  jan = jan
  nomonth = nomonth
  nobill = nobill
  Bills = {b0, b1, b2}
  Old = {b0}
  ByRegex <- MCByRegex
  ByTable <- MCByTable
  NoMonth = nomonth
  Workers = {g1, g2}
  NoBill = nobill
  MaxOdd = 0
INVARIANTS
  UnsatisfiedIsRejected
SYMMETRY FlowSymmetry
CHECK_DEADLOCK FALSE
