SPECIFICATION AuditorSpec
CONSTANTS
  s1 = s1
  Approvals = {b1, b2}
  Settlements = {s1}
  Want <- MCWant
  Threads = {g1, g2}
  MaxCommands = 2
  MaxRare = 2
  NoApproval = nobill
  b0 = b0
  b1 = b1
  b2 = b2
  g1 = g1
  g2 = g2
  jan = jan
  nomonth = nomonth
  nobill = nobill
  Bills = {b0, b1, b2}
  Old = {b0}
  ByRegex <- MCByRegex
  ByTable <- MCByTable
  NoMonth = nomonth
  Workers = {g1, g2}
  NoBill = nobill
  MaxOdd = 1
INVARIANTS
  BookedWasPassed
  BookedStaysPaid
  OneFormUnlessLoose
  OneSatisfiedPerMonth
CHECK_DEADLOCK FALSE
SYMMETRY FlowSymmetry
