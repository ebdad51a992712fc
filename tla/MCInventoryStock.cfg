SPECIFICATION FairSpec
CONSTANTS
  sale = sale
  refund = refund
  empty = empty
  A = A
  B = B
  w1 = w1
  w2 = w2
  none = none
  Events = {sale, refund, empty}
  Products = {A, B}
  Groups <- MCGroups
  Workers = {w1, w2}
  NoWorker = none
  ImportQty <- MCImportQty
  MaxCopies = 1
  MaxFaults = 1
  MaxImports = 1
PROPERTIES
  ImplementsLedger
  EventuallyApplied
CHECK_DEADLOCK FALSE
