SPECIFICATION MemberSpec
CONSTANTS
  w1 = w1
  w2 = w2
  Sales <- MCSales
  Changes <- MCChanges
  Accounts <- MCAccounts
  Statuses <- MCStatuses
  Workers = {w1, w2}
  MaxCopies = 1
  MaxFaults = 2
INVARIANTS
  ColumnsAreLedger
  ExactAlone
  StatusIsLastChange
  AckedWasCredited
PROPERTIES
  FrozenDoesNotMove
CHECK_DEADLOCK FALSE
SYMMETRY WorkerSymmetry
