SPECIFICATION Spec
CONSTANTS
  h1 = h1
  A = A
  B = B
  w1 = w1
  w2 = w2
  none = none
  Headers = {h1}
  LineIds = {1, 2}
  Products = {A, B}
  Book <- MCBook
  Requests <- MCRequests
  Workers = {w1, w2}
  MaxRequests = 5
  NoHeader = none
INVARIANTS
  AuditTrail
  SubmitFreezesTotal
  OrphansOnlyByOverlap
PROPERTIES
  ApprovedOnlyByStale
CHECK_DEADLOCK FALSE
SYMMETRY WorkerSymmetry
