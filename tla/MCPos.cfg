SPECIFICATION PosSpec
CONSTANTS
  i1 = i1
  i2 = i2
  r1 = r1
  r2 = r2
  o1 = o1
  o2 = o2
  o3 = o3
  c1 = c1
  c2 = c2
  none = none
  f1 = f1
  f2 = f2
  f3 = f3
  f4 = f4
  Instances = {i1, i2}
  Requests = {r1, r2}
  ServedBy <- MCServedBy
  Ops = {o1, o2, o3}
  NoOp = none
  MaxIDAttempts = 2
  LastDay = 2
  MaxFaults = 2
  Sold <- MCSold
  Pays <- MCPays
  Refunds <- MCRefunds
  Overrides <- MCOverrides
  Clerks = {c1, c2}
  NoClerk = none
INVARIANTS
  OrdersAreUnique
  NeverOverReturned
  EventsMatchLines
  ReturnedMeansAll
  PaidBackIsEventTotal
SYMMETRY Symmetry
