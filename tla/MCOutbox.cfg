SPECIFICATION FairFlowSpec
CONSTANTS
  pos = pos
  member = member
  o1 = o1
  o2 = o2
  Services = {pos, member}
  Ops = {o1, o2}
  Tx <- MCTx
  Poison <- OnePoison
  BatchSize = 2
  MaxFaults = 2
  MaxSends = 2
  Sales <- MCSales
  Products = {1}
  Effect <- MCEffect
INVARIANTS
  NoStockWithoutSale
PROPERTIES
  SaleReachesStock
CHECK_DEADLOCK FALSE
