SPECIFICATION Spec
CONSTANTS
  c1 = c1
  c2 = c2
  g1 = g1
  k1 = k1
  k2 = k2
  t1 = t1
  t2 = t2
  t3 = t3
  Product <- Two
  Key = {k1, k2}
  Owner = {c1, c2, g1}
  Txn = {t1, t2, t3}
  Ops <- RaceOps
  Items0 <- RaceItems
  Orders0 <- NoOrders
  Stock0 <- Stock31
  MaxRequests = 6
  MaxQuantity = 3
INVARIANT LockDiscipline
INVARIANT TypeOK
INVARIANT StockConserved
INVARIANT NoOrderDeadlock
PROPERTY ImplementsLedger
SYMMETRY Txns
CHECK_DEADLOCK FALSE
