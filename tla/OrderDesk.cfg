SPECIFICATION Spec
CONSTANTS
  c1 = c1
  c2 = c2
  g1 = g1
  k1 = k1
  k2 = k2
  t1 = t1
  t2 = t2
  t3 = t3
  Product <- Two
  Key = {k1, k2}
  Owner = {c1, c2, g1}
  Txn = {t1, t2, t3}
  Ops <- DeskOps
  Items0 <- DeskItems
  Orders0 <- DeskOrders
  Stock0 <- Stock22
  MaxRequests = 5
  MaxQuantity = 3
INVARIANT CancelledNeverShipped
PROPERTY ImplementsLedger
SYMMETRY Txns
CHECK_DEADLOCK FALSE
