SPECIFICATION DeskSpec
CONSTANTS
  c1 = c1
  c2 = c2
  g1 = g1
  k1 = k1
  k2 = k2
  t1 = t1
  t2 = t2
  t3 = t3
  a = a
  b = b
  Product <- Two
  Key = {k1, k2}
  Owner = {c1, c2, g1}
  Txn = {t1, t2}
  Ops <- AllOps
  Others <- OtherOps
  Items0 <- DeskItems
  Orders0 <- DeskOrders
  Stock0 <- Stock22
  MaxRequests = 3
  MaxQuantity = 3
  Call = {a, b}
  MaxPressed = 2
INVARIANT ShownIsCommitted
PROPERTY ChangedAsPressed
SYMMETRY Interchangeable
CHECK_DEADLOCK FALSE
