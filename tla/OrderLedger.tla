------------------------------ MODULE OrderLedger ------------------------------
(***************************************************************************)
(* What the orders app of the server promises about one tenant's stock and *)
(* orders, with every request taken as one atomic step: an order is placed *)
(* once per idempotency key and takes its units out of stock, a cancelled  *)
(* order gives exactly those units back, and fulfilment moves one step at  *)
(* a time and never on a cancelled order.  Storefront is the detailed      *)
(* specification that implements this one.                                 *)
(***************************************************************************)
EXTENDS OrderRecord

VARIABLES
  stock,   \* stock[p] is Product.stock_quantity
  orders   \* the placed orders, in the order of their commits

ledgerVars == <<stock, orders>>

-------------------------------------------------------------------------------
LedgerInit ==
  /\ stock \in [Product -> Nat]
  /\ orders \in OrderTables

\* Every quantity some product's stock still covers.
InStock == UNION {0..stock[p] : p \in Product}

Place(k, o, lines) ==
  /\ ~ KeyIn(k, orders)
  /\ \E p \in Product : lines[p] > 0
  /\ \A p \in Product : lines[p] <= stock[p]
  /\ stock' = [p \in Product |-> stock[p] - lines[p]]
  /\ orders' = Append(orders, NewOrder(k, o, lines))

Cancel(i) ==
  /\ orders[i].status = "confirmed"
  /\ orders[i].fulfil \in InStore
  /\ stock' = [p \in Product |-> stock[p] + orders[i].lines[p]]
  /\ orders' = [orders EXCEPT ![i].status = "cancelled"]

Advance(i) ==
  /\ orders[i].status = "confirmed"
  /\ NextStage(orders[i].fulfil) \in Fulfilment
  /\ orders' = [orders EXCEPT ![i].fulfil = NextStage(@)]
  /\ UNCHANGED stock

\* The merchant's product form sets the stock to any number.
SetStock(p) ==
  /\ stock'[p] \in Nat
  /\ stock' = [stock EXCEPT ![p] = stock'[p]]
  /\ UNCHANGED orders

LedgerNext ==
  \/ \E k \in Key, o \in Owner, lines \in [Product -> InStock] : Place(k, o, lines)
  \/ \E i \in 1..Len(orders) : Cancel(i) \/ Advance(i)
  \/ \E p \in Product : SetStock(p)

LedgerSpec == LedgerInit /\ [][LedgerNext]_ledgerVars
===============================================================================
