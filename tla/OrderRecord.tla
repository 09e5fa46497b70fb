------------------------------ MODULE OrderRecord ------------------------------
(* The rows of the Order table with their OrderItems (server/orders/models.py), *)
(* for the ledger and for the storefront that implements it.                    *)
EXTENDS Naturals, Sequences

CONSTANTS
  Product,  \* products, as their positions in Product.Meta.ordering
  Owner,    \* owners of carts and orders: customers and guest sessions
  Key       \* values of the Idempotency-Key header

Fulfilment == {"unfulfilled", "processing", "shipped", "delivered"}

\* The stages in which cancel_order still cancels.
InStore == {"unfulfilled", "processing"}

\* AdminOrderStatusSerializer.transitions; delivered has no successor.
NextStage(f) ==
  CASE f = "unfulfilled" -> "processing"
    [] f = "processing"  -> "shipped"
    [] f = "shipped"     -> "delivered"
    [] OTHER             -> "none"

Status == {"confirmed", "cancelled"}

\* lines[p]: the quantity of p ordered.  Totals, prices and the address follow
\* from the lines and the request and are left out.
Order == [key    : Key,
          owner  : Owner,
          lines  : [Product -> Nat],
          status : Status,
          fulfil : Fulfilment]

NewOrder(k, o, lines) ==
  [key |-> k, owner |-> o, lines |-> lines,
   status |-> "confirmed", fulfil |-> "unfulfilled"]

KeyIn(k, orders) == \E i \in 1..Len(orders) : orders[i].key = k

\* Tables the application can have built: a key has one order, and a cancelled
\* order never left the store.
OrderTables ==
  {s \in Seq(Order) :
     /\ \A i, j \in 1..Len(s) : s[i].key = s[j].key => i = j
     /\ \A i \in 1..Len(s) : s[i].status = "cancelled" => s[i].fulfil \in InStore}
===============================================================================
