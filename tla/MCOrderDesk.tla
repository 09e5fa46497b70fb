----------------------------- MODULE MCOrderDesk -----------------------------
(* A tab of the order pages beside a checkout and another session of the    *)
(* merchant.                                                                *)
EXTENDS MCStorefront, OrderDesk

CONSTANTS a, b

OtherOps == {CancelOf(1), Stage(1, "processing"), Stage(1, "shipped"), Checkout(c1, k2)}
PageOps == {Stage(i, f) : i \in {1, 2}, f \in Fulfilment \ {"unfulfilled"}}
           \cup {CancelOf(1), CancelOf(2)}
AllOps == OtherOps \cup PageOps

Interchangeable == Permutations({t1, t2}) \cup Permutations({a, b})
===============================================================================
