----------------------------- MODULE MCStorefront -----------------------------
(* Small instances of Storefront: one constant assignment per question.     *)
EXTENDS Storefront, TLC

CONSTANTS c1, c2, g1, k1, k2, t1, t2, t3

Blank == [kind |-> "add", who |-> c1, guest |-> g1, product |-> 1, qty |-> 1,
          key |-> k1, order |-> 1, to |-> "unfulfilled", field |-> "details"]

Add(o, p, n)   == [Blank EXCEPT !.kind = "add", !.who = o, !.product = p, !.qty = n]
Patch(o, p, n) == [Blank EXCEPT !.kind = "patch", !.who = o, !.product = p, !.qty = n]
Remove(o, p)   == [Blank EXCEPT !.kind = "delete", !.who = o, !.product = p]
Claim(o, g)    == [Blank EXCEPT !.kind = "claim", !.who = o, !.guest = g]
Checkout(o, k) == [Blank EXCEPT !.kind = "checkout", !.who = o, !.key = k]
CancelOf(i)    == [Blank EXCEPT !.kind = "cancel", !.order = i]
Stage(i, f)    == [Blank EXCEPT !.kind = "status", !.order = i, !.to = f]
Edit(p, f, n)  == [Blank EXCEPT !.kind = "edit", !.product = p, !.field = f, !.qty = n]

Txns == Permutations({t1, t2, t3})

Two == {1, 2}
Lines(m, n) == <<m, n>>
Stock22 == <<2, 2>>
Stock31 == <<3, 1>>
Empty == <<0, 0>>

Open(k, o, m, n, f) == [key |-> k, owner |-> o, lines |-> Lines(m, n),
                        status |-> "confirmed", fulfil |-> f]
NoOrders == <<>>

(* Two customers after the same products, a repeated key, a cancellation.   *)
RaceOps == {Checkout(c1, k1), Checkout(c1, k2), Checkout(c2, k2), CancelOf(1), CancelOf(2)}
RaceItems == (c1 :> Lines(2, 1)) @@ (c2 :> Lines(1, 1)) @@ (g1 :> Empty)

(* A guest signs in while the guest cart is in use; the customer adds,      *)
(* changes, removes, claims and checks out in several tabs.                 *)
TabOps == {Add(c1, 2, 1), Patch(c1, 1, 2), Remove(c1, 1),
           Checkout(c1, k1), Checkout(c1, k2),
           Claim(c1, g1), Add(g1, 1, 1), Patch(g1, 1, 1), Checkout(g1, k1)}
TabItems == (c1 :> Lines(1, 0)) @@ (g1 :> Lines(1, 1))

(* The merchant cancels, ships and edits what customers order.              *)
DeskOps == {CancelOf(1), CancelOf(2), Checkout(c1, k2), Edit(1, "stock", 3),
            Edit(1, "details", 1), Edit(2, "active", 1)}
           \cup {Stage(1, f) : f \in Fulfilment}
DeskOrders == <<Open(k1, c2, 1, 1, "unfulfilled")>>
DeskItems == (c1 :> Lines(1, 1)) @@ (c2 :> Empty) @@ (g1 :> Empty)
===============================================================================
