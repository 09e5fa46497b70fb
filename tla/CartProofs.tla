------------------------------ MODULE CartProofs ------------------------------
(* Proofs about the carts of Storefront, for any products, owners, requests   *)
(* and operations: which of its locks protects a request that writes items,   *)
(* one that ends a cart and one that merges a guest cart, until it commits.   *)
EXTENDS StorefrontProofs, SequenceTheorems

\* What a request with record x, exclusive locks H and KEY SHARE locks S relies on.

\* It locks a cart it creates, the guest cart it merges, or the cart it orders.
CartLocked(x, H) ==
  \A c \in Owner : CartRow(c) \in H =>
    \/ /\ x.op.kind \in {"add", "claim"} /\ c = x.op.who
       /\ x.pc \in {"putItem", "lockGuest", "claimItem", "dropGuest", "commit"}
       /\ cart[c] = 0 /\ x.mine = carts[c] + 1
    \/ /\ x.op.kind = "claim" /\ c = x.op.guest
       /\ x.pc \in {"claimItem", "putItem", "dropGuest", "commit"}
       /\ cart[c] # 0
    \/ /\ x.op.kind = "checkout" /\ c = x.op.who
       /\ x.pc \in {"lockItems", "lockProducts", "insertOrder", "commit"}
       /\ cart[c] = x.mine

\* It writes to, or orders, a cart with an id.
HasId(x) ==
  \/ /\ x.op.kind \in {"add", "claim"}
     /\ x.pc \in {"putItem", "lockGuest", "claimItem", "dropGuest", "commit"}
  \/ /\ x.op.kind = "checkout"
     /\ x.pc \in {"lockCart", "lockItems", "lockProducts", "insertOrder", "commit"}
  => x.mine # 0

\* What it has not read or written yet.
Fresh(x) ==
  /\ x.op.kind \in {"add", "patch"} /\ x.pc \in {"lockProduct", "readCart", "lockItem"} =>
       x.put = NoItems
  /\ x.op.kind = "add" /\ x.pc = "makeCart" => \A p \in Product : p # x.at => x.put[p] = 0
  /\ x.op.kind = "claim" /\ x.pc \in {"makeCart", "lockGuest"} =>
       x.put = NoItems /\ x.seen = NoItems
  /\ x.op.kind = "checkout" /\ x.pc \in {"findOrder", "readCart", "lockCart"} =>
       x.seen = NoItems
  /\ x.op.kind \in {"add", "patch", "delete"}
       /\ x.pc \in {"lockProduct", "readCart", "lockItem", "deleteItem"} => x.at = x.op.product

\* The item row it updates is there, and locked.
Updates(x, H, p) ==
  /\ ItemRow(x.op.who, x.mine, p) \in H
  /\ cart[x.op.who] = x.mine /\ item[x.op.who][p] > 0

\* An item it wrote is in a cart it created, is to be checked at the commit or was
\* checked, or is a row it updates.
Written(x, H, S) ==
  x.op.kind \in {"add", "patch", "claim"}
    /\ x.pc \in {"putItem", "claimItem", "dropGuest", "commit"} =>
    \A p \in Product : x.put[p] > 0 /\ ~ (x.pc = "putItem" /\ p = x.at) =>
      \/ CartRow(x.op.who) \in H
      \/ \E i \in 1..Len(x.fk) : x.fk[i] = CartRow(x.op.who)
      \/ CartRow(x.op.who) \in S
      \/ Updates(x, H, p)

\* A checked foreign key holds on to its cart.
Checked(x, H, S) ==
  /\ \A i \in 1..Len(x.fk) :
       x.fk[i] = CartRow(x.op.who) \/ \E p \in Product : x.fk[i] = ProductRow(p)
  /\ S # {} => x.pc = "commit" /\ x.op.kind \in {"add", "claim"}
  /\ \A c \in Owner : CartRow(c) \in S =>
       c = x.op.who /\ (cart[c] = x.mine \/ CartRow(c) \in H)

Patches(x, H) ==
  x.op.kind = "patch" /\ x.pc \in {"lockProduct", "commit"} => Updates(x, H, x.op.product)

\* A checkout has locked its cart, and read and locked the items it has gone through.
Orders(x, H) ==
  x.op.kind = "checkout" /\ x.pc \in {"lockItems", "lockProducts", "insertOrder", "commit"} =>
    /\ CartRow(x.op.who) \in H
    /\ \A p \in Product :
         \/ x.pc = "lockItems" /\ p \in x.todo
         \/ /\ x.seen[p] = item[x.op.who][p]
            /\ item[x.op.who][p] > 0 => ItemRow(x.op.who, x.mine, p) \in H

\* A claim has locked the guest cart it read, and at the commit all its items.
Merges(x, H) ==
  x.op.kind = "claim" =>
    /\ x.pc \in {"claimItem", "putItem", "dropGuest"} => CartRow(x.op.guest) \in H
    /\ x.seen # NoItems => CartRow(x.op.guest) \in H
    /\ x.pc = "commit" /\ CartRow(x.op.guest) \in H =>
         \A p \in Product : item[x.op.guest][p] > 0 =>
           ItemRow(x.op.guest, cart[x.op.guest], p) \in H

CartSound(x, H, S) ==
  /\ x.op \in Ops
  /\ x.pc = "idle" => x = Idle /\ H = {} /\ S = {}
  /\ CartLocked(x, H) /\ HasId(x) /\ Fresh(x) /\ Written(x, H, S) /\ Checked(x, H, S)
  /\ Patches(x, H) /\ Orders(x, H) /\ Merges(x, H)

\* Nobody locks a cart that another transaction's item refers to.
SharesSafe ==
  \A t, u \in Txn : t # u =>
    \A c \in Owner : CartRow(c) \in shared[t] => CartRow(c) \notin held[u]

CartInv ==
  /\ ItemsHaveCart
  /\ SharesSafe
  /\ \A t \in Txn : CartSound(tx[t], held[t], shared[t])

-------------------------------------------------------------------------------
(* Rows and records.                                                       *)

LEMMA CartRowsDiffer ==
  /\ \A c, o : CartRow(c) = CartRow(o) => c = o
  /\ \A c, o, n, p : CartRow(c) # ItemRow(o, n, p)
  /\ \A c, p : CartRow(c) # ProductRow(p)
  /\ \A c, i : CartRow(c) # OrderRow(i)
  /\ \A c, k : CartRow(c) # KeyRow(k)
  /\ \A c, o, m, n, p, q : ItemRow(c, m, p) = ItemRow(o, n, q) => c = o /\ m = n /\ p = q
BY DEF ProductRow, CartRow, ItemRow, OrderRow, KeyRow

\* Carts are locked by four statements only.
LEMMA NoCartLock ==
  ASSUME NEW t \in Txn, tx[t].pc \in Statements,
         tx[t].pc \notin {"makeCart", "lockCart", "lockGuest", "dropGuest"}
  PROVE  \A c \in Owner : CartRow(c) \notin NextLock(t)
<1> SUFFICES ASSUME NEW c \in Owner PROVE CartRow(c) \notin NextLock(t)
  OBVIOUS
<1>1. CartRow(c) \notin ItemLock(t)
  BY CartRowsDiffer DEF ItemLock
<1>2. CartRow(c) \notin ProductLock(t)
  BY CartRowsDiffer DEF ProductLock
<1>3. CartRow(c) \notin OrderLock(t) /\ CartRow(c) \notin OrderKeyLock(t)
  BY CartRowsDiffer DEF OrderLock, OrderKeyLock
<1>4. CartRow(c) \notin {ItemRow(tx[t].op.who, tx[t].mine, tx[t].at)}
  BY CartRowsDiffer
<1>5. CartRow(c) \notin {ProductRow(tx[t].op.product)}
  BY CartRowsDiffer
<1> QED
  BY <1>1, <1>2, <1>3, <1>4, <1>5, NextLockAt DEF Statements

\* A transaction that has not begun relies on nothing.
LEMMA IdleCartSound == CartSound(Idle, {}, {})
<1> DEFINE o == CHOOSE q \in Ops : TRUE
<1>1. o \in Ops
  BY StorefrontAssumption
<1>2. Idle.op = o /\ Idle.pc = "idle" /\ Idle.fk = <<>> /\ Idle.seen = NoItems
  BY DEF Idle
<1> HIDE DEF o
<1> QED
  BY <1>1, <1>2 DEF CartSound, CartLocked, HasId, Fresh, Written, Checked, Patches, Orders, Merges

-------------------------------------------------------------------------------
(* The ways a statement ends.                                              *)

\* Going on: the tables stay, and the locks t takes were free, so only t's own
\* record has to be shown sound.
LEMMA ProceedCarts ==
  ASSUME IInv, CartInv, NEW t \in Txn, NEW y \in TxType, Proceed(t, y), Blockers(t) = {},
         tx[t].pc # "saveProduct", CartSound(y, held[t] \cup NextLock(t), shared[t])
  PROVE  CartInv'
<1>1. /\ tx' = [tx EXCEPT ![t] = y]
      /\ held' = [held EXCEPT ![t] = held[t] \cup NextLock(t)]
      /\ UNCHANGED <<cart, carts, item, shared>>
  BY DEF Proceed, tables
<1>2. tx \in [Txn -> TxType] /\ held \in [Txn -> SUBSET Row]
  BY DEF IInv, TypeOK
<1>3. ItemsHaveCart'
  BY <1>1 DEF CartInv, ItemsHaveCart
<1>4. SharesSafe'
  <2>1. \A u \in Txn \ {t} : NextLock(t) \cap shared[u] = {}
    BY DEF Blockers
  <2> QED
    BY <1>1, <1>2, <2>1 DEF CartInv, SharesSafe
<1>5. ASSUME NEW u \in Txn PROVE CartSound(tx[u], held[u], shared[u])'
  <2>1. CASE u = t
    <3>1. tx'[u] = y /\ held'[u] = held[t] \cup NextLock(t) /\ shared'[u] = shared[t]
      BY <1>1, <1>2, <2>1
    <3> QED
      BY <1>1, <3>1 DEF CartSound, CartLocked, HasId, Fresh, Updates, Written, Checked,
                        Patches, Orders, Merges
  <2>2. CASE u # t
    <3>1. tx'[u] = tx[u] /\ held'[u] = held[u] /\ shared'[u] = shared[u]
      BY <1>1, <1>2, <2>2
    <3>2. CartSound(tx[u], held[u], shared[u])
      BY DEF CartInv
    <3> QED
      BY <1>1, <3>1, <3>2 DEF CartSound, CartLocked, HasId, Fresh, Updates, Written, Checked,
                              Patches, Orders, Merges
  <2> QED
    BY <2>1, <2>2
<1> QED
  BY <1>3, <1>4, <1>5 DEF CartInv

\* The commit of another transaction leaves u sound when it changes no cart u has
\* locked or refers to, no item row u has locked, and no item of a cart u has
\* locked that u has read.
LEMMA OtherCartSound ==
  ASSUME IInv, NEW u \in Txn, CartSound(tx[u], held[u], shared[u]),
         tx'[u] = tx[u], held'[u] = held[u], shared'[u] = shared[u],
         item \in [Owner -> [Product -> Nat]], item' \in [Owner -> [Product -> Nat]],
         \A c \in Owner : CartRow(c) \in held[u] \cup shared[u] =>
           cart'[c] = cart[c] /\ carts'[c] = carts[c],
         \A c \in Owner, n \in Nat, p \in Product :
           ItemRow(c, n, p) \in held[u] /\ cart[c] = n /\ item[c][p] > 0 =>
             cart'[c] = n /\ item'[c][p] > 0,
         \A c \in Owner, p \in Product :
           CartRow(c) \in held[u]
             /\ (item[c][p] > 0 => ItemRow(c, cart[c], p) \in held[u]) =>
             item'[c][p] = item[c][p]
  PROVE  CartSound(tx[u], held[u], shared[u])'
<1> DEFINE x == tx[u]
           H == held[u]
           S == shared[u]
<1>1. x.op.who \in Owner /\ x.op.guest \in Owner /\ x.op.product \in Product /\ x.mine \in Nat
  BY TxTypes
<1>2. /\ x.op \in Ops
      /\ x.pc = "idle" => x = Idle /\ H = {} /\ S = {}
      /\ HasId(x) /\ Fresh(x)
      /\ CartLocked(x, H) /\ Written(x, H, S) /\ Checked(x, H, S)
      /\ Patches(x, H) /\ Orders(x, H) /\ Merges(x, H)
  BY DEF CartSound
<1>3. CartLocked(tx[u], held[u])'
  BY <1>2 DEF CartLocked
<1>4. HasId(tx[u])' /\ Fresh(tx[u])'
  BY <1>2 DEF HasId, Fresh
<1>5. \A p \in Product : Updates(x, H, p) => Updates(tx[u], held[u], p)'
  BY <1>1 DEF Updates
<1>6. Written(tx[u], held[u], shared[u])'
  BY <1>2, <1>5 DEF Written
<1>7. Checked(tx[u], held[u], shared[u])'
  BY <1>2 DEF Checked
<1>8. Patches(tx[u], held[u])'
  BY <1>1, <1>2, <1>5 DEF Patches
<1>9. Orders(tx[u], held[u])'
  <2> SUFFICES ASSUME x.op.kind = "checkout",
                      x.pc \in {"lockItems", "lockProducts", "insertOrder", "commit"}
               PROVE  Orders(tx[u], held[u])'
    BY DEF Orders
  <2>1. CartRow(x.op.who) \in H /\ cart[x.op.who] = x.mine
    BY <1>1, <1>2 DEF Orders, CartLocked
  <2>2. ASSUME NEW p \in Product, ~ (x.pc = "lockItems" /\ p \in x.todo)
        PROVE  x.seen[p] = item'[x.op.who][p]
               /\ (item'[x.op.who][p] > 0 => ItemRow(x.op.who, x.mine, p) \in H)
    BY <1>1, <1>2, <2>1, <2>2 DEF Orders
  <2> QED
    BY <2>1, <2>2 DEF Orders
<1>10. Merges(tx[u], held[u])'
  <2> SUFFICES ASSUME x.op.kind = "claim" PROVE Merges(tx[u], held[u])'
    BY DEF Merges
  <2> DEFINE g == x.op.guest
  <2>1. ASSUME x.pc = "commit", CartRow(g) \in H, NEW p \in Product, item'[g][p] > 0
        PROVE  ItemRow(g, cart'[g], p) \in H
    <3>1. item[g][p] > 0 => ItemRow(g, cart[g], p) \in H
      BY <1>2, <2>1 DEF Merges
    <3>2. item'[g][p] = item[g][p] /\ cart'[g] = cart[g]
      BY <1>1, <2>1, <3>1
    <3> QED
      BY <2>1, <3>1, <3>2
  <2> QED
    BY <1>2, <2>1 DEF Merges
<1> QED
  BY <1>2, <1>3, <1>4, <1>6, <1>7, <1>8, <1>9, <1>10 DEF CartSound
\* COMMIT or ROLLBACK of t: what remains are the carts and the others' records.
LEMMA EndCarts ==
  ASSUME IInv, CartInv, NEW t \in Txn, End(t), ItemsHaveCart',
         \A u \in Txn \ {t} :
           /\ tx'[u] = tx[u] /\ held'[u] = held[u] /\ shared'[u] = shared[u]
           => CartSound(tx[u], held[u], shared[u])'
  PROVE  CartInv'
<1>1. /\ tx' = [tx EXCEPT ![t] = Idle]
      /\ held' = [held EXCEPT ![t] = {}]
      /\ shared' = [shared EXCEPT ![t] = {}]
  BY DEF End
<1>2. tx \in [Txn -> TxType] /\ held \in [Txn -> SUBSET Row] /\ shared \in [Txn -> SUBSET Row]
  BY DEF IInv, TypeOK
<1>3. SharesSafe'
  BY <1>1, <1>2 DEF CartInv, SharesSafe
<1>4. ASSUME NEW u \in Txn PROVE CartSound(tx[u], held[u], shared[u])'
  <2>1. CASE u = t
    <3>1. tx'[u] = Idle /\ held'[u] = {} /\ shared'[u] = {}
      BY <1>1, <1>2, <2>1
    <3> QED
      BY <3>1, IdleCartSound DEF CartSound, CartLocked, HasId, Fresh, Updates, Written, Checked,
                                 Patches, Orders, Merges, Idle
  <2>2. CASE u # t
    BY <1>1, <1>2, <2>2
  <2> QED
    BY <2>1, <2>2
<1> QED
  BY <1>3, <1>4 DEF CartInv

\* A commit that changes no cart, and a rollback.
LEMMA EndOutsideCarts ==
  ASSUME IInv, CartInv, NEW t \in Txn, End(t), UNCHANGED <<cart, carts, item>>
  PROVE  CartInv'
<1>1. ItemsHaveCart'
  BY DEF CartInv, ItemsHaveCart
<1>2. ASSUME NEW u \in Txn, tx'[u] = tx[u], held'[u] = held[u], shared'[u] = shared[u]
      PROVE  CartSound(tx[u], held[u], shared[u])'
  <2>1. CartSound(tx[u], held[u], shared[u])
    BY DEF CartInv
  <2> QED
    BY <1>2, <2>1 DEF CartSound, CartLocked, HasId, Fresh, Updates, Written, Checked,
                      Patches, Orders, Merges
<1> QED
  BY <1>1, <1>2, EndCarts

LEMMA AbortCarts == ASSUME IInv, CartInv, NEW t \in Txn, Abort(t) PROVE CartInv'
BY EndOutsideCarts DEF Abort, tables

\* The record of t, and that it is sound.
LEMMA Own ==
  ASSUME IInv, CartInv, NEW t \in Txn
  PROVE  /\ CartSound(tx[t], held[t], shared[t])
         /\ tx[t].op \in Ops /\ tx[t].pc \in Statements
         /\ (tx[t].op.kind = "claim" => tx[t].op.guest # tx[t].op.who)
         /\ held[t] \subseteq Row /\ shared[t] \subseteq Row
<1>1. CartSound(tx[t], held[t], shared[t])
  BY DEF CartInv
<1>2. tx[t].op \in Ops
  BY <1>1 DEF CartSound
<1> QED
  BY <1>1, <1>2, StorefrontAssumption DEF IInv, TypeOK, TxType

-------------------------------------------------------------------------------
(* The requests that write to no cart.                                     *)

\* A cancellation, a status change or an edit locks no cart.
LEMMA BystanderCarts ==
  ASSUME IInv, CartInv, NEW t \in Txn, NEW y \in TxType, Proceed(t, y), Blockers(t) = {},
         tx[t].op.kind \in {"cancel", "status", "edit"}, y.op = tx[t].op, y.fk = tx[t].fk,
         tx[t].pc \notin {"idle", "makeCart", "lockCart", "lockGuest", "dropGuest", "saveProduct"},
         y.pc # "idle"
  PROVE  CartInv'
<1> DEFINE x == tx[t]
           H == held[t] \cup NextLock(t)
           S == shared[t]
<1>1. CartSound(x, held[t], S) /\ x.op \in Ops /\ x.pc \in Statements
  BY Own
<1>2. \A c \in Owner : CartRow(c) \notin NextLock(t)
  BY <1>1, NoCartLock
<1>3. CartLocked(y, H)
  BY <1>1, <1>2 DEF CartSound, CartLocked
<1>4. Checked(y, H, S)
  BY <1>1, <1>2 DEF CartSound, Checked
<1>5. HasId(y) /\ Fresh(y) /\ Written(y, H, S) /\ Patches(y, H) /\ Orders(y, H) /\ Merges(y, H)
  BY DEF HasId, Fresh, Written, Patches, Orders, Merges
<1>6. CartSound(y, H, S)
  BY <1>1, <1>3, <1>4, <1>5 DEF CartSound
<1> QED
  BY <1>6, ProceedCarts
LEMMA CancelLockOrderCarts ==
  ASSUME IInv, CartInv, NEW t \in Txn, CancelLockOrder(t) PROVE CartInv'
<1> DEFINE x == tx[t]
           lines == {p \in Product : orders[x.op.order].lines[p] > 0}
           next == IF lines = {} THEN "commit" ELSE "lockProducts"
           y == [x EXCEPT !.todo = lines, !.pc = next]
<1>1. CASE Abort(t)
  BY <1>1, AbortCarts
<1>2. CASE ~ Abort(t)
  <2>1. x.op.kind = "cancel" /\ x.pc = "lockOrder" /\ Blockers(t) = {} /\ Proceed(t, y)
    BY <1>2 DEF CancelLockOrder, At
  <2>2. lines \subseteq Product /\ next \in {"commit", "lockProducts"}
    OBVIOUS
  <2> HIDE DEF lines, next
  <2>3. y \in TxType /\ y.op = x.op /\ y.fk = x.fk /\ y.pc = next
    BY <2>1, <2>2, TxTypes DEF TxType, Statements
  <2> QED
    BY <2>1, <2>2, <2>3, BystanderCarts
<1> QED
  BY <1>1, <1>2

LEMMA StatusLockOrderCarts ==
  ASSUME IInv, CartInv, NEW t \in Txn, StatusLockOrder(t) PROVE CartInv'
<1> DEFINE x == tx[t]
           i == x.op.order
           row == [status |-> orders[i].status, fulfil |-> x.op.to]
           y == [x EXCEPT !.row = row, !.pc = "commit"]
<1>1. CASE Abort(t)
  BY <1>1, AbortCarts
<1>2. CASE ~ Abort(t)
  <2>1. /\ x.op.kind = "status" /\ x.pc = "lockOrder" /\ Blockers(t) = {} /\ Proceed(t, y)
        /\ i \in 1..Len(orders)
    BY <1>2 DEF StatusLockOrder, At
  <2>2. orders[i] \in Order /\ x.op.to \in Fulfilment
    BY <2>1, TxTypes DEF IInv, TypeOK
  <2>3. row \in [status : Status, fulfil : Fulfilment]
    BY <2>2 DEF Order
  <2> HIDE DEF row
  <2>4. y \in TxType /\ y.op = x.op /\ y.fk = x.fk /\ y.pc = "commit"
    BY <2>3, TxTypes DEF TxType, Statements
  <2> QED
    BY <2>1, <2>4, BystanderCarts
<1> QED
  BY <1>1, <1>2

LEMMA EditReadProductCarts ==
  ASSUME IInv, CartInv, NEW t \in Txn, EditReadProduct(t) PROVE CartInv'
<1> DEFINE x == tx[t]
           p == x.op.product
           y == [x EXCEPT !.stk[p] = stock[p], !.act = active[p], !.pc = "saveProduct"]
<1>1. x.op.kind = "edit" /\ x.pc = "readProduct" /\ Blockers(t) = {} /\ Proceed(t, y)
  BY DEF EditReadProduct, At
<1>2. stock[p] \in Nat /\ active[p] \in BOOLEAN
  BY TxTypes DEF IInv, TypeOK
<1>3. y \in TxType /\ y.op = x.op /\ y.fk = x.fk /\ y.pc = "saveProduct"
  BY <1>2, TxTypes DEF TxType, Statements
<1> QED
  BY <1>1, <1>3, BystanderCarts

\* A checkout goes on with the cart it locked, a cancellation without one.
LEMMA LockNextProductCarts ==
  ASSUME IInv, CartInv, NEW t \in Txn, LockNextProduct(t) PROVE CartInv'
<1> DEFINE x == tx[t]
           H == held[t] \cup NextLock(t)
           S == shared[t]
           done == IF x.op.kind = "checkout" THEN "insertOrder" ELSE "commit"
<1>1. /\ x.op.kind \in {"checkout", "cancel"} /\ x.pc = "lockProducts" /\ Blockers(t) = {}
      /\ x \in TxType /\ x.todo \subseteq Product
  BY TxTypes DEF LockNextProduct, At
<1>2. PICK p \in First(t) :
        Proceed(t, [x EXCEPT !.stk[p] = stock[p], !.todo = x.todo \ {p},
                             !.pc = IF x.todo = {p} THEN done ELSE x.pc])
  BY DEF LockNextProduct
<1> DEFINE next == IF x.todo = {p} THEN done ELSE x.pc
           left == x.todo \ {p}
           y == [x EXCEPT !.stk[p] = stock[p], !.todo = left, !.pc = next]
<1>3. p \in Product /\ stock[p] \in Nat
  BY <1>1, <1>2 DEF First, IInv, TypeOK
<1>4. /\ next \in {"lockProducts", "insertOrder", "commit"} /\ left \subseteq Product
      /\ (x.op.kind = "checkout" => next \in {"lockProducts", "insertOrder"})
  BY <1>1
<1>5. Proceed(t, y)
  BY <1>2
<1> HIDE DEF next, left
<1>6. /\ y \in TxType /\ y.op = x.op /\ y.seen = x.seen /\ y.mine = x.mine /\ y.pc = next
      /\ y.fk = x.fk
  BY <1>1, <1>3, <1>4 DEF TxType, Statements
<1> HIDE DEF y
<1>7. CASE x.op.kind = "cancel"
  BY <1>1, <1>4, <1>5, <1>6, <1>7, BystanderCarts
<1>8. CASE x.op.kind = "checkout"
  <2>1. CartSound(x, held[t], S) /\ x.op \in Ops
    BY Own
  <2>2. \A c \in Owner : CartRow(c) \notin NextLock(t)
    BY <1>1, Own, NoCartLock
  <2>3. CartLocked(y, H)
    BY <1>1, <1>4, <1>6, <1>8, <2>1, <2>2 DEF CartSound, CartLocked
  <2>4. Orders(y, H)
    BY <1>1, <1>4, <1>6, <1>8, <2>1 DEF CartSound, Orders
  <2>5. HasId(y)
    BY <1>1, <1>4, <1>6, <1>8, <2>1 DEF CartSound, HasId
  <2>6. Checked(y, H, S)
    BY <1>1, <1>6, <1>8, <2>1, <2>2 DEF CartSound, Checked
  <2>7. Fresh(y) /\ Written(y, H, S) /\ Patches(y, H) /\ Merges(y, H)
    BY <1>4, <1>6, <1>8 DEF Fresh, Written, Patches, Merges
  <2>8. CartSound(y, H, S)
    BY <1>4, <1>6, <2>1, <2>3, <2>4, <2>5, <2>6, <2>7 DEF CartSound
  <2> QED
    BY <1>1, <1>5, <1>6, <2>8, ProceedCarts
<1> QED
  BY <1>1, <1>7, <1>8
-------------------------------------------------------------------------------
(* The statements before a request locks a cart or an item.                *)

LEMMA EarlyCarts ==
  ASSUME IInv, CartInv, NEW t \in Txn, NEW y \in TxType, Proceed(t, y), Blockers(t) = {},
         tx[t].op.kind \in {"add", "patch", "delete", "checkout"},
         tx[t].pc \in {"lockProduct", "readCart", "findOrder"},
         tx[t].op.kind = "add" => tx[t].pc \in {"lockProduct", "readCart"},
         tx[t].op.kind = "patch" => tx[t].pc = "readCart",
         y.op = tx[t].op, y.fk = tx[t].fk, y.put = tx[t].put, y.seen = tx[t].seen, y.at = tx[t].at,
         /\ tx[t].op.kind \in {"add", "patch"} => y.pc \in {"readCart", "lockItem"}
         /\ tx[t].op.kind = "delete" => y.pc = "deleteItem" /\ tx[t].pc = "readCart"
         /\ tx[t].op.kind = "checkout" => y.pc \in {"readCart", "lockCart"}
                                          /\ tx[t].pc \in {"readCart", "findOrder"},
         y.pc = "lockCart" => y.mine # 0
  PROVE  CartInv'
<1> DEFINE x == tx[t]
           H == held[t] \cup NextLock(t)
           S == shared[t]
<1>1. CartSound(x, held[t], S) /\ x.op \in Ops /\ x.pc \in Statements
  BY Own
<1>2. \A c \in Owner : CartRow(c) \notin NextLock(t)
  BY <1>1, NoCartLock
<1>3. CartLocked(y, H)
  BY <1>1, <1>2 DEF CartSound, CartLocked
<1>4. Checked(y, H, S)
  BY <1>1, <1>2 DEF CartSound, Checked
<1>5. Fresh(y)
  BY <1>1 DEF CartSound, Fresh
<1>6. HasId(y) /\ Written(y, H, S) /\ Patches(y, H) /\ Orders(y, H) /\ Merges(y, H)
  BY DEF HasId, Written, Patches, Orders, Merges
<1>7. CartSound(y, H, S)
  BY <1>1, <1>3, <1>4, <1>5, <1>6 DEF CartSound
<1> QED
  BY <1>7, ProceedCarts

LEMMA AddLockProductCarts ==
  ASSUME IInv, CartInv, NEW t \in Txn, AddLockProduct(t) PROVE CartInv'
<1> DEFINE x == tx[t]
           p == x.op.product
           y == [x EXCEPT !.stk[p] = stock[p], !.pc = "readCart"]
<1>1. CASE Abort(t)
  BY <1>1, AbortCarts
<1>2. CASE Proceed(t, y)
  <2>1. x.op.kind = "add" /\ x.pc = "lockProduct" /\ Blockers(t) = {}
    BY DEF AddLockProduct, At
  <2>2. stock[p] \in Nat
    BY TxTypes DEF IInv, TypeOK
  <2>3. /\ y \in TxType /\ y.op = x.op /\ y.fk = x.fk /\ y.put = x.put /\ y.seen = x.seen
        /\ y.at = x.at /\ y.pc = "readCart"
    BY <2>2, TxTypes DEF TxType, Statements
  <2> QED
    BY <1>2, <2>1, <2>3, EarlyCarts
<1> QED
  BY <1>1, <1>2 DEF AddLockProduct

LEMMA ReadCartCarts == ASSUME IInv, CartInv, NEW t \in Txn, ReadCart(t) PROVE CartInv'
<1> DEFINE x == tx[t]
           next == CASE x.op.kind \in {"add", "patch"} -> "lockItem"
                     [] x.op.kind = "delete"           -> "deleteItem"
                     [] x.op.kind = "checkout"         -> "lockCart"
           y == [x EXCEPT !.mine = cart[x.op.who], !.pc = next]
<1>1. CASE Abort(t)
  BY <1>1, AbortCarts
<1>2. CASE (cart[x.op.who] # 0 \/ x.op.kind = "add") /\ Proceed(t, y)
  <2>1. /\ x.op.kind \in {"add", "patch", "delete", "checkout"} /\ x.pc = "readCart"
        /\ Blockers(t) = {} /\ cart[x.op.who] \in Nat
    BY TxTypes DEF ReadCart, At, IInv, TypeOK
  <2>2. /\ x.op.kind \in {"add", "patch"} => next = "lockItem"
        /\ x.op.kind = "delete" => next = "deleteItem"
        /\ x.op.kind = "checkout" => next = "lockCart"
    OBVIOUS
  <2> HIDE DEF next
  <2>3. /\ y \in TxType /\ y.op = x.op /\ y.fk = x.fk /\ y.put = x.put /\ y.seen = x.seen
        /\ y.at = x.at /\ y.pc = next /\ y.mine = cart[x.op.who]
    BY <2>1, <2>2, TxTypes DEF TxType, Statements
  <2> HIDE DEF y
  <2> QED
    BY <1>2, <2>1, <2>2, <2>3, EarlyCarts
<1> QED
  BY <1>1, <1>2 DEF ReadCart

LEMMA FindOrderCarts == ASSUME IInv, CartInv, NEW t \in Txn, FindOrder(t) PROVE CartInv'
<1> DEFINE x == tx[t]
           y == [x EXCEPT !.pc = "readCart"]
<1>1. CASE Abort(t)
  BY <1>1, AbortCarts
<1>2. CASE Proceed(t, y)
  <2>1. x.op.kind = "checkout" /\ x.pc = "findOrder" /\ Blockers(t) = {}
    BY DEF FindOrder, At
  <2>2. /\ y \in TxType /\ y.op = x.op /\ y.fk = x.fk /\ y.put = x.put /\ y.seen = x.seen
        /\ y.at = x.at /\ y.pc = "readCart"
    BY TxTypes DEF TxType, Statements
  <2> QED
    BY <1>2, <2>1, <2>2, EarlyCarts
<1> QED
  BY <1>1, <1>2 DEF FindOrder

\* The quantity an add computed is not yet in a row.
LEMMA AddLockItemCarts == ASSUME IInv, CartInv, NEW t \in Txn, AddLockItem(t) PROVE CartInv'
<1> DEFINE x == tx[t]
           H == held[t] \cup NextLock(t)
           S == shared[t]
           p == x.op.product
           total == x.op.qty + Quantity(x.op.who, x.mine, p)
           next == IF x.mine = 0 THEN "makeCart" ELSE "putItem"
           y == [x EXCEPT !.put[p] = total, !.pc = next]
<1>1. CASE Abort(t)
  BY <1>1, AbortCarts
<1>2. CASE Proceed(t, y)
  <2>1. x.op.kind = "add" /\ x.pc = "lockItem" /\ Blockers(t) = {}
    BY DEF AddLockItem, At
  <2>2. total \in Nat
    BY TxTypes
  <2>3. next \in {"makeCart", "putItem"} /\ (next = "putItem" => x.mine # 0)
    OBVIOUS
  <2> HIDE DEF total, next
  <2>4. /\ y \in TxType /\ y.op = x.op /\ y.fk = x.fk /\ y.mine = x.mine /\ y.at = x.at
        /\ y.pc = next /\ y.put = [x.put EXCEPT ![p] = total]
    BY <2>2, <2>3, TxTypes DEF TxType, Statements
  <2> HIDE DEF y
  <2>5. CartSound(x, held[t], S) /\ x.op \in Ops /\ x.pc \in Statements
    BY Own
  <2>6. \A c \in Owner : CartRow(c) \notin NextLock(t)
    BY <2>1, <2>5, NoCartLock
  <2>7. CartLocked(y, H)
    BY <2>1, <2>4, <2>5, <2>6 DEF CartSound, CartLocked
  <2>8. Checked(y, H, S)
    BY <2>1, <2>4, <2>5, <2>6 DEF CartSound, Checked
  <2>9. \A q \in Product : q # y.at => y.put[q] = 0
    <3>1. x.put = NoItems /\ x.at = p
      BY <2>1, <2>5 DEF CartSound, Fresh
    <3> QED
      BY <2>4, <3>1 DEF NoItems
  <2>10. Fresh(y) /\ HasId(y)
    BY <2>1, <2>3, <2>4, <2>9 DEF Fresh, HasId
  <2>11. Written(y, H, S)
    BY <2>3, <2>4, <2>9 DEF Written
  <2>12. Patches(y, H) /\ Orders(y, H) /\ Merges(y, H)
    BY <2>1, <2>4 DEF Patches, Orders, Merges
  <2>13. CartSound(y, H, S)
    BY <2>3, <2>4, <2>5, <2>7, <2>8, <2>10, <2>11, <2>12 DEF CartSound
  <2> QED
    BY <1>2, <2>1, <2>4, <2>13, ProceedCarts
<1> QED
  BY <1>1, <1>2 DEF AddLockItem
-------------------------------------------------------------------------------
(* The statements of an add, a change of quantity and a claim.             *)

\* A cart the request creates is locked by its key, and its id is the next one.
LEMMA MakeCartCarts == ASSUME IInv, CartInv, NEW t \in Txn, MakeCart(t) PROVE CartInv'
<1> DEFINE x == tx[t]
           o == x.op.who
           H == held[t] \cup NextLock(t)
           S == shared[t]
           id == IF cart[o] # 0 THEN cart[o] ELSE carts[o] + 1
           next == IF x.op.kind = "add" THEN "putItem" ELSE "lockGuest"
           y == [x EXCEPT !.mine = id, !.pc = next]
<1>1. x.op.kind \in {"add", "claim"} /\ x.pc = "makeCart" /\ Blockers(t) = {} /\ Proceed(t, y)
  BY DEF MakeCart, At
<1>2. /\ cart[o] \in Nat /\ carts[o] \in Nat /\ id \in Nat /\ id # 0
      /\ (cart[o] = 0 => id = carts[o] + 1)
  BY TxTypes DEF IInv, TypeOK
<1>3. next \in {"putItem", "lockGuest"} /\ (next = "putItem" <=> x.op.kind = "add")
  OBVIOUS
<1> HIDE DEF id, next
<1>4. /\ y \in TxType /\ y.op = x.op /\ y.fk = x.fk /\ y.mine = id /\ y.at = x.at
      /\ y.pc = next /\ y.put = x.put /\ y.seen = x.seen
  BY <1>2, <1>3, TxTypes DEF TxType, Statements
<1> HIDE DEF y
<1>5. CartSound(x, held[t], S) /\ x.op \in Ops
  BY Own
<1>6. \A c \in Owner : CartRow(c) \in H => c = o /\ cart[o] = 0
  <2>1. NextLock(t) = CartKeyLock(t)
    BY <1>1, NextLockAt
  <2>2. \A c \in Owner : CartRow(c) \notin held[t]
    BY <1>1, <1>5 DEF CartSound, CartLocked
  <2> QED
    BY <2>1, <2>2, CartRowsDiffer DEF CartKeyLock
<1>7. CartLocked(y, H)
  BY <1>1, <1>2, <1>3, <1>4, <1>6 DEF CartLocked
<1>8. S = {}
  BY <1>1, <1>5 DEF CartSound, Checked
<1>9. Checked(y, H, S)
  BY <1>4, <1>5, <1>8 DEF CartSound, Checked
<1>10. HasId(y)
  BY <1>2, <1>4 DEF HasId
<1>11. Fresh(y)
  BY <1>1, <1>3, <1>4, <1>5 DEF CartSound, Fresh
<1>12. Written(y, H, S)
  BY <1>1, <1>3, <1>4, <1>5 DEF CartSound, Written, Fresh
<1>13. Merges(y, H)
  BY <1>1, <1>3, <1>4, <1>5 DEF CartSound, Merges, Fresh
<1>14. Patches(y, H) /\ Orders(y, H)
  BY <1>1, <1>4 DEF Patches, Orders
<1>15. CartSound(y, H, S)
  BY <1>3, <1>4, <1>5, <1>7, <1>9, <1>10, <1>11, <1>12, <1>13, <1>14 DEF CartSound
<1> QED
  BY <1>1, <1>4, <1>15, ProceedCarts

LEMMA TwoChecks ==
  ASSUME NEW f \in Seq(Row), NEW two \in Seq(Row), Len(two) = 2
  PROVE  /\ \A i \in 1..Len(f) : i \in 1..Len(f \o two) /\ (f \o two)[i] = f[i]
         /\ \A i \in 1..Len(f \o two) :
              \/ i \in 1..Len(f) /\ (f \o two)[i] = f[i]
              \/ (f \o two)[i] \in {two[1], two[2]}
         /\ \E i \in 1..Len(f \o two) : (f \o two)[i] = two[1]
<1> DEFINE n == Len(f)
           g == f \o two
<1>1. n \in Nat
  OBVIOUS
<1>2. /\ Len(g) = n + 2
      /\ \A i \in 1..(n + 2) : g[i] = IF i <= n THEN f[i] ELSE two[i - n]
  <2>1. /\ Len(f \o two) = Len(f) + Len(two)
        /\ \A i \in 1..Len(f) + Len(two) :
             (f \o two)[i] = IF i <= Len(f) THEN f[i] ELSE two[i - Len(f)]
    BY ConcatProperties, Zenon
  <2> QED
    BY <2>1
<1> HIDE DEF g
<1>3. \A i \in 1..n : i \in 1..Len(g) /\ g[i] = f[i]
  BY <1>1, <1>2
<1>4. n + 1 \in 1..Len(g) /\ g[n + 1] = two[1]
  BY <1>1, <1>2
<1>5. ASSUME NEW i \in 1..Len(g) PROVE (i \in 1..n /\ g[i] = f[i]) \/ g[i] \in {two[1], two[2]}
  <2>1. i \in 1..n \/ i = n + 1 \/ i = n + 2
    BY <1>1, <1>2
  <2>2. i = n + 2 => g[i] = two[2]
    BY <1>1, <1>2
  <2> QED
    BY <1>3, <1>4, <2>1, <2>2
<1> QED
  BY <1>3, <1>4, <1>5 DEF g

\* An inserted item is left to the foreign-key check, an updated one is locked.
LEMMA PutItemCarts == ASSUME IInv, CartInv, NEW t \in Txn, PutItem(t) PROVE CartInv'
<1> DEFINE x == tx[t]
           o == x.op.who
           H == held[t] \cup NextLock(t)
           S == shared[t]
           left == x.todo \ {x.at}
           checks == IF Quantity(o, x.mine, x.at) > 0
                     THEN <<>> ELSE <<CartRow(o), ProductRow(x.at)>>
           fks == x.fk \o checks
<1>1. x.op.kind \in {"add", "claim"} /\ x.pc = "putItem" /\ Blockers(t) = {} /\ x.at \in Product
  BY TxTypes DEF PutItem, At
<1>2. checks \in Seq(Row) /\ x.fk \in Seq(Row)
  <2>1. CartRow(o) \in Row /\ ProductRow(x.at) \in Row
    BY <1>1, TxTypes, RowTypes
  <2> QED
    BY <2>1, TxTypes
<1>3. fks \in Seq(Row) /\ left \subseteq Product
  BY <1>2, TxTypes
<1>4. /\ \A i \in 1..Len(x.fk) : i \in 1..Len(fks) /\ fks[i] = x.fk[i]
      /\ \A i \in 1..Len(fks) : \/ i \in 1..Len(x.fk) /\ fks[i] = x.fk[i]
                                \/ fks[i] \in {CartRow(o), ProductRow(x.at)}
      /\ \/ \E i \in 1..Len(fks) : fks[i] = CartRow(o)
         \/ Quantity(o, x.mine, x.at) > 0
  <2>1. CASE Quantity(o, x.mine, x.at) > 0
    <3>1. fks = x.fk
      BY <1>2, <2>1
    <3> QED
      BY <2>1, <3>1
  <2>2. CASE ~ (Quantity(o, x.mine, x.at) > 0)
    <3>1. checks = <<CartRow(o), ProductRow(x.at)>>
      BY <2>2
    <3>2. Len(checks) = 2 /\ checks[1] = CartRow(o) /\ checks[2] = ProductRow(x.at)
      BY <3>1
    <3> HIDE DEF checks
    <3>3. /\ \A i \in 1..Len(x.fk) : i \in 1..Len(fks) /\ fks[i] = x.fk[i]
          /\ \A i \in 1..Len(fks) : \/ i \in 1..Len(x.fk) /\ fks[i] = x.fk[i]
                                    \/ fks[i] \in {checks[1], checks[2]}
          /\ \E i \in 1..Len(fks) : fks[i] = checks[1]
      BY <1>2, <3>2, TwoChecks
    <3> QED
      BY <3>2, <3>3
  <2> QED
    BY <2>1, <2>2
<1>5. \E p \in Product, next \in {"claimItem", "commit", "dropGuest"} :
        /\ Proceed(t, [x EXCEPT !.fk = fks, !.todo = left, !.pc = next, !.at = p])
        /\ next = "commit" => x.op.kind = "add"
  <2> DEFINE done == [x EXCEPT !.fk = fks, !.todo = left]
  <2>1. CASE \E p \in left : Proceed(t, [done EXCEPT !.pc = "claimItem", !.at = p])
    BY <1>3, <2>1
  <2>2. CASE \E next \in {"commit", "dropGuest"} :
               Proceed(t, [done EXCEPT !.pc = next]) /\ (next = "commit" => x.op.kind = "add")
    <3>1. PICK next \in {"commit", "dropGuest"} :
            Proceed(t, [done EXCEPT !.pc = next]) /\ (next = "commit" => x.op.kind = "add")
      BY <2>2
    <3>2. [done EXCEPT !.pc = next]
            = [x EXCEPT !.fk = fks, !.todo = left, !.pc = next, !.at = x.at]
      BY TxTypes DEF TxType
    <3> QED
      BY <1>1, <3>1, <3>2
  <2> QED
    BY <2>1, <2>2 DEF PutItem, checks
<1>6. PICK p \in Product, next \in {"claimItem", "commit", "dropGuest"} :
        /\ Proceed(t, [x EXCEPT !.fk = fks, !.todo = left, !.pc = next, !.at = p])
        /\ next = "commit" => x.op.kind = "add"
  BY <1>5
<1> DEFINE y == [x EXCEPT !.fk = fks, !.todo = left, !.pc = next, !.at = p]
<1> HIDE DEF fks, left, checks
<1>7. /\ y \in TxType /\ y.op = x.op /\ y.fk = fks /\ y.mine = x.mine
      /\ y.pc = next /\ y.put = x.put /\ y.seen = x.seen
  BY <1>3, TxTypes DEF TxType, Statements
<1> HIDE DEF y
<1>8. CartSound(x, held[t], S) /\ x.op \in Ops /\ x.pc \in Statements
  BY Own
<1>9. \A c \in Owner : CartRow(c) \notin NextLock(t)
  BY <1>1, <1>8, NoCartLock
<1>10. CartLocked(y, H)
  BY <1>1, <1>6, <1>7, <1>8, <1>9 DEF CartSound, CartLocked
<1>11. S = {}
  BY <1>1, <1>8 DEF CartSound, Checked
<1>12. Checked(y, H, S)
  BY <1>1, <1>4, <1>7, <1>8, <1>11 DEF CartSound, Checked
<1>13. HasId(y)
  BY <1>1, <1>7, <1>8 DEF CartSound, HasId
<1>14. Fresh(y)
  BY <1>1, <1>7 DEF Fresh
<1>15. Merges(y, H)
  BY <1>1, <1>6, <1>7, <1>8 DEF CartSound, Merges
<1>16. Written(y, H, S)
  <2> SUFFICES ASSUME NEW q \in Product, x.put[q] > 0
               PROVE  \/ CartRow(o) \in H
                      \/ \E i \in 1..Len(fks) : fks[i] = CartRow(o)
                      \/ Updates(y, H, q)
    BY <1>7 DEF Written
  <2>1. CASE q = x.at
    <3>1. CASE Quantity(o, x.mine, x.at) > 0
      <4>1. ItemRow(o, x.mine, x.at) \in H
        BY <1>1, NextLockAt
      <4>2. cart[o] = x.mine /\ item[o][x.at] > 0
        BY <3>1 DEF Quantity
      <4> QED
        BY <1>7, <2>1, <4>1, <4>2 DEF Updates
    <3> QED
      BY <1>4, <3>1
  <2>2. CASE q # x.at
    BY <1>1, <1>4, <1>7, <1>8, <1>11, <2>2 DEF CartSound, Written, Updates
  <2> QED
    BY <2>1, <2>2
<1>17. Patches(y, H) /\ Orders(y, H)
  BY <1>1, <1>7 DEF Patches, Orders
<1>18. CartSound(y, H, S)
  BY <1>7, <1>8, <1>10, <1>12, <1>13, <1>14, <1>15, <1>16, <1>17 DEF CartSound
<1>19. Proceed(t, y)
  BY <1>6 DEF y
<1> QED
  BY <1>1, <1>7, <1>18, <1>19, ProceedCarts
LEMMA PatchLockItemCarts ==
  ASSUME IInv, CartInv, NEW t \in Txn, PatchLockItem(t) PROVE CartInv'
<1> DEFINE x == tx[t]
           H == held[t] \cup NextLock(t)
           S == shared[t]
           y == [x EXCEPT !.pc = "lockProduct"]
<1>1. CASE Abort(t)
  BY <1>1, AbortCarts
<1>2. CASE Quantity(x.op.who, x.mine, x.op.product) > 0 /\ Proceed(t, y)
  <2>1. x.op.kind = "patch" /\ x.pc = "lockItem" /\ Blockers(t) = {}
    BY DEF PatchLockItem, At
  <2>2. /\ y \in TxType /\ y.op = x.op /\ y.fk = x.fk /\ y.mine = x.mine /\ y.at = x.at
        /\ y.pc = "lockProduct" /\ y.put = x.put
    BY TxTypes DEF TxType, Statements
  <2> HIDE DEF y
  <2>3. CartSound(x, held[t], S) /\ x.op \in Ops /\ x.pc \in Statements
    BY Own
  <2>4. \A c \in Owner : CartRow(c) \notin NextLock(t)
    BY <2>1, <2>3, NoCartLock
  <2>5. x.at = x.op.product
    BY <2>1, <2>3 DEF CartSound, Fresh
  <2>6. Updates(x, H, x.op.product)
    <3>1. NextLock(t) = ItemLock(t)
      BY <2>1, NextLockAt
    <3>2. ItemRow(x.op.who, x.mine, x.op.product) \in NextLock(t)
      BY <1>2, <2>5, <3>1 DEF ItemLock
    <3>3. cart[x.op.who] = x.mine /\ item[x.op.who][x.op.product] > 0
      BY <1>2 DEF Quantity
    <3> QED
      BY <3>2, <3>3 DEF Updates
  <2>7. CartLocked(y, H) /\ Checked(y, H, S)
    BY <2>1, <2>2, <2>3, <2>4 DEF CartSound, CartLocked, Checked
  <2>8. HasId(y) /\ Fresh(y)
    BY <2>1, <2>2, <2>3 DEF CartSound, HasId, Fresh
  <2>9. Patches(y, H)
    BY <2>2, <2>6 DEF Patches, Updates
  <2>10. Written(y, H, S) /\ Orders(y, H) /\ Merges(y, H)
    BY <2>1, <2>2 DEF Written, Orders, Merges
  <2>11. CartSound(y, H, S)
    BY <2>2, <2>3, <2>7, <2>8, <2>9, <2>10 DEF CartSound
  <2> QED
    BY <1>2, <2>1, <2>2, <2>11, ProceedCarts
<1> QED
  BY <1>1, <1>2 DEF PatchLockItem

LEMMA PatchLockProductCarts ==
  ASSUME IInv, CartInv, NEW t \in Txn, PatchLockProduct(t) PROVE CartInv'
<1> DEFINE x == tx[t]
           H == held[t] \cup NextLock(t)
           S == shared[t]
           p == x.op.product
           y == [x EXCEPT !.stk[p] = stock[p], !.put[p] = x.op.qty, !.pc = "commit"]
<1>1. CASE Abort(t)
  BY <1>1, AbortCarts
<1>2. CASE Proceed(t, y)
  <2>1. x.op.kind = "patch" /\ x.pc = "lockProduct" /\ Blockers(t) = {}
    BY DEF PatchLockProduct, At
  <2>2. stock[p] \in Nat /\ x.op.qty \in Nat
    BY TxTypes DEF IInv, TypeOK
  <2>3. /\ y \in TxType /\ y.op = x.op /\ y.fk = x.fk /\ y.mine = x.mine
        /\ y.pc = "commit" /\ y.put = [x.put EXCEPT ![p] = x.op.qty]
    BY <2>2, TxTypes DEF TxType, Statements
  <2> HIDE DEF y
  <2>4. CartSound(x, held[t], S) /\ x.op \in Ops /\ x.pc \in Statements
    BY Own
  <2>5. \A c \in Owner : CartRow(c) \notin NextLock(t)
    BY <2>1, <2>4, NoCartLock
  <2>6. Updates(y, H, p)
    BY <2>1, <2>3, <2>4 DEF CartSound, Patches, Updates
  <2>7. \A q \in Product : q # p => y.put[q] = 0
    <3>1. x.put = NoItems
      BY <2>1, <2>4 DEF CartSound, Fresh
    <3> QED
      BY <2>3, <3>1 DEF NoItems
  <2>8. CartLocked(y, H)
    BY <2>1, <2>3, <2>4, <2>5 DEF CartSound, CartLocked
  <2>9. Checked(y, H, S)
    BY <2>1, <2>3, <2>4, <2>5 DEF CartSound, Checked
  <2>10. HasId(y) /\ Fresh(y)
    BY <2>1, <2>3 DEF HasId, Fresh
  <2>11. Patches(y, H)
    BY <2>3, <2>6 DEF Patches
  <2>12. Written(y, H, S)
    BY <2>3, <2>6, <2>7 DEF Written
  <2>13. Orders(y, H) /\ Merges(y, H)
    BY <2>1, <2>3 DEF Orders, Merges
  <2>14. CartSound(y, H, S)
    BY <2>3, <2>4, <2>8, <2>9, <2>10, <2>11, <2>12, <2>13 DEF CartSound
  <2> QED
    BY <1>2, <2>1, <2>3, <2>14, ProceedCarts
<1> QED
  BY <1>1, <1>2 DEF PatchLockProduct

\* The guest cart is locked before its items are read.
LEMMA ClaimLockGuestCarts ==
  ASSUME IInv, CartInv, NEW t \in Txn, ClaimLockGuest(t) PROVE CartInv'
<1> DEFINE x == tx[t]
           g == x.op.guest
           H == held[t] \cup NextLock(t)
           S == shared[t]
           usable == {p \in Product : item[g][p] > 0 /\ active[p] /\ stock[p] > 0}
           read == [x EXCEPT !.seen = item[g], !.stk = stock, !.todo = usable]
<1>1. x.op.kind = "claim" /\ x.pc = "lockGuest" /\ Blockers(t) = {} /\ x.at \in Product
  BY TxTypes DEF ClaimLockGuest, At
<1>2. x \in TxType /\ item[g] \in [Product -> Nat] /\ stock \in [Product -> Nat]
      /\ usable \subseteq Product /\ g \in Owner
  BY TxTypes DEF IInv, TypeOK
<1>3. CartSound(x, held[t], S) /\ x.op \in Ops /\ g # x.op.who
  BY <1>1, Own
<1>4. x.put = NoItems /\ x.seen = NoItems /\ S = {}
  BY <1>1, <1>3 DEF CartSound, Fresh, Checked
<1>5. NextLock(t) = GuestLock(t)
  BY <1>1, NextLockAt
<1>6. \A c \in Owner : CartRow(c) \in H => CartRow(c) \in held[t] \/ (c = g /\ cart[g] # 0)
  BY <1>5, CartRowsDiffer DEF GuestLock
<1>7. CartRow(g) \notin held[t]
  BY <1>1, <1>2, <1>3 DEF CartSound, CartLocked
<1>8. cart[g] # 0 => CartRow(g) \in H
  BY <1>5 DEF GuestLock
<1> HIDE DEF usable
<1>9. ASSUME NEW y \in TxType, NEW next \in {"claimItem", "dropGuest", "commit"}, Proceed(t, y),
             y.op = x.op, y.fk = x.fk, y.mine = x.mine, y.put = x.put, y.pc = next,
             \/ next = "commit" /\ cart[g] = 0 /\ y.seen = x.seen
             \/ next # "commit" /\ cart[g] # 0
      PROVE  CartInv'
  <2>1. CartLocked(y, H)
    BY <1>1, <1>3, <1>6, <1>9 DEF CartSound, CartLocked
  <2>2. HasId(y)
    BY <1>1, <1>3, <1>9 DEF CartSound, HasId
  <2>3. Written(y, H, S)
    BY <1>4, <1>9 DEF Written, NoItems
  <2>4. Checked(y, H, S)
    BY <1>3, <1>4, <1>9 DEF CartSound, Checked
  <2>5. Merges(y, H)
    BY <1>2, <1>4, <1>6, <1>7, <1>8, <1>9 DEF Merges
  <2>6. Fresh(y) /\ Patches(y, H) /\ Orders(y, H)
    BY <1>1, <1>9 DEF Fresh, Patches, Orders
  <2>7. CartSound(y, H, S)
    BY <1>3, <1>9, <2>1, <2>2, <2>3, <2>4, <2>5, <2>6 DEF CartSound
  <2> QED
    BY <1>1, <1>9, <2>7, ProceedCarts
<1>10. CASE cart[g] = 0 /\ Proceed(t, [x EXCEPT !.pc = "commit"])
  <2> DEFINE y == [x EXCEPT !.pc = "commit"]
  <2>1. /\ y \in TxType /\ y.op = x.op /\ y.fk = x.fk /\ y.mine = x.mine /\ y.put = x.put
        /\ y.pc = "commit" /\ y.seen = x.seen
    BY <1>2 DEF TxType, Statements
  <2> QED
    BY <1>9, <1>10, <2>1
<1>11. ASSUME NEW p \in Product, NEW next \in {"claimItem", "dropGuest"}, cart[g] # 0,
              Proceed(t, [read EXCEPT !.pc = next, !.at = p])
       PROVE  CartInv'
  <2> DEFINE y == [read EXCEPT !.pc = next, !.at = p]
  <2>1. /\ y \in TxType /\ y.op = x.op /\ y.fk = x.fk /\ y.mine = x.mine /\ y.put = x.put
        /\ y.pc = next
    BY <1>2 DEF TxType, Statements
  <2> QED
    BY <1>9, <1>11, <2>1
<1>12. [read EXCEPT !.pc = "dropGuest"] = [read EXCEPT !.pc = "dropGuest", !.at = x.at]
  BY <1>2 DEF TxType
<1> QED
  BY <1>1, <1>2, <1>10, <1>11, <1>12 DEF ClaimLockGuest, usable
LEMMA ClaimLockItemCarts ==
  ASSUME IInv, CartInv, NEW t \in Txn, ClaimLockItem(t) PROVE CartInv'
<1> DEFINE x == tx[t]
           H == held[t] \cup NextLock(t)
           S == shared[t]
           p == x.at
           sum == x.seen[p] + Quantity(x.op.who, x.mine, p)
           merged == Least(sum, Least(x.stk[p], MaxQuantity))
           y == [x EXCEPT !.put[p] = merged, !.pc = "putItem"]
<1>1. x.op.kind = "claim" /\ x.pc = "claimItem" /\ Blockers(t) = {} /\ Proceed(t, y)
  BY DEF ClaimLockItem, At
<1>2. merged \in Nat
  <2>1. \A m, n \in Nat : Least(m, n) \in Nat
    BY DEF Least
  <2>2. p \in Product /\ x.stk[p] \in Nat /\ x.seen[p] \in Nat
    BY <1>1, TxTypes
  <2>3. sum \in Nat
    BY <2>2, TxTypes
  <2>4. Least(x.stk[p], MaxQuantity) \in Nat
    BY <2>1, <2>2, StorefrontAssumption
  <2> HIDE DEF sum
  <2> QED
    BY <2>1, <2>3, <2>4
<1> HIDE DEF merged
<1>3. /\ y \in TxType /\ y.op = x.op /\ y.fk = x.fk /\ y.mine = x.mine /\ y.at = x.at
      /\ y.pc = "putItem" /\ y.put = [x.put EXCEPT ![p] = merged] /\ y.seen = x.seen
  BY <1>2, TxTypes DEF TxType, Statements
<1> HIDE DEF y
<1>4. CartSound(x, held[t], S) /\ x.op \in Ops /\ x.pc \in Statements
  BY Own
<1>5. \A c \in Owner : CartRow(c) \notin NextLock(t)
  BY <1>1, <1>4, NoCartLock
<1>6. CartLocked(y, H) /\ Checked(y, H, S) /\ HasId(y)
  BY <1>1, <1>3, <1>4, <1>5 DEF CartSound, CartLocked, Checked, HasId
<1>7. \A q \in Product : q # p => y.put[q] = x.put[q]
  BY <1>3, TxTypes
<1>8. Written(y, H, S)
  BY <1>1, <1>3, <1>4, <1>7 DEF CartSound, Written, Updates
<1>9. Merges(y, H)
  BY <1>1, <1>3, <1>4 DEF CartSound, Merges
<1>10. Fresh(y) /\ Patches(y, H) /\ Orders(y, H)
  BY <1>1, <1>3 DEF Fresh, Patches, Orders
<1>11. CartSound(y, H, S)
  BY <1>3, <1>4, <1>6, <1>8, <1>9, <1>10 DEF CartSound
<1> QED
  BY <1>1, <1>3, <1>11, ProceedCarts

\* The DELETE locks every item the guest cart has by then.
LEMMA ClaimDropGuestCarts ==
  ASSUME IInv, CartInv, NEW t \in Txn, ClaimDropGuest(t) PROVE CartInv'
<1> DEFINE x == tx[t]
           g == x.op.guest
           H == held[t] \cup NextLock(t)
           S == shared[t]
           y == [x EXCEPT !.pc = "commit"]
<1>1. x.op.kind = "claim" /\ x.pc = "dropGuest" /\ Blockers(t) = {} /\ Proceed(t, y)
  BY DEF ClaimDropGuest, At
<1>2. /\ y \in TxType /\ y.op = x.op /\ y.fk = x.fk /\ y.mine = x.mine
      /\ y.pc = "commit" /\ y.put = x.put /\ y.seen = x.seen
  BY TxTypes DEF TxType, Statements
<1> HIDE DEF y
<1>3. CartSound(x, held[t], S) /\ x.op \in Ops /\ x.pc \in Statements
  BY Own
<1>4. NextLock(t) = GuestDeleteLocks(t)
  BY <1>1, NextLockAt
<1>5. \A c \in Owner : CartRow(c) \in H => CartRow(c) \in held[t] \/ (c = g /\ cart[g] # 0)
  BY <1>4, CartRowsDiffer DEF GuestDeleteLocks, GuestLock
<1>6. \A p \in Product : item[g][p] > 0 => ItemRow(g, cart[g], p) \in H
  BY <1>4 DEF GuestDeleteLocks
<1>7. CartLocked(y, H)
  BY <1>1, <1>2, <1>3, <1>5 DEF CartSound, CartLocked
<1>8. HasId(y)
  BY <1>1, <1>2, <1>3 DEF CartSound, HasId
<1>9. S = {}
  BY <1>1, <1>3 DEF CartSound, Checked
<1>10. Checked(y, H, S)
  BY <1>1, <1>2, <1>3, <1>9 DEF CartSound, Checked
<1>11. Written(y, H, S)
  BY <1>1, <1>2, <1>3 DEF CartSound, Written, Updates
<1>12. Merges(y, H)
  BY <1>1, <1>2, <1>3, <1>6 DEF CartSound, Merges
<1>13. Fresh(y) /\ Patches(y, H) /\ Orders(y, H)
  BY <1>1, <1>2 DEF Fresh, Patches, Orders
<1>14. CartSound(y, H, S)
  BY <1>2, <1>3, <1>7, <1>8, <1>10, <1>11, <1>12, <1>13 DEF CartSound
<1> QED
  BY <1>1, <1>2, <1>14, ProceedCarts

LEMMA HeadAndTail ==
  ASSUME NEW f \in Seq(Row), f # <<>>
  PROVE  /\ Len(f) \in Nat /\ Head(f) = f[1] /\ 1 \in 1..Len(f)
         /\ \A i \in 1..Len(f) : i = 1 \/ (i - 1 \in 1..Len(Tail(f)) /\ Tail(f)[i - 1] = f[i])
         /\ \A i \in 1..Len(Tail(f)) : i + 1 \in 1..Len(f) /\ Tail(f)[i] = f[i + 1]
<1>1. /\ Len(Tail(f)) = Len(f) - 1
      /\ \A i \in 1..Len(Tail(f)) : Tail(f)[i] = f[i + 1]
  BY HeadTailProperties, Zenon
<1>2. Len(f) \in Nat /\ Len(f) # 0 /\ Head(f) = f[1]
  <2>1. Len(f) \in Nat /\ Head(f) = f[1]
    OBVIOUS
  <2>2. Len(f) # 0
    BY EmptySeq, Zenon
  <2> QED
    BY <2>1, <2>2
<1> DEFINE g == Tail(f)
<1> HIDE DEF g
<1>3. /\ Len(g) = Len(f) - 1
      /\ \A i \in 1..Len(g) : g[i] = f[i + 1]
  BY <1>1 DEF g
<1>4. ASSUME NEW i \in 1..Len(f), i # 1 PROVE i - 1 \in 1..Len(g) /\ g[i - 1] = f[i]
  <2>1. i - 1 \in 1..Len(g) /\ (i - 1) + 1 = i
    BY <1>2, <1>3, <1>4
  <2> QED
    BY <1>3, <2>1
<1>5. \A i \in 1..Len(g) : i + 1 \in 1..Len(f) /\ g[i] = f[i + 1]
  BY <1>2, <1>3
<1> QED
  BY <1>2, <1>4, <1>5 DEF g

\* A check that succeeds keeps the cart from being ordered or merged away.
LEMMA CheckForeignKeyCarts ==
  ASSUME IInv, CartInv, NEW t \in Txn, CheckForeignKey(t) PROVE CartInv'
<1> DEFINE x == tx[t]
           o == x.op.who
           r == Head(x.fk)
           y == [x EXCEPT !.fk = Tail(x.fk)]
           S == shared[t] \cup {r}
<1>1. CASE Abort(t)
  BY <1>1, AbortCarts
<1>2. CASE ~ Abort(t)
  <2>1. /\ x.op.kind \in {"add", "claim"} /\ x.pc = "commit" /\ x.fk # <<>> /\ Blockers(t) = {}
        /\ ~ Gone(t, r) /\ tx' = [tx EXCEPT ![t] = y] /\ shared' = [shared EXCEPT ![t] = S]
        /\ UNCHANGED <<cart, carts, item, held>>
    BY <1>2, TxTypes DEF CheckForeignKey, At, tables
  <2>2. x \in TxType /\ x.fk \in Seq(Row)
    BY TxTypes
  <2>3. /\ Len(x.fk) \in Nat /\ r = x.fk[1] /\ 1 \in 1..Len(x.fk)
        /\ \A i \in 1..Len(x.fk) :
             i = 1 \/ (i - 1 \in 1..Len(Tail(x.fk)) /\ Tail(x.fk)[i - 1] = x.fk[i])
        /\ \A i \in 1..Len(Tail(x.fk)) : i + 1 \in 1..Len(x.fk) /\ Tail(x.fk)[i] = x.fk[i + 1]
    BY <2>1, <2>2, HeadAndTail
  <2>4. /\ y.op = x.op /\ y.fk = Tail(x.fk) /\ y.mine = x.mine /\ y.pc = "commit"
        /\ y.put = x.put /\ y.seen = x.seen
    BY <2>1, <2>2 DEF TxType
  <2>5. /\ tx \in [Txn -> TxType] /\ shared \in [Txn -> SUBSET Row]
    BY DEF IInv, TypeOK
  <2> HIDE DEF y
  <2>6. CartSound(x, held[t], shared[t]) /\ x.op \in Ops
    BY Own
  <2>7. ItemsHaveCart'
    BY <2>1 DEF CartInv, ItemsHaveCart
  <2>8. SharesSafe'
    <3>1. ASSUME NEW u \in Txn \ {t} PROVE r \notin held[u]
      BY <2>1 DEF Blockers, NextShare
    <3> QED
      BY <2>1, <2>5, <3>1 DEF CartInv, SharesSafe
  <2>9. CartSound(y, held[t], S)
    <3>1. Checked(y, held[t], S)
      <4>1. \A i \in 1..Len(x.fk) :
              x.fk[i] = CartRow(o) \/ \E p \in Product : x.fk[i] = ProductRow(p)
        BY <2>6 DEF CartSound, Checked
      <4>2. \A i \in 1..Len(y.fk) :
              y.fk[i] = CartRow(o) \/ \E p \in Product : y.fk[i] = ProductRow(p)
        BY <2>3, <2>4, <4>1
      <4>3. ASSUME NEW c \in Owner, CartRow(c) \in S
            PROVE  c = o /\ (cart[c] = x.mine \/ CartRow(c) \in held[t])
        <5>1. CASE CartRow(c) \in shared[t]
          BY <2>6, <5>1 DEF CartSound, Checked
        <5>2. CASE CartRow(c) = r
          <6>1. c = o
            BY <2>3, <4>1, <5>2, CartRowsDiffer
          <6> QED
            BY <2>1, <5>2, <6>1 DEF Gone
        <5> QED
          BY <4>3, <5>1, <5>2
      <4> QED
        BY <2>1, <2>4, <4>2, <4>3 DEF Checked
    <3>2. Written(y, held[t], S)
      <4> SUFFICES ASSUME NEW p \in Product, x.put[p] > 0
                   PROVE  \/ CartRow(o) \in held[t]
                          \/ \E i \in 1..Len(y.fk) : y.fk[i] = CartRow(o)
                          \/ CartRow(o) \in S
                          \/ Updates(y, held[t], p)
        BY <2>4 DEF Written
      <4>1. \/ CartRow(o) \in held[t]
            \/ \E i \in 1..Len(x.fk) : x.fk[i] = CartRow(o)
            \/ CartRow(o) \in shared[t]
            \/ Updates(x, held[t], p)
        BY <2>1, <2>6 DEF CartSound, Written
      <4>2. Updates(x, held[t], p) => Updates(y, held[t], p)
        BY <2>4 DEF Updates
      <4>3. ASSUME NEW i \in 1..Len(x.fk), x.fk[i] = CartRow(o), CartRow(o) \notin S
            PROVE  \E j \in 1..Len(y.fk) : y.fk[j] = CartRow(o)
        BY <2>3, <2>4, <4>3
      <4> QED
        BY <4>1, <4>2, <4>3
    <3>3. CartLocked(y, held[t]) /\ HasId(y) /\ Fresh(y)
      BY <2>1, <2>4, <2>6 DEF CartSound, CartLocked, HasId, Fresh
    <3>4. Patches(y, held[t]) /\ Orders(y, held[t])
      BY <2>1, <2>4 DEF Patches, Orders
    <3>5. Merges(y, held[t])
      BY <2>1, <2>4, <2>6 DEF CartSound, Merges
    <3> QED
      BY <2>4, <2>6, <3>1, <3>2, <3>3, <3>4, <3>5 DEF CartSound
  <2>10. ASSUME NEW u \in Txn PROVE CartSound(tx[u], held[u], shared[u])'
    <3>1. CASE u = t
      <4>1. tx'[u] = y /\ held'[u] = held[t] /\ shared'[u] = S
        BY <2>1, <2>5, <3>1
      <4> QED
        BY <2>1, <2>9, <4>1 DEF CartSound, CartLocked, HasId, Fresh, Updates, Written, Checked,
                                Patches, Orders, Merges
    <3>2. CASE u # t
      <4>1. tx'[u] = tx[u] /\ held'[u] = held[u] /\ shared'[u] = shared[u]
        BY <2>1, <2>5, <3>2
      <4>2. CartSound(tx[u], held[u], shared[u])
        BY DEF CartInv
      <4> QED
        BY <2>1, <4>1, <4>2 DEF CartSound, CartLocked, HasId, Fresh, Updates, Written, Checked,
                                Patches, Orders, Merges
    <3> QED
      BY <3>1, <3>2
  <2> QED
    BY <2>7, <2>8, <2>10 DEF CartInv
<1> QED
  BY <1>1, <1>2
-------------------------------------------------------------------------------
(* The statements of a checkout.                                           *)

LEMMA CheckoutLockCartCarts ==
  ASSUME IInv, CartInv, NEW t \in Txn, CheckoutLockCart(t) PROVE CartInv'
<1> DEFINE x == tx[t]
           o == x.op.who
           H == held[t] \cup NextLock(t)
           S == shared[t]
           lines == {p \in Product : Quantity(o, x.mine, p) > 0}
<1>1. CASE Abort(t)
  BY <1>1, AbortCarts
<1>2. CASE \E p \in lines :
             Proceed(t, [x EXCEPT !.todo = lines, !.at = p, !.pc = "lockItems"])
  <2>1. x.op.kind = "checkout" /\ x.pc = "lockCart" /\ Blockers(t) = {} /\ o \in Owner
    BY TxTypes DEF CheckoutLockCart, At
  <2>2. PICK p \in lines :
          Proceed(t, [x EXCEPT !.todo = lines, !.at = p, !.pc = "lockItems"])
    BY <1>2
  <2>3. cart[o] = x.mine
    BY DEF Quantity
  <2>4. \A q \in Product : q \notin lines => item[o][q] = 0
    BY <2>1, <2>3 DEF Quantity, IInv, TypeOK
  <2>5. lines \subseteq Product /\ p \in Product
    OBVIOUS
  <2> DEFINE y == [x EXCEPT !.todo = lines, !.at = p, !.pc = "lockItems"]
  <2> HIDE DEF lines
  <2>6. /\ y \in TxType /\ y.op = x.op /\ y.fk = x.fk /\ y.mine = x.mine
        /\ y.pc = "lockItems" /\ y.seen = x.seen /\ y.todo = lines
    BY <2>5, TxTypes DEF TxType, Statements
  <2>7. Proceed(t, y)
    BY <2>2
  <2> HIDE DEF y
  <2>8. CartSound(x, held[t], S) /\ x.op \in Ops
    BY Own
  <2>9. NextLock(t) = {CartRow(o)}
    <3>1. NextLock(t) = CartLock(t)
      BY <2>1, NextLockAt
    <3> QED
      BY <2>3, <3>1 DEF CartLock
  <2>10. \A c \in Owner : CartRow(c) \in H => c = o
    BY <2>1, <2>8, <2>9, CartRowsDiffer DEF CartSound, CartLocked
  <2>11. CartLocked(y, H)
    BY <2>1, <2>3, <2>6, <2>10 DEF CartLocked
  <2>12. Orders(y, H)
    <3>1. x.seen = NoItems
      BY <2>1, <2>8 DEF CartSound, Fresh
    <3> QED
      BY <2>4, <2>6, <2>9, <3>1 DEF Orders, NoItems
  <2>13. Checked(y, H, S)
    BY <2>1, <2>6, <2>8 DEF CartSound, Checked
  <2>14. HasId(y)
    BY <2>1, <2>6, <2>8 DEF CartSound, HasId
  <2>15. Fresh(y) /\ Written(y, H, S) /\ Patches(y, H) /\ Merges(y, H)
    BY <2>1, <2>6 DEF Fresh, Written, Patches, Merges
  <2>16. CartSound(y, H, S)
    BY <2>6, <2>8, <2>11, <2>12, <2>13, <2>14, <2>15 DEF CartSound
  <2> QED
    BY <2>1, <2>6, <2>7, <2>16, ProceedCarts
<1> QED
  BY <1>1, <1>2 DEF CheckoutLockCart

\* A checkout that keeps the cart it has locked.
LEMMA OrderingCarts ==
  ASSUME IInv, CartInv, NEW t \in Txn, NEW y \in TxType, Proceed(t, y), Blockers(t) = {},
         tx[t].op.kind = "checkout", tx[t].pc \in {"lockItems", "insertOrder"},
         y.op = tx[t].op, y.fk = tx[t].fk, y.mine = tx[t].mine,
         y.pc \in {"lockItems", "lockProducts", "insertOrder", "commit"},
         Orders(y, held[t] \cup NextLock(t))
  PROVE  CartInv'
<1> DEFINE x == tx[t]
           H == held[t] \cup NextLock(t)
           S == shared[t]
<1>1. CartSound(x, held[t], S) /\ x.op \in Ops /\ x.pc \in Statements
  BY Own
<1>2. \A c \in Owner : CartRow(c) \notin NextLock(t)
  BY <1>1, NoCartLock
<1>3. CartLocked(y, H)
  BY <1>1, <1>2 DEF CartSound, CartLocked
<1>4. Checked(y, H, S) /\ HasId(y)
  BY <1>1 DEF CartSound, Checked, HasId
<1>5. Fresh(y) /\ Written(y, H, S) /\ Patches(y, H) /\ Merges(y, H)
  BY DEF Fresh, Written, Patches, Merges
<1>6. CartSound(y, H, S)
  BY <1>1, <1>3, <1>4, <1>5 DEF CartSound
<1> QED
  BY <1>6, ProceedCarts

\* The item is read as it is once its row is locked; the cart cannot change.
LEMMA CheckoutLockItemCarts ==
  ASSUME IInv, CartInv, NEW t \in Txn, CheckoutLockItem(t) PROVE CartInv'
<1> DEFINE x == tx[t]
           o == x.op.who
           H == held[t] \cup NextLock(t)
           left == x.todo \ {x.at}
           qty == Quantity(o, x.mine, x.at)
           read == [x EXCEPT !.todo = left, !.seen[x.at] = qty]
           lines == {p \in Product : read.seen[p] > 0}
<1>1. /\ x.op.kind = "checkout" /\ x.pc = "lockItems" /\ Blockers(t) = {}
      /\ x \in TxType /\ x.at \in Product /\ o \in Owner /\ x.seen \in [Product -> Nat]
  BY TxTypes DEF CheckoutLockItem, At
<1>2. CartSound(x, held[t], shared[t])
  BY Own
<1>3. CartRow(o) \in held[t] /\ cart[o] = x.mine
  BY <1>1, <1>2 DEF CartSound, Orders, CartLocked
<1>4. qty = item[o][x.at] /\ qty \in Nat
  BY <1>1, <1>3 DEF Quantity, IInv, TypeOK
<1>5. item[o][x.at] > 0 => ItemRow(o, x.mine, x.at) \in H
  <2>1. NextLock(t) = ItemLock(t)
    BY <1>1, NextLockAt
  <2> QED
    BY <1>1, <1>4, <2>1 DEF ItemLock
<1>6. left \subseteq Product
  BY TxTypes
<1> HIDE DEF qty, left
<1>7. /\ read \in TxType /\ read.op = x.op /\ read.fk = x.fk /\ read.mine = x.mine
      /\ read.pc = "lockItems" /\ read.seen = [x.seen EXCEPT ![x.at] = qty] /\ read.todo = left
  BY <1>1, <1>4, <1>6 DEF TxType
<1>8. ASSUME NEW p \in Product, p \notin left
      PROVE  /\ read.seen[p] = item[o][p]
             /\ item[o][p] > 0 => ItemRow(o, x.mine, p) \in H
  <2>1. CASE p = x.at
    BY <1>1, <1>4, <1>5, <1>7, <2>1
  <2>2. CASE p # x.at
    <3>1. p \notin x.todo
      BY <1>8, <2>2 DEF left
    <3>2. x.seen[p] = item[o][p] /\ (item[o][p] > 0 => ItemRow(o, x.mine, p) \in held[t])
      BY <1>1, <1>2, <3>1 DEF CartSound, Orders
    <3> QED
      BY <1>1, <1>7, <2>2, <3>2
  <2> QED
    BY <2>1, <2>2
<1>9. CASE Abort(t)
  BY <1>9, AbortCarts
<1>10. CASE \E p \in left : Proceed(t, [read EXCEPT !.at = p])
  <2>1. PICK p \in left : Proceed(t, [read EXCEPT !.at = p])
    BY <1>10
  <2> DEFINE y == [read EXCEPT !.at = p]
  <2> HIDE DEF read
  <2>2. /\ y \in TxType /\ y.op = x.op /\ y.fk = x.fk /\ y.mine = x.mine
        /\ y.pc = "lockItems" /\ y.seen = read.seen /\ y.todo = left
    BY <1>6, <1>7 DEF TxType
  <2>3. Orders(y, H)
    BY <1>3, <1>8, <2>2 DEF Orders
  <2> QED
    BY <1>1, <2>1, <2>2, <2>3, OrderingCarts
<1>11. CASE left = {} /\ Proceed(t, [read EXCEPT !.todo = lines, !.pc = "lockProducts"])
  <2> DEFINE y == [read EXCEPT !.todo = lines, !.pc = "lockProducts"]
  <2>1. lines \subseteq Product
    OBVIOUS
  <2> HIDE DEF read, lines
  <2>2. /\ y \in TxType /\ y.op = x.op /\ y.fk = x.fk /\ y.mine = x.mine
        /\ y.pc = "lockProducts" /\ y.seen = read.seen
    BY <1>7, <2>1 DEF TxType, Statements
  <2>3. Orders(y, H)
    BY <1>3, <1>8, <1>11, <2>2 DEF Orders
  <2> QED
    BY <1>1, <1>11, <2>2, <2>3, OrderingCarts
<1> QED
  BY <1>9, <1>10, <1>11 DEF CheckoutLockItem, qty, left

LEMMA InsertOrderCarts == ASSUME IInv, CartInv, NEW t \in Txn, InsertOrder(t) PROVE CartInv'
<1> DEFINE x == tx[t]
           H == held[t] \cup NextLock(t)
           y == [x EXCEPT !.pc = "commit"]
<1>1. CASE Abort(t)
  BY <1>1, AbortCarts
<1>2. CASE Proceed(t, y)
  <2>1. x.op.kind = "checkout" /\ x.pc = "insertOrder" /\ Blockers(t) = {}
    BY DEF InsertOrder, At
  <2>2. /\ y \in TxType /\ y.op = x.op /\ y.fk = x.fk /\ y.mine = x.mine
        /\ y.pc = "commit" /\ y.seen = x.seen
    BY TxTypes DEF TxType, Statements
  <2> HIDE DEF y
  <2>3. CartSound(x, held[t], shared[t])
    BY Own
  <2>4. Orders(y, H)
    BY <2>1, <2>2, <2>3 DEF CartSound, Orders
  <2> QED
    BY <1>2, <2>1, <2>2, <2>4, OrderingCarts
<1> QED
  BY <1>1, <1>2 DEF InsertOrder

LEMMA BeginCarts == ASSUME IInv, CartInv, NEW t \in Txn, Begin(t) PROVE CartInv'
<1> DEFINE x == tx[t]
<1>1. PICK o \in Ops : tx' = [tx EXCEPT ![t] = [x EXCEPT !.op = o, !.at = o.product,
                                                         !.pc = FirstStatement(o.kind)]]
  BY DEF Begin, IInv, TypeOK
<1> DEFINE first == FirstStatement(o.kind)
           y == [x EXCEPT !.op = o, !.at = o.product, !.pc = first]
<1>2. UNCHANGED <<cart, carts, item, held, shared>> /\ x.pc = "idle"
  BY DEF Begin, tables
<1>3. o \in Op /\ o.product \in Product /\ o.kind \in Kind
  BY StorefrontAssumption DEF Op
<1>4. /\ first \in {"lockProduct", "readCart", "makeCart", "findOrder", "lockOrder", "readProduct"}
      /\ o.kind = "add" => first = "lockProduct"
      /\ o.kind \in {"patch", "delete"} => first = "readCart"
      /\ o.kind = "claim" => first = "makeCart"
      /\ o.kind = "checkout" => first = "findOrder"
  BY <1>3, Zenon DEF FirstStatement, Kind
<1> HIDE DEF first
<1>5. CartSound(x, held[t], shared[t])
  BY Own
<1>6. x = Idle /\ held[t] = {} /\ shared[t] = {}
  BY <1>2, <1>5 DEF CartSound
<1>7. x.put = NoItems /\ x.seen = NoItems /\ x.fk = <<>>
  BY <1>6 DEF Idle
<1>8. /\ y.op = o /\ y.at = o.product /\ y.pc = first /\ y.put = NoItems /\ y.seen = NoItems
      /\ y.fk = <<>>
  BY <1>7, TxTypes DEF TxType
<1>9. tx' = [tx EXCEPT ![t] = y]
  BY <1>1 DEF first
<1> HIDE DEF y
<1>10. /\ CartLocked(y, {}) /\ HasId(y) /\ Fresh(y) /\ Written(y, {}, {}) /\ Patches(y, {})
       /\ Orders(y, {}) /\ Merges(y, {})
  BY <1>4, <1>8 DEF CartLocked, HasId, Fresh, Written, Patches, Orders, Merges
<1>11. Checked(y, {}, {})
  BY <1>8 DEF Checked
<1>12. CartSound(y, {}, {})
  BY <1>4, <1>8, <1>10, <1>11 DEF CartSound
<1>13. ItemsHaveCart' /\ SharesSafe'
  BY <1>2 DEF CartInv, ItemsHaveCart, SharesSafe
<1>14. ASSUME NEW u \in Txn PROVE CartSound(tx[u], held[u], shared[u])'
  <2>1. tx \in [Txn -> TxType]
    BY DEF IInv, TypeOK
  <2>2. CASE u = t
    <3>1. tx'[u] = y /\ held'[u] = {} /\ shared'[u] = {}
      BY <1>2, <1>6, <1>9, <2>1, <2>2
    <3> QED
      BY <1>2, <1>12, <3>1 DEF CartSound, CartLocked, HasId, Fresh, Updates, Written, Checked,
                               Patches, Orders, Merges
  <2>3. CASE u # t
    <3>1. tx'[u] = tx[u] /\ held'[u] = held[u] /\ shared'[u] = shared[u]
      BY <1>2, <1>9, <2>1, <2>3
    <3>2. CartSound(tx[u], held[u], shared[u])
      BY DEF CartInv
    <3> QED
      BY <1>2, <3>1, <3>2 DEF CartSound, CartLocked, HasId, Fresh, Updates, Written, Checked,
                              Patches, Orders, Merges
  <2> QED
    BY <2>2, <2>3
<1> QED
  BY <1>13, <1>14 DEF CartInv
-------------------------------------------------------------------------------
(* The commits.                                                            *)

LEMMA CommitCancelCarts == ASSUME IInv, CartInv, NEW t \in Txn, CommitCancel(t) PROVE CartInv'
BY EndOutsideCarts DEF CommitCancel

LEMMA CommitStatusCarts == ASSUME IInv, CartInv, NEW t \in Txn, CommitStatus(t) PROVE CartInv'
BY EndOutsideCarts DEF CommitStatus

LEMMA EditSaveProductCarts ==
  ASSUME IInv, CartInv, NEW t \in Txn, EditSaveProduct(t) PROVE CartInv'
BY EndOutsideCarts DEF EditSaveProduct

\* What the others have locked or checked is not in the hands of t.
LEMMA OthersRows ==
  ASSUME IInv, CartInv, NEW t \in Txn, NEW u \in Txn \ {t}
  PROVE  /\ held[t] \cap held[u] = {}
         /\ \A c \in Owner : CartRow(c) \in held[t] => CartRow(c) \notin held[u] \cup shared[u]
         /\ \A c \in Owner : CartRow(c) \in shared[t] => CartRow(c) \notin held[u]
         /\ CartSound(tx[u], held[u], shared[u])
<1>1. held[t] \cap held[u] = {}
  BY DEF IInv, LockDiscipline
<1> QED
  BY <1>1 DEF CartInv, SharesSafe

\* The DELETE waits for whoever has locked the item.
LEMMA DeleteItemCarts == ASSUME IInv, CartInv, NEW t \in Txn, DeleteItem(t) PROVE CartInv'
<1> DEFINE x == tx[t]
           o == x.op.who
           p == x.op.product
<1>1. /\ x.op.kind = "delete" /\ x.pc = "deleteItem" /\ Blockers(t) = {} /\ End(t)
      /\ UNCHANGED <<cart, carts>>
      /\ o \in Owner /\ p \in Product
  BY TxTypes DEF DeleteItem, At
<1>2. /\ item \in [Owner -> [Product -> Nat]] /\ cart \in [Owner -> Nat]
  BY DEF IInv, TypeOK
<1>3. \/ item' = item
      \/ cart[o] = x.mine /\ item' = [item EXCEPT ![o] = [item[o] EXCEPT ![p] = 0]]
  BY DEF DeleteItem
<1>4. item' \in [Owner -> [Product -> Nat]]
  BY <1>1, <1>2, <1>3
<1>5. \A c \in Owner, q \in Product :
        \/ item'[c][q] = item[c][q]
        \/ c = o /\ q = p /\ cart[o] = x.mine /\ item'[c][q] = 0
  BY <1>1, <1>2, <1>3
<1>6. x.at = p
  BY <1>1, Own DEF CartSound, Fresh
<1>7. cart[o] = x.mine /\ item[o][p] > 0 => NextLock(t) = {ItemRow(o, x.mine, p)}
  <2>1. NextLock(t) = ItemLock(t)
    BY <1>1, NextLockAt
  <2> QED
    BY <1>6, <2>1 DEF ItemLock, Quantity
<1>8. ItemsHaveCart'
  <2> SUFFICES ASSUME NEW c \in Owner
               PROVE  cart'[c] \in {0, carts'[c]} /\ (item'[c] # NoItems => cart'[c] # 0)
    BY DEF ItemsHaveCart
  <2>1. cart[c] \in {0, carts[c]} /\ (item[c] # NoItems => cart[c] # 0)
    BY DEF CartInv, ItemsHaveCart
  <2>2. item[c] = NoItems => item'[c] = NoItems
    <3> SUFFICES ASSUME item[c] = NoItems PROVE item'[c] = NoItems
      OBVIOUS
    <3>1. \A q \in Product : item'[c][q] = 0
      BY <1>5 DEF NoItems
    <3> QED
      BY <1>4, <3>1 DEF NoItems
  <2> QED
    BY <1>1, <2>1, <2>2
<1>9. ASSUME NEW u \in Txn \ {t}, tx'[u] = tx[u], held'[u] = held[u], shared'[u] = shared[u]
      PROVE  CartSound(tx[u], held[u], shared[u])'
  <2>1. CartSound(tx[u], held[u], shared[u])
    BY OthersRows
  <2>2. cart[o] = x.mine /\ item[o][p] > 0 => ItemRow(o, x.mine, p) \notin held[u]
    BY <1>1, <1>7 DEF Blockers
  <2>3. \A c \in Owner : cart'[c] = cart[c] /\ carts'[c] = carts[c]
    BY <1>1
  <2>4. \A c \in Owner, q \in Product :
          item'[c][q] = item[c][q] \/ (ItemRow(c, cart[c], q) \notin held[u] /\ item[c][q] > 0)
    BY <1>2, <1>5, <2>2
  <2>5. \A c \in Owner, n \in Nat, q \in Product :
          ItemRow(c, n, q) \in held[u] /\ cart[c] = n /\ item[c][q] > 0 =>
            cart'[c] = n /\ item'[c][q] > 0
    BY <2>3, <2>4
  <2>6. \A c \in Owner, q \in Product :
          CartRow(c) \in held[u] /\ (item[c][q] > 0 => ItemRow(c, cart[c], q) \in held[u]) =>
            item'[c][q] = item[c][q]
    BY <2>4
  <2> QED
    BY <1>2, <1>4, <1>9, <2>1, <2>3, <2>5, <2>6, OtherCartSound
<1> QED
  BY <1>1, <1>8, <1>9, EndCarts

\* A checkout at its commit has locked the cart and read all of its items.
LEMMA CommitOrderCart ==
  ASSUME IInv, CartInv, NEW t \in Txn, CommitOrder(t)
  PROVE  LET o == tx[t].op.who
         IN /\ o \in Owner /\ CartRow(o) \in held[t] /\ tx[t].mine # 0 /\ cart[o] = tx[t].mine
            /\ tx[t].seen = item[o]
            /\ \A p \in Product : item[o][p] > 0 => ItemRow(o, cart[o], p) \in held[t]
<1> DEFINE x == tx[t]
           o == x.op.who
<1>1. /\ x.op.kind = "checkout" /\ x.pc = "commit" /\ o \in Owner
      /\ x.seen \in [Product -> Nat] /\ item[o] \in [Product -> Nat]
  BY TxTypes DEF CommitOrder, At, IInv, TypeOK
<1>2. CartSound(x, held[t], shared[t])
  BY Own
<1>3. CartRow(o) \in held[t] /\ cart[o] = x.mine
  BY <1>1, <1>2 DEF CartSound, Orders, CartLocked
<1>4. x.mine # 0
  BY <1>1, <1>2 DEF CartSound, HasId
<1>5. \A p \in Product : /\ x.seen[p] = item[o][p]
                         /\ item[o][p] > 0 => ItemRow(o, x.mine, p) \in held[t]
  BY <1>1, <1>2 DEF CartSound, Orders
<1>6. x.seen = item[o]
  BY <1>1, <1>5
<1> QED
  BY <1>1, <1>3, <1>4, <1>5, <1>6

LEMMA CommitOrderCarts == ASSUME IInv, CartInv, NEW t \in Txn, CommitOrder(t) PROVE CartInv'
<1> DEFINE o == tx[t].op.who
<1>1. /\ End(t) /\ cart' = [cart EXCEPT ![o] = 0] /\ item' = [item EXCEPT ![o] = NoItems]
      /\ carts' = carts /\ o \in Owner
  BY CommitOrderCart DEF CommitOrder
<1>2. /\ item \in [Owner -> [Product -> Nat]] /\ cart \in [Owner -> Nat]
  BY DEF IInv, TypeOK
<1>3. NoItems \in [Product -> Nat]
  BY DEF NoItems
<1>4. /\ item' \in [Owner -> [Product -> Nat]]
      /\ \A c \in Owner : c # o => item'[c] = item[c] /\ cart'[c] = cart[c]
      /\ item'[o] = NoItems /\ cart'[o] = 0
  BY <1>1, <1>2, <1>3
<1>5. ItemsHaveCart'
  BY <1>1, <1>4 DEF CartInv, ItemsHaveCart
<1>6. ASSUME NEW u \in Txn \ {t}, tx'[u] = tx[u], held'[u] = held[u], shared'[u] = shared[u]
      PROVE  CartSound(tx[u], held[u], shared[u])'
  <2>1. /\ CartSound(tx[u], held[u], shared[u]) /\ CartRow(o) \notin held[u] \cup shared[u]
        /\ held[t] \cap held[u] = {}
    BY <1>1, CommitOrderCart, OthersRows
  <2>2. \A c \in Owner : CartRow(c) \in held[u] \cup shared[u] =>
          c # o /\ cart'[c] = cart[c] /\ carts'[c] = carts[c]
    BY <1>1, <1>4, <2>1
  <2>3. \A c \in Owner, n \in Nat, p \in Product :
          ItemRow(c, n, p) \in held[u] /\ cart[c] = n /\ item[c][p] > 0 =>
            cart'[c] = n /\ item'[c][p] > 0
    <3>1. \A p \in Product : item[o][p] > 0 => ItemRow(o, cart[o], p) \notin held[u]
      BY <2>1, CommitOrderCart
    <3> QED
      BY <1>4, <3>1
  <2>4. \A c \in Owner, p \in Product :
          CartRow(c) \in held[u] /\ (item[c][p] > 0 => ItemRow(c, cart[c], p) \in held[u]) =>
            item'[c][p] = item[c][p]
    BY <1>4, <2>2
  <2> QED
    BY <1>2, <1>4, <1>6, <2>1, <2>2, <2>3, <2>4, OtherCartSound
<1> QED
  BY <1>1, <1>5, <1>6, EndCarts
\* What an add, a change of quantity or a claim has established at its commit: its
\* cart is new and its own, or every item it writes holds on to the cart; and the
\* guest cart it drops is locked with its items.
LEMMA CommitCartFacts ==
  ASSUME IInv, CartInv, NEW t \in Txn, CommitCart(t)
  PROVE  LET x == tx[t]
             o == x.op.who
             g == x.op.guest
         IN /\ o \in Owner /\ g \in Owner
            /\ CartRow(o) \in held[t] => cart[o] = 0 /\ x.mine = carts[o] + 1
            /\ x.op.kind = "claim" /\ CartRow(g) \in held[t] =>
                 /\ g # o /\ cart[g] # 0
                 /\ \A p \in Product : item[g][p] > 0 => ItemRow(g, cart[g], p) \in held[t]
            /\ CartRow(o) \notin held[t] =>
                 \A p \in Product : x.put[p] > 0 =>
                   /\ cart[o] # 0
                   /\ \/ CartRow(o) \in shared[t]
                      \/ ItemRow(o, cart[o], p) \in held[t] /\ item[o][p] > 0
<1> DEFINE x == tx[t]
           o == x.op.who
           g == x.op.guest
<1>1. /\ x.op.kind \in {"add", "patch", "claim"} /\ x.pc = "commit" /\ x.fk = <<>>
      /\ o \in Owner /\ g \in Owner
  BY TxTypes DEF CommitCart, At
<1>2. CartSound(x, held[t], shared[t]) /\ (x.op.kind = "claim" => g # o)
  BY Own
<1>3. CartRow(o) \in held[t] => cart[o] = 0 /\ x.mine = carts[o] + 1
  BY <1>1, <1>2 DEF CartSound, CartLocked
<1>4. ASSUME x.op.kind = "claim", CartRow(g) \in held[t]
      PROVE  /\ g # o /\ cart[g] # 0
             /\ \A p \in Product : item[g][p] > 0 => ItemRow(g, cart[g], p) \in held[t]
  <2>1. g # o /\ cart[g] # 0
    BY <1>1, <1>2, <1>4 DEF CartSound, CartLocked
  <2> QED
    BY <1>1, <1>2, <1>4, <2>1 DEF CartSound, Merges
<1>5. ASSUME CartRow(o) \notin held[t], NEW p \in Product, x.put[p] > 0
      PROVE  /\ cart[o] # 0
             /\ \/ CartRow(o) \in shared[t]
                \/ ItemRow(o, cart[o], p) \in held[t] /\ item[o][p] > 0
  <2>1. CartRow(o) \in shared[t] \/ Updates(x, held[t], p)
    <3>1. \A i \in 1..Len(x.fk) : FALSE
      BY <1>1
    <3> QED
      BY <1>1, <1>2, <1>5, <3>1 DEF CartSound, Written
  <2>2. CASE CartRow(o) \in shared[t]
    <3>1. x.op.kind \in {"add", "claim"} /\ cart[o] = x.mine
      BY <1>1, <1>2, <1>5, <2>2 DEF CartSound, Checked
    <3>2. x.mine # 0
      BY <1>1, <1>2, <3>1 DEF CartSound, HasId
    <3> QED
      BY <2>2, <3>1, <3>2
  <2>3. CASE Updates(x, held[t], p)
    <3>1. ItemRow(o, cart[o], p) \in held[t] /\ item[o][p] > 0
      BY <2>3 DEF Updates
    <3>2. item[o] # NoItems
      BY <3>1 DEF NoItems
    <3> QED
      BY <1>1, <3>1, <3>2 DEF CartInv, ItemsHaveCart
  <2> QED
    BY <2>1, <2>2, <2>3
<1> QED
  BY <1>1, <1>3, <1>4, <1>5

\* The tables after the commit of an add, a change of quantity or a claim.
LEMMA CommitCartTables ==
  ASSUME IInv, CartInv, NEW t \in Txn, CommitCart(t)
  PROVE  LET x == tx[t]
             o == x.op.who
             g == x.op.guest
             dropped == x.op.kind = "claim" /\ CartRow(g) \in held[t]
         IN /\ item' \in [Owner -> [Product -> Nat]]
            /\ \A p \in Product : item'[o][p] = IF x.put[p] > 0 THEN x.put[p] ELSE item[o][p]
            /\ cart'[o] \in Nat
            /\ CartRow(o) \in held[t] => cart'[o] = x.mine /\ carts'[o] = x.mine
            /\ CartRow(o) \notin held[t] => cart'[o] = cart[o] /\ carts'[o] = carts[o]
            /\ \A c \in Owner \ {o} : carts'[c] = carts[c]
            /\ dropped => g # o /\ item'[g] = NoItems /\ cart'[g] = 0
            /\ \A c \in Owner \ {o} :
                 ~ (dropped /\ c = g) => item'[c] = item[c] /\ cart'[c] = cart[c]
<1> DEFINE x == tx[t]
           o == x.op.who
           g == x.op.guest
           created == CartRow(o) \in held[t]
           dropped == x.op.kind = "claim" /\ CartRow(g) \in held[t]
           kept == [p \in Product |-> IF x.put[p] > 0 THEN x.put[p] ELSE item[o][p]]
<1>1. /\ item' = [c \in Owner |-> CASE c = o -> kept
                                     [] dropped /\ c = g -> NoItems
                                     [] OTHER -> item[c]]
      /\ cart' = [c \in Owner |-> CASE c = o /\ created -> x.mine
                                     [] dropped /\ c = g -> 0
                                     [] OTHER -> cart[c]]
      /\ carts' = [carts EXCEPT ![o] = IF created THEN x.mine ELSE carts[o]]
  BY DEF CommitCart
<1>2. x.put \in [Product -> Nat] /\ x.mine \in Nat /\ o \in Owner /\ g \in Owner
  BY TxTypes
<1>3. /\ item \in [Owner -> [Product -> Nat]] /\ cart \in [Owner -> Nat]
      /\ carts \in [Owner -> Nat]
  BY DEF IInv, TypeOK
<1>4. kept \in [Product -> Nat] /\ NoItems \in [Product -> Nat]
  BY <1>2, <1>3 DEF NoItems
<1>5. dropped => g # o
  BY Own
<1>6. \A p \in Product : kept[p] = IF x.put[p] > 0 THEN x.put[p] ELSE item[o][p]
  OBVIOUS
<1> HIDE DEF kept, created, dropped
<1>7. item'[o] = kept
  BY <1>1, <1>2, <1>5
<1>8. created => cart'[o] = x.mine
  BY <1>1, <1>2, <1>5
<1>9. ~ created => cart'[o] = cart[o]
  BY <1>1, <1>2, <1>5
<1>10. dropped => item'[g] = NoItems /\ cart'[g] = 0
  BY <1>1, <1>2, <1>5
<1>11. ASSUME NEW c \in Owner \ {o}, ~ (dropped /\ c = g)
      PROVE  item'[c] = item[c] /\ cart'[c] = cart[c]
  BY <1>1, <1>11
<1>12. /\ created => carts'[o] = x.mine
       /\ ~ created => carts'[o] = carts[o]
       /\ \A c \in Owner \ {o} : carts'[c] = carts[c]
  BY <1>1, <1>2, <1>3
<1>13. ASSUME NEW c \in Owner PROVE item'[c] \in [Product -> Nat] /\ cart'[c] \in Nat
  BY <1>1, <1>2, <1>3, <1>4, Zenon
<1>14. item' \in [Owner -> [Product -> Nat]]
  BY <1>1, <1>13, Zenon
<1>15. \A p \in Product : item'[o][p] = IF x.put[p] > 0 THEN x.put[p] ELSE item[o][p]
  BY <1>6, <1>7
<1>16. cart'[o] \in Nat
  BY <1>2, <1>13
<1>17. /\ CartRow(o) \in held[t] => cart'[o] = x.mine /\ carts'[o] = x.mine
       /\ CartRow(o) \notin held[t] => cart'[o] = cart[o] /\ carts'[o] = carts[o]
  BY <1>8, <1>9, <1>12 DEF created
<1>18. \A c \in Owner \ {o} : carts'[c] = carts[c]
  BY <1>12
<1>19. dropped => g # o /\ item'[g] = NoItems /\ cart'[g] = 0
  BY <1>5, <1>10
<1>20. \A c \in Owner \ {o} : ~ (dropped /\ c = g) => item'[c] = item[c] /\ cart'[c] = cart[c]
  BY <1>11
<1> QED
  BY <1>14, <1>15, <1>16, <1>17, <1>18, <1>19, <1>20 DEF dropped
LEMMA CommitCartCarts == ASSUME IInv, CartInv, NEW t \in Txn, CommitCart(t) PROVE CartInv'
<1> DEFINE x == tx[t]
           o == x.op.who
           g == x.op.guest
           created == CartRow(o) \in held[t]
           dropped == x.op.kind = "claim" /\ CartRow(g) \in held[t]
<1>1. End(t)
  BY DEF CommitCart
<1>2. /\ item \in [Owner -> [Product -> Nat]] /\ item' \in [Owner -> [Product -> Nat]]
      /\ cart \in [Owner -> Nat] /\ carts \in [Owner -> Nat]
      /\ o \in Owner /\ g \in Owner /\ x.put \in [Product -> Nat]
  BY CommitCartTables, TxTypes DEF IInv, TypeOK
<1>3. /\ created => cart[o] = 0 /\ x.mine = carts[o] + 1
      /\ dropped => /\ g # o /\ cart[g] # 0
                    /\ \A p \in Product : item[g][p] > 0 => ItemRow(g, cart[g], p) \in held[t]
  BY CommitCartFacts
<1>4. ~ created =>
        \A p \in Product : x.put[p] > 0 =>
          /\ cart[o] # 0
          /\ \/ CartRow(o) \in shared[t]
             \/ ItemRow(o, cart[o], p) \in held[t] /\ item[o][p] > 0
  BY CommitCartFacts
<1>5. \A p \in Product : item'[o][p] = IF x.put[p] > 0 THEN x.put[p] ELSE item[o][p]
  BY CommitCartTables
<1>6. /\ created => cart'[o] = x.mine /\ carts'[o] = x.mine
      /\ ~ created => cart'[o] = cart[o] /\ carts'[o] = carts[o]
      /\ \A c \in Owner \ {o} : carts'[c] = carts[c]
  BY CommitCartTables
<1>7. dropped => item'[g] = NoItems /\ cart'[g] = 0
  BY CommitCartTables
<1>8. \A c \in Owner \ {o} : ~ (dropped /\ c = g) => item'[c] = item[c] /\ cart'[c] = cart[c]
  BY CommitCartTables
<1>9. \A c \in Owner : cart[c] \in {0, carts[c]} /\ (item[c] # NoItems => cart[c] # 0)
  BY DEF CartInv, ItemsHaveCart
<1>10. \A u \in Txn \ {t} :
         /\ held[t] \cap held[u] = {}
         /\ created => CartRow(o) \notin held[u] \cup shared[u]
         /\ dropped => CartRow(g) \notin held[u] \cup shared[u]
         /\ CartRow(o) \in shared[t] => CartRow(o) \notin held[u]
         /\ CartSound(tx[u], held[u], shared[u])
  BY <1>2, OthersRows
<1> HIDE DEF created, dropped
<1>11. ItemsHaveCart'
  <2> SUFFICES ASSUME NEW c \in Owner
               PROVE  cart'[c] \in {0, carts'[c]} /\ (item'[c] # NoItems => cart'[c] # 0)
    BY DEF ItemsHaveCart
  <2>1. CASE c = o /\ created
    BY <1>2, <1>3, <1>6, <2>1
  <2>2. CASE c = o /\ ~ created
    <3>1. CASE \E p \in Product : x.put[p] > 0
      BY <1>4, <1>6, <1>9, <2>2, <3>1
    <3>2. CASE \A p \in Product : ~ (x.put[p] > 0)
      <4>1. \A p \in Product : item'[o][p] = item[o][p]
        BY <1>5, <3>2
      <4>2. item'[o] = item[o]
        BY <1>2, <4>1
      <4> QED
        BY <1>6, <1>9, <2>2, <4>2
    <3> QED
      BY <3>1, <3>2
  <2>3. CASE c # o /\ dropped /\ c = g
    BY <1>7, <2>3
  <2>4. CASE c # o /\ ~ (dropped /\ c = g)
    BY <1>6, <1>8, <1>9, <2>4
  <2> QED
    BY <2>1, <2>2, <2>3, <2>4
<1>12. ASSUME NEW u \in Txn \ {t}, tx'[u] = tx[u], held'[u] = held[u], shared'[u] = shared[u]
       PROVE  CartSound(tx[u], held[u], shared[u])'
  <2>1. ASSUME NEW c \in Owner, CartRow(c) \in held[u] \cup shared[u]
        PROVE  cart'[c] = cart[c] /\ carts'[c] = carts[c]
    <3>1. CASE c = o
      BY <1>6, <1>10, <2>1, <3>1
    <3>2. CASE c # o
      BY <1>6, <1>8, <1>10, <2>1, <3>2
    <3> QED
      BY <3>1, <3>2
  <2>2. ASSUME NEW c \in Owner, NEW n \in Nat, NEW p \in Product,
               ItemRow(c, n, p) \in held[u], cart[c] = n, item[c][p] > 0
        PROVE  cart'[c] = n /\ item'[c][p] > 0
    <3>1. CASE c = o
      <4>1. cart[o] # 0
        <5>1. item[o] # NoItems
          BY <2>2, <3>1 DEF NoItems
        <5> QED
          BY <1>2, <1>9, <5>1
      <4>2. ~ created
        BY <1>3, <4>1
      <4> QED
        BY <1>2, <1>5, <1>6, <2>2, <3>1, <4>2
    <3>2. CASE c # o
      <4>1. ~ (dropped /\ c = g)
        BY <1>3, <1>10, <2>2
      <4> QED
        BY <1>8, <2>2, <3>2, <4>1
    <3> QED
      BY <3>1, <3>2
  <2>3. ASSUME NEW c \in Owner, NEW p \in Product, CartRow(c) \in held[u],
               item[c][p] > 0 => ItemRow(c, cart[c], p) \in held[u]
        PROVE  item'[c][p] = item[c][p]
    <3>1. CASE c = o
      <4>1. ~ created /\ CartRow(o) \notin shared[t]
        BY <1>10, <2>3, <3>1
      <4>2. ~ (x.put[p] > 0)
        BY <1>4, <1>10, <2>3, <3>1, <4>1
      <4> QED
        BY <1>5, <3>1, <4>2
    <3>2. CASE c # o
      BY <1>8, <1>10, <2>3, <3>2
    <3> QED
      BY <3>1, <3>2
  <2>4. CartSound(tx[u], held[u], shared[u])
    BY <1>10
  <2> QED
    BY <1>2, <1>12, <2>1, <2>2, <2>3, <2>4, OtherCartSound
<1> QED
  BY <1>1, <1>11, <1>12, EndCarts

-------------------------------------------------------------------------------
(* The invariant.                                                          *)

LEMMA StatementCarts == ASSUME IInv, CartInv, NEW t \in Txn, Statement(t) PROVE CartInv'
BY AddLockProductCarts, ReadCartCarts, AddLockItemCarts, MakeCartCarts, PutItemCarts,
   PatchLockItemCarts, PatchLockProductCarts, DeleteItemCarts, ClaimLockGuestCarts,
   ClaimLockItemCarts, ClaimDropGuestCarts, CheckForeignKeyCarts, CommitCartCarts,
   FindOrderCarts, CheckoutLockCartCarts, CheckoutLockItemCarts, LockNextProductCarts,
   InsertOrderCarts, CommitOrderCarts, CancelLockOrderCarts, CommitCancelCarts,
   StatusLockOrderCarts, CommitStatusCarts, EditReadProductCarts, EditSaveProductCarts
   DEF Statement

LEMMA InitCarts == Init => CartInv
<1> SUFFICES ASSUME Init PROVE CartInv
  OBVIOUS
<1>1. ItemsHaveCart
  BY StorefrontAssumption DEF Init, ItemsHaveCart
<1>2. SharesSafe
  BY DEF Init, SharesSafe
<1>3. \A t \in Txn : CartSound(tx[t], held[t], shared[t])
  BY IdleCartSound DEF Init
<1> QED
  BY <1>1, <1>2, <1>3 DEF CartInv

LEMMA StutterCarts == ASSUME CartInv, UNCHANGED vars PROVE CartInv'
BY DEF CartInv, ItemsHaveCart, SharesSafe, CartSound, CartLocked, HasId, Fresh, Updates, Written,
       Checked, Patches, Orders, Merges, vars, tables

LEMMA StepCarts == ASSUME IInv, CartInv, [Next]_vars PROVE CartInv'
<1>1. CASE UNCHANGED vars
  BY <1>1, StutterCarts
<1>2. ASSUME NEW t \in Txn, Begin(t) PROVE CartInv'
  BY <1>2, BeginCarts
<1>3. ASSUME NEW t \in Txn, Statement(t) PROVE CartInv'
  BY <1>3, StatementCarts
<1>4. ASSUME NEW t \in Txn, DeadlockVictim(t) \/ WorkerDies(t) PROVE CartInv'
  BY <1>4, AbortCarts DEF DeadlockVictim, WorkerDies
<1> QED
  BY <1>1, <1>2, <1>3, <1>4 DEF Next

\* What a transaction has read, checked and written of a cart under its locks stays so until
\* it ends, and no item is left without a cart, whatever the others do.
THEOREM CartInvariance == Spec => []CartInv
<1>1. IInv /\ CartInv /\ [Next]_vars => CartInv'
  BY StepCarts
<1> QED
  BY InitCarts, <1>1, Invariance, PTL DEF Spec

\* Whatever adds, claims, removals and checkouts of an owner's tabs interleave,
\* every item belongs to the cart its owner has then.
THEOREM NoOrphanItems == Spec => []ItemsHaveCart
<1>1. CartInv => ItemsHaveCart
  BY DEF CartInv
<1> QED
  BY <1>1, CartInvariance, PTL
\* Cart items change in three ways only, each of them the end of a transaction.
LEMMA ThreeCartCommits ==
  ASSUME [Next]_vars
  PROVE  UNCHANGED item \/ \E t \in Txn : DeleteItem(t) \/ CommitCart(t) \/ CommitOrder(t)
<1>1. CASE UNCHANGED vars
  BY <1>1 DEF vars, tables
<1>2. ASSUME NEW t \in Txn, Begin(t) \/ DeadlockVictim(t) \/ WorkerDies(t)
      PROVE  UNCHANGED item
  BY <1>2 DEF Begin, DeadlockVictim, WorkerDies, Abort, tables
<1>3. ASSUME NEW t \in Txn,
             \/ AddLockProduct(t) \/ ReadCart(t) \/ AddLockItem(t) \/ MakeCart(t)
             \/ PutItem(t) \/ PatchLockItem(t) \/ PatchLockProduct(t) \/ ClaimLockGuest(t)
      PROVE  UNCHANGED item
  BY <1>3, Zenon DEF AddLockProduct, ReadCart, AddLockItem, MakeCart, PutItem, PatchLockItem,
                     PatchLockProduct, ClaimLockGuest, Proceed, Abort, tables
<1>4. ASSUME NEW t \in Txn,
             \/ ClaimLockItem(t) \/ ClaimDropGuest(t) \/ CheckForeignKey(t) \/ FindOrder(t)
             \/ CheckoutLockCart(t) \/ CheckoutLockItem(t) \/ LockNextProduct(t)
      PROVE  UNCHANGED item
  BY <1>4, Zenon DEF ClaimLockItem, ClaimDropGuest, CheckForeignKey, FindOrder,
                     CheckoutLockCart, CheckoutLockItem, LockNextProduct, Proceed, Abort, tables
<1>5. ASSUME NEW t \in Txn,
             \/ InsertOrder(t) \/ CancelLockOrder(t) \/ CommitCancel(t) \/ StatusLockOrder(t)
             \/ CommitStatus(t) \/ EditReadProduct(t) \/ EditSaveProduct(t)
      PROVE  UNCHANGED item
  BY <1>5, Zenon DEF InsertOrder, CancelLockOrder, CommitCancel, StatusLockOrder, CommitStatus,
                     EditReadProduct, EditSaveProduct, Proceed, Abort, tables
<1> QED
  BY <1>1, <1>2, <1>3, <1>4, <1>5 DEF Next, Statement

\* The order placed by a step is the cart as it was, and the cart is gone.
LEMMA OrderIsCart ==
  ASSUME IInv, CartInv, [Next]_vars, Len(orders') > Len(orders)
  PROVE  LET placed == orders'[Len(orders')]
         IN /\ placed.lines = item[placed.owner]
            /\ cart[placed.owner] # 0 /\ cart'[placed.owner] = 0
<1>1. orders \in Seq(Order) /\ Len(orders) \in Nat
  BY DEF IInv, TypeOK
<1>2. ASSUME NEW t \in Txn, CommitCancel(t) PROVE Len(orders') = Len(orders)
  <2>1. orders' = [orders EXCEPT ![tx[t].op.order] =
                     [orders[tx[t].op.order] EXCEPT !.status = "cancelled"]]
    BY <1>2 DEF CommitCancel
  <2> QED
    BY <1>1, <2>1
<1>3. ASSUME NEW t \in Txn, CommitStatus(t) PROVE Len(orders') = Len(orders)
  <2>1. orders' = [orders EXCEPT ![tx[t].op.order] =
                     [orders[tx[t].op.order] EXCEPT !.fulfil = tx[t].row.fulfil]]
    BY <1>3, CommitStatusFacts
  <2> QED
    BY <1>1, <2>1
<1>4. ASSUME NEW t \in Txn, EditSaveProduct(t) PROVE Len(orders') = Len(orders)
  BY <1>4 DEF EditSaveProduct
<1>5. PICK t \in Txn : CommitOrder(t)
  BY <1>1, <1>2, <1>3, <1>4, FourCommits
<1> DEFINE x == tx[t]
           o == x.op.who
           r == NewOrder(x.op.key, o, x.seen)
<1>6. /\ orders' = Append(orders, r) /\ cart' = [cart EXCEPT ![o] = 0]
  BY <1>5 DEF CommitOrder
<1>7. r \in Order /\ r.lines = x.seen /\ r.owner = o
  BY TxTypes, NewOrderType DEF NewOrder
<1> HIDE DEF r
<1>8. orders'[Len(orders')] = r
  BY <1>1, <1>6, <1>7
<1>9. o \in Owner /\ cart[o] # 0 /\ x.seen = item[o] /\ cart \in [Owner -> Nat]
  BY <1>5, CommitOrderCart DEF IInv, TypeOK
<1> QED
  BY <1>6, <1>7, <1>8, <1>9

\* What an order takes is what its cart held at the commit that ends the cart,
\* whatever the owner's other tabs did while the checkout ran.
THEOREM OrderedWhole == Spec => WholeCartOrdered
<1> DEFINE Whole == Len(orders') > Len(orders) =>
                      LET placed == orders'[Len(orders')]
                      IN /\ placed.lines = item[placed.owner]
                         /\ cart[placed.owner] # 0 /\ cart'[placed.owner] = 0
<1>1. IInv /\ CartInv /\ [Next]_vars => [Whole]_vars
  BY OrderIsCart
<1>2. Spec => [][Whole]_vars
  BY <1>1, Invariance, CartInvariance, PTL DEF Spec
<1> QED
  BY <1>2 DEF WholeCartOrdered

\* A claim that commits what it read from a guest cart ends that cart.
LEMMA GuestCartEnds ==
  ASSUME IInv, CartInv, [Next]_vars, NEW t \in Txn,
         tx[t].op.kind = "claim", tx[t].pc = "commit", tx[t].seen # NoItems, item' # item,
         tx'[t].pc = "idle"
  PROVE  cart[tx[t].op.guest] # 0 /\ cart'[tx[t].op.guest] = 0
<1>1. PICK u \in Txn : DeleteItem(u) \/ CommitCart(u) \/ CommitOrder(u)
  BY ThreeCartCommits
<1>2. u = t
  <2>1. tx' = [tx EXCEPT ![u] = Idle]
    BY <1>1 DEF DeleteItem, CommitCart, CommitOrder, End
  <2> QED
    BY <2>1 DEF IInv, TypeOK
<1>3. CommitCart(t)
  BY <1>1, <1>2 DEF DeleteItem, CommitOrder, At
<1>4. CartRow(tx[t].op.guest) \in held[t]
  BY Own DEF CartSound, Merges
<1>5. cart[tx[t].op.guest] # 0
  BY <1>3, <1>4, CommitCartFacts
<1>6. cart'[tx[t].op.guest] = 0
  BY <1>3, <1>4, CommitCartTables
<1> QED
  BY <1>5, <1>6

\* The units of a guest cart are merged into a customer's cart once: the commit
\* that merges them ends the guest cart, for any tabs claiming and ordering.
THEOREM MergedOnce == Spec => GuestCartMergedOnce
<1> DEFINE Once == \A t \in Txn :
                     (/\ tx[t].op.kind = "claim" /\ tx[t].pc = "commit"
                      /\ tx[t].seen # NoItems /\ item' # item
                      /\ tx'[t].pc = "idle")
                     => cart[tx[t].op.guest] # 0 /\ cart'[tx[t].op.guest] = 0
<1>1. IInv /\ CartInv /\ [Next]_vars => [Once]_vars
  BY GuestCartEnds
<1>2. Spec => [][Once]_vars
  BY <1>1, Invariance, CartInvariance, PTL DEF Spec
<1> QED
  BY <1>2 DEF GuestCartMergedOnce
===============================================================================
