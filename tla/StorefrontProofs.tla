--------------------------- MODULE StorefrontProofs ---------------------------
(***************************************************************************)
(* Proofs about Storefront for any products, owners, keys, requests and    *)
(* operations.  The inductive invariant is TypeOK /\ LockDiscipline: an    *)
(* action only changes rows its transaction has locked, so what another    *)
(* transaction read under its locks stays true.  From it follow that the   *)
(* requests are atomic steps of OrderLedger (a commit finds the rows it    *)
(* decided on as it read them, every other statement is a stutter), that   *)
(* no unit is sold or restocked twice, and that order requests never wait  *)
(* in a circle.                                                            *)
(***************************************************************************)
EXTENDS Storefront, FiniteSetTheorems, TLAPS

IInv == TypeOK /\ LockDiscipline

-------------------------------------------------------------------------------
(* Rows.                                                                   *)

LEMMA RowTypes ==
  /\ \A p \in Product : ProductRow(p) \in Row
  /\ \A o \in Owner : CartRow(o) \in Row
  /\ \A o \in Owner, n \in Nat, p \in Product : ItemRow(o, n, p) \in Row
  /\ \A i \in Nat : OrderRow(i) \in Row
  /\ \A k \in Key : KeyRow(k) \in Row
BY DEF Row, ProductRow, CartRow, ItemRow, OrderRow, KeyRow

\* Rows of different tables are different, and so are rows with different keys.
LEMMA RowsDiffer ==
  /\ \A p, q : ProductRow(p) = ProductRow(q) => p = q
  /\ \A i, j : OrderRow(i) = OrderRow(j) => i = j
  /\ \A k, l : KeyRow(k) = KeyRow(l) => k = l
  /\ \A p, o : ProductRow(p) # CartRow(o)
  /\ \A p, o, n, q : ProductRow(p) # ItemRow(o, n, q)
  /\ \A p, i : ProductRow(p) # OrderRow(i)
  /\ \A p, k : ProductRow(p) # KeyRow(k)
BY DEF ProductRow, CartRow, ItemRow, OrderRow, KeyRow

LEMMA IdleType == Idle \in TxType
<1>1. (CHOOSE o \in Ops : TRUE) \in Op
  BY StorefrontAssumption
<1>2. <<>> \in Seq(Row)
  OBVIOUS
<1> QED
  BY <1>1, <1>2 DEF Idle, TxType, Statements, NoItems, Status, Fulfilment

LEMMA IdleSound ==
  ASSUME TypeOK
  PROVE  TxSound(Idle, {})
BY DEF TxSound, StockCurrent, CheckoutSound, CancelSound, StatusSound, Idle

-------------------------------------------------------------------------------
(* The locks a statement takes.                                            *)

LEMMA NextLockType ==
  ASSUME TypeOK, NEW t \in Txn, TxSound(tx[t], held[t])
  PROVE  NextLock(t) \subseteq Row
<1> DEFINE x == tx[t]
<1>1. x \in TxType /\ x.op \in Op
  BY DEF TypeOK, TxType
<1>2. /\ x.op.who \in Owner /\ x.op.guest \in Owner /\ x.op.product \in Product
      /\ x.op.key \in Key /\ x.op.order \in Nat
  BY <1>1 DEF Op
<1>3. x.mine \in Nat /\ x.todo \subseteq Product /\ (x.pc # "idle" => x.at \in Product)
  BY <1>1 DEF TxType, TxSound
<1>4. \A o \in Owner : cart[o] \in Nat
  BY DEF TypeOK
<1>5. ProductLock(t) \subseteq Row
  BY <1>3, RowTypes DEF ProductLock, First
<1>6. x.pc # "idle" => ItemLock(t) \subseteq Row
  BY <1>2, <1>3, RowTypes DEF ItemLock
<1>7. CartLock(t) \subseteq Row /\ GuestLock(t) \subseteq Row /\ CartKeyLock(t) \subseteq Row
  BY <1>2, RowTypes DEF CartLock, GuestLock, CartKeyLock
<1>8. OrderLock(t) \subseteq Row /\ OrderKeyLock(t) \subseteq Row
  BY <1>2, RowTypes DEF OrderLock, OrderKeyLock
<1>9. GuestDeleteLocks(t) \subseteq Row
  BY <1>2, <1>4, <1>7, RowTypes DEF GuestDeleteLocks
<1>10. x.pc = "putItem" => {ItemRow(x.op.who, x.mine, x.at)} \subseteq Row
  BY <1>2, <1>3, RowTypes
<1>11. {ProductRow(x.op.product)} \subseteq Row
  BY <1>2, RowTypes
<1> QED
  BY <1>5, <1>6, <1>7, <1>8, <1>9, <1>10, <1>11 DEF NextLock, ProductOrItemLock

\* Which statement locks what.
LEMMA NextLockAt ==
  ASSUME NEW t \in Txn
  PROVE  /\ tx[t].pc \in {"lockProduct", "saveProduct"} => NextLock(t) = {ProductRow(tx[t].op.product)}
         /\ tx[t].pc = "lockProducts" => NextLock(t) = ProductLock(t)
         /\ tx[t].pc \in {"lockItem", "deleteItem", "lockItems", "claimItem"} => NextLock(t) = ItemLock(t)
         /\ tx[t].pc = "putItem" => NextLock(t) = {ItemRow(tx[t].op.who, tx[t].mine, tx[t].at)}
         /\ tx[t].pc = "makeCart" => NextLock(t) = CartKeyLock(t)
         /\ tx[t].pc = "lockCart" => NextLock(t) = CartLock(t)
         /\ tx[t].pc = "lockGuest" => NextLock(t) = GuestLock(t)
         /\ tx[t].pc = "dropGuest" => NextLock(t) = GuestDeleteLocks(t)
         /\ tx[t].pc = "lockOrder" => NextLock(t) = OrderLock(t)
         /\ tx[t].pc = "insertOrder" => NextLock(t) = OrderKeyLock(t)
         /\ tx[t].pc \in {"idle", "readCart", "findOrder", "readProduct", "commit"} => NextLock(t) = {}
BY DEF NextLock, ProductOrItemLock

-------------------------------------------------------------------------------
(* The two ways a statement ends.                                          *)

\* Going on: nothing but t's record and its locks change, and the locks it
\* takes were free, so only t's own record has to be shown sound.
LEMMA ProceedSafe ==
  ASSUME IInv, NEW t \in Txn, NEW x \in TxType,
         Proceed(t, x), Blockers(t) = {},
         TxSound(x, held[t] \cup NextLock(t))
  PROVE  IInv'
<1>1. NextLock(t) \subseteq Row
  BY NextLockType DEF IInv, LockDiscipline
<1>2. /\ tx' = [tx EXCEPT ![t] = x]
      /\ held' = [held EXCEPT ![t] = held[t] \cup NextLock(t)]
      /\ UNCHANGED <<stock, active, cart, carts, item, orders, shared, issued>>
  BY DEF Proceed, tables
<1>3. TypeOK'
  BY <1>1, <1>2 DEF IInv, TypeOK
<1>4. ASSUME NEW u \in Txn, u # t PROVE NextLock(t) \cap held[u] = {}
  BY <1>4 DEF Blockers
<1>5. \A u, v \in Txn : u # v => held'[u] \cap held'[v] = {}
  BY <1>2, <1>4 DEF IInv, TypeOK, LockDiscipline
<1>6. ASSUME NEW u \in Txn PROVE TxSound(tx[u], held[u])'
  <2>1. CASE u = t
    <3>1. tx'[u] = x /\ held'[u] = held[t] \cup NextLock(t)
      BY <1>2, <2>1 DEF IInv, TypeOK
    <3> QED
      BY <1>2, <3>1 DEF TxSound, StockCurrent, CheckoutSound, CancelSound, StatusSound
  <2>2. CASE u # t
    <3>1. tx'[u] = tx[u] /\ held'[u] = held[u]
      BY <1>2, <2>2 DEF IInv, TypeOK
    <3> QED
      BY <1>2, <3>1 DEF IInv, LockDiscipline, TxSound, StockCurrent, CheckoutSound,
                        CancelSound, StatusSound
  <2> QED
    BY <2>1, <2>2
<1> QED
  BY <1>3, <1>5, <1>6 DEF IInv, LockDiscipline

\* COMMIT or ROLLBACK: t is idle and holds nothing; what remains to be shown is
\* that the tables keep their types and the others' records stay sound.
LEMMA EndSafe ==
  ASSUME IInv, NEW t \in Txn, End(t), issued' \in Nat,
         /\ stock' \in [Product -> Nat] /\ active' \in [Product -> BOOLEAN]
         /\ cart' \in [Owner -> Nat] /\ carts' \in [Owner -> Nat]
         /\ item' \in [Owner -> [Product -> Nat]] /\ orders' \in Seq(Order),
         \A u \in Txn \ {t} : TxSound(tx[u], held[u])
                              => StockCurrent(tx[u], held[u])'
                                 /\ CheckoutSound(tx[u], held[u])'
                                 /\ CancelSound(tx[u], held[u])'
                                 /\ StatusSound(tx[u], held[u])'
  PROVE  IInv'
<1>1. /\ tx' = [tx EXCEPT ![t] = Idle]
      /\ held' = [held EXCEPT ![t] = {}]
      /\ shared' = [shared EXCEPT ![t] = {}]
  BY DEF End
<1>2. TypeOK'
  BY <1>1, IdleType DEF IInv, TypeOK
<1>3. \A u, v \in Txn : u # v => held'[u] \cap held'[v] = {}
  BY <1>1 DEF IInv, TypeOK, LockDiscipline
<1>4. ASSUME NEW u \in Txn PROVE TxSound(tx[u], held[u])'
  <2>1. CASE u = t
    <3>1. tx'[u] = Idle /\ held'[u] = {}
      BY <1>1, <2>1 DEF IInv, TypeOK
    <3> QED
      BY <3>1 DEF TxSound, StockCurrent, CheckoutSound, CancelSound, StatusSound, Idle
  <2>2. CASE u # t
    <3>1. tx'[u] = tx[u] /\ held'[u] = held[u]
      BY <1>1, <2>2 DEF IInv, TypeOK
    <3>2. TxSound(tx[u], held[u])
      BY DEF IInv, LockDiscipline
    <3> QED
      BY <2>2, <3>1, <3>2 DEF TxSound
  <2> QED
    BY <2>1, <2>2
<1> QED
  BY <1>2, <1>3, <1>4 DEF IInv, LockDiscipline

\* A rollback changes no table.
LEMMA AbortSafe ==
  ASSUME IInv, NEW t \in Txn, Abort(t)
  PROVE  IInv'
<1>1. End(t) /\ UNCHANGED <<stock, active, cart, carts, item, orders, issued>>
  BY DEF Abort, tables
<1>2. ASSUME NEW u \in Txn \ {t}, TxSound(tx[u], held[u])
      PROVE  /\ StockCurrent(tx[u], held[u])' /\ CheckoutSound(tx[u], held[u])'
             /\ CancelSound(tx[u], held[u])' /\ StatusSound(tx[u], held[u])'
  <2>1. tx'[u] = tx[u] /\ held'[u] = held[u]
    BY <1>1 DEF IInv, TypeOK, End
  <2> QED
    BY <1>1, <1>2, <2>1 DEF TxSound, StockCurrent, CheckoutSound, CancelSound, StatusSound
<1>3. /\ stock' \in [Product -> Nat] /\ active' \in [Product -> BOOLEAN]
      /\ cart' \in [Owner -> Nat] /\ carts' \in [Owner -> Nat]
      /\ item' \in [Owner -> [Product -> Nat]] /\ orders' \in Seq(Order)
      /\ issued' \in Nat
  BY <1>1 DEF IInv, TypeOK
<1> QED
  BY <1>1, <1>2, <1>3, EndSafe

\* A statement that locks no product and leaves the copies of stock alone, in an
\* operation or at a statement nothing is claimed about.
LEMMA QuietSound ==
  ASSUME IInv, NEW t \in Txn, NEW x \in TxType,
         x.stk = tx[t].stk, x.at \in Product,
         \A p \in Product : ProductRow(p) \notin NextLock(t),
         \/ x.op.kind \in {"add", "patch", "claim"}
         \/ x.pc \notin {"lockProducts", "insertOrder", "commit"}
  PROVE  TxSound(x, held[t] \cup NextLock(t))
<1>1. StockCurrent(tx[t], held[t])
  BY DEF IInv, LockDiscipline, TxSound
<1>2. StockCurrent(x, held[t] \cup NextLock(t))
  BY <1>1 DEF StockCurrent
<1> QED
  BY <1>2 DEF TxSound, CheckoutSound, CancelSound, StatusSound

LEMMA QuietProceed ==
  ASSUME IInv, NEW t \in Txn, NEW x \in TxType, Blockers(t) = {}, Proceed(t, x),
         x.stk = tx[t].stk, x.at \in Product,
         tx[t].pc \notin {"lockProduct", "saveProduct", "lockProducts"},
         \/ x.op.kind \in {"add", "patch", "claim"}
         \/ x.pc \notin {"lockProducts", "insertOrder", "commit"}
  PROVE  IInv'
<1>1. ASSUME NEW p \in Product PROVE ProductRow(p) \notin NextLock(t)
  <2>1. ProductRow(p) \notin ItemLock(t)
    BY RowsDiffer DEF ItemLock
  <2>2. ProductRow(p) \notin {ItemRow(tx[t].op.who, tx[t].mine, tx[t].at)}
    BY RowsDiffer
  <2>3. /\ ProductRow(p) \notin CartKeyLock(t) /\ ProductRow(p) \notin CartLock(t)
        /\ ProductRow(p) \notin GuestLock(t)
    BY RowsDiffer DEF CartKeyLock, CartLock, GuestLock
  <2>4. ProductRow(p) \notin GuestDeleteLocks(t)
    BY <2>3, RowsDiffer DEF GuestDeleteLocks
  <2>5. ProductRow(p) \notin OrderLock(t) /\ ProductRow(p) \notin OrderKeyLock(t)
    BY RowsDiffer DEF OrderLock, OrderKeyLock
  <2>6. tx[t].pc \in Statements
    BY DEF IInv, TypeOK, TxType
  <2> QED
    BY <2>1, <2>2, <2>3, <2>4, <2>5, <2>6, NextLockAt DEF Statements
<1> QED
  BY <1>1, QuietSound, ProceedSafe

\* The record of a transaction at a statement, and the parts of its operation.
LEMMA TxTypes ==
  ASSUME IInv, NEW t \in Txn
  PROVE  /\ tx[t] \in TxType /\ tx[t].op \in Op
         /\ tx[t].op.who \in Owner /\ tx[t].op.guest \in Owner
         /\ tx[t].op.product \in Product /\ tx[t].op.key \in Key
         /\ tx[t].op.qty \in Nat /\ tx[t].op.order \in Nat
         /\ tx[t].op.kind \in Kind /\ tx[t].op.to \in Fulfilment
         /\ (tx[t].pc # "idle" => tx[t].at \in Product)
         /\ tx[t].todo \subseteq Product /\ tx[t].mine \in Nat
         /\ tx[t].seen \in [Product -> Nat] /\ tx[t].stk \in [Product -> Nat]
         /\ tx[t].put \in [Product -> Nat] /\ tx[t].fk \in Seq(Row)
         /\ (\A o \in Owner, n \in Nat, p \in Product : Quantity(o, n, p) \in Nat)
<1>1. tx[t] \in TxType
  BY DEF IInv, TypeOK
<1>2. tx[t].op \in Op
  BY <1>1 DEF TxType
<1>3. tx[t].pc # "idle" => tx[t].at \in Product
  BY DEF IInv, LockDiscipline, TxSound
<1>4. \A o \in Owner, n \in Nat, p \in Product : Quantity(o, n, p) \in Nat
  BY DEF IInv, TypeOK, Quantity
<1>5. /\ tx[t].op.who \in Owner /\ tx[t].op.guest \in Owner
      /\ tx[t].op.product \in Product /\ tx[t].op.key \in Key
      /\ tx[t].op.order \in Nat /\ tx[t].op.kind \in Kind /\ tx[t].op.to \in Fulfilment
  BY <1>2 DEF Op
<1>6. tx[t].op.qty \in Nat
  BY <1>2, StorefrontAssumption DEF Op
<1>7. /\ tx[t].todo \subseteq Product /\ tx[t].mine \in Nat
      /\ tx[t].seen \in [Product -> Nat] /\ tx[t].stk \in [Product -> Nat]
      /\ tx[t].put \in [Product -> Nat] /\ tx[t].fk \in Seq(Row)
  BY <1>1 DEF TxType
<1> QED
  BY <1>1, <1>2, <1>3, <1>4, <1>5, <1>6, <1>7

-------------------------------------------------------------------------------
(* Cart requests.                                                          *)

LEMMA ReadCartSafe == ASSUME IInv, NEW t \in Txn, ReadCart(t) PROVE IInv'
<1> DEFINE x == tx[t]
<1>1. CASE Abort(t)
  BY <1>1, AbortSafe
<1>2. CASE ~ Abort(t)
  <2>1. PICK next \in {"lockItem", "deleteItem", "lockCart"} :
          Proceed(t, [x EXCEPT !.mine = cart[x.op.who], !.pc = next])
    BY <1>2 DEF ReadCart, At
  <2> DEFINE y == [x EXCEPT !.mine = cart[x.op.who], !.pc = next]
  <2>2. x \in TxType /\ x.pc = "readCart" /\ Blockers(t) = {} /\ cart[x.op.who] \in Nat
    BY TxTypes DEF ReadCart, At, IInv, TypeOK
  <2>3. /\ y \in TxType /\ y.stk = x.stk /\ y.at = x.at
        /\ y.pc \notin {"lockProducts", "insertOrder", "commit"}
    BY <2>2 DEF TxType, Statements
  <2>4. y.at \in Product
    BY <2>2, <2>3, TxTypes
  <2> QED
    BY <2>1, <2>2, <2>3, <2>4, QuietProceed
<1> QED
  BY <1>1, <1>2

LEMMA AddLockItemSafe == ASSUME IInv, NEW t \in Txn, AddLockItem(t) PROVE IInv'
<1> DEFINE x == tx[t]
           p == x.op.product
           total == x.op.qty + Quantity(x.op.who, x.mine, p)
           y == [x EXCEPT !.put[p] = total,
                          !.pc = IF x.mine = 0 THEN "makeCart" ELSE "putItem"]
<1>1. CASE Abort(t)
  BY <1>1, AbortSafe
<1>2. CASE Proceed(t, y)
  <2>1. x.op.kind = "add" /\ x.pc = "lockItem" /\ Blockers(t) = {}
    BY DEF AddLockItem, At
  <2>2. total \in Nat
    BY TxTypes
  <2>3. y \in TxType /\ y.stk = x.stk /\ y.at = x.at /\ y.op = x.op
    BY <2>2, TxTypes DEF TxType, Statements
  <2>4. y.at \in Product
    BY <2>1, <2>3, TxTypes
  <2> QED
    BY <1>2, <2>1, <2>3, <2>4, QuietProceed
<1> QED
  BY <1>1, <1>2 DEF AddLockItem

LEMMA MakeCartSafe == ASSUME IInv, NEW t \in Txn, MakeCart(t) PROVE IInv'
<1> DEFINE x == tx[t]
           o == x.op.who
           n == IF cart[o] # 0 THEN cart[o] ELSE carts[o] + 1
           next == IF x.op.kind = "add" THEN "putItem" ELSE "lockGuest"
           y == [x EXCEPT !.mine = n, !.pc = next]
<1>1. Proceed(t, y) /\ x.op.kind \in {"add", "claim"} /\ x.pc = "makeCart" /\ Blockers(t) = {}
  BY DEF MakeCart, At
<1>2. n \in Nat /\ next \in Statements
  BY TxTypes DEF IInv, TypeOK, Statements
<1> HIDE DEF n, next
<1>3. y \in TxType /\ y.stk = x.stk /\ y.at = x.at /\ y.op = x.op
  BY <1>2, TxTypes DEF TxType, Statements
<1>4. y.at \in Product
  BY <1>1, <1>3, TxTypes
<1> QED
  BY <1>1, <1>3, <1>4, QuietProceed

LEMMA PutItemSafe == ASSUME IInv, NEW t \in Txn, PutItem(t) PROVE IInv'
<1> DEFINE x == tx[t]
           o == x.op.who
           left == x.todo \ {x.at}
           checks == IF Quantity(o, x.mine, x.at) > 0
                     THEN <<>> ELSE <<CartRow(o), ProductRow(x.at)>>
           fks == x.fk \o checks
<1>1. x.op.kind \in {"add", "claim"} /\ x.pc = "putItem" /\ Blockers(t) = {} /\ x.at \in Product
  BY TxTypes DEF PutItem, At
<1>2. checks \in Seq(Row)
  <2>1. CartRow(o) \in Row /\ ProductRow(x.at) \in Row
    BY <1>1, TxTypes, RowTypes
  <2> QED
    BY <2>1
<1>3. fks \in Seq(Row) /\ left \subseteq Product
  BY <1>2, TxTypes
<1> HIDE DEF checks
<1>4. \E p \in Product, next \in {"claimItem", "commit", "dropGuest"} :
        Proceed(t, [x EXCEPT !.fk = fks, !.todo = left, !.pc = next, !.at = p])
  <2> DEFINE done == [x EXCEPT !.fk = fks, !.todo = left]
  <2>1. CASE \E p \in left : Proceed(t, [done EXCEPT !.pc = "claimItem", !.at = p])
    BY <1>3, <2>1
  <2>2. CASE \E next \in {"commit", "dropGuest"} : Proceed(t, [done EXCEPT !.pc = next])
    <3>1. PICK next \in {"commit", "dropGuest"} : Proceed(t, [done EXCEPT !.pc = next])
      BY <2>2
    <3>2. [done EXCEPT !.pc = next]
            = [x EXCEPT !.fk = fks, !.todo = left, !.pc = next, !.at = x.at]
      BY TxTypes DEF TxType
    <3> QED
      BY <1>1, <3>1, <3>2
  <2> QED
    BY <2>1, <2>2 DEF PutItem, checks
<1>5. PICK p \in Product, next \in {"claimItem", "commit", "dropGuest"} :
        Proceed(t, [x EXCEPT !.fk = fks, !.todo = left, !.pc = next, !.at = p])
  BY <1>4
<1> DEFINE y == [x EXCEPT !.fk = fks, !.todo = left, !.pc = next, !.at = p]
<1> HIDE DEF fks, left
<1>6. y \in TxType /\ y.stk = x.stk /\ y.at \in Product /\ y.op = x.op
  BY <1>3, TxTypes DEF TxType, Statements
<1> QED
  BY <1>1, <1>5, <1>6, QuietProceed

LEMMA PatchLockItemSafe == ASSUME IInv, NEW t \in Txn, PatchLockItem(t) PROVE IInv'
<1> DEFINE x == tx[t]
           y == [x EXCEPT !.pc = "lockProduct"]
<1>1. CASE Abort(t)
  BY <1>1, AbortSafe
<1>2. CASE Proceed(t, y)
  <2>1. x.op.kind = "patch" /\ x.pc = "lockItem" /\ Blockers(t) = {}
    BY DEF PatchLockItem, At
  <2>2. y \in TxType /\ y.stk = x.stk /\ y.at \in Product /\ y.op = x.op
    BY <2>1, TxTypes DEF TxType, Statements
  <2> QED
    BY <1>2, <2>1, <2>2, QuietProceed
<1> QED
  BY <1>1, <1>2 DEF PatchLockItem

LEMMA ClaimLockItemSafe == ASSUME IInv, NEW t \in Txn, ClaimLockItem(t) PROVE IInv'
<1> DEFINE x == tx[t]
           p == x.at
           sum == x.seen[p] + Quantity(x.op.who, x.mine, p)
           merged == Least(sum, Least(x.stk[p], MaxQuantity))
           y == [x EXCEPT !.put[p] = merged, !.pc = "putItem"]
<1>1. Proceed(t, y) /\ x.op.kind = "claim" /\ x.pc = "claimItem" /\ Blockers(t) = {}
  BY DEF ClaimLockItem, At
<1>2. merged \in Nat
  <2>1. \A m, n \in Nat : Least(m, n) \in Nat
    BY DEF Least
  <2>2. p \in Product /\ x.stk[p] \in Nat /\ x.seen[p] \in Nat
    BY <1>1, TxTypes
  <2>3. Quantity(x.op.who, x.mine, p) \in Nat
    BY <2>2, TxTypes
  <2>4. sum \in Nat
    BY <2>2, <2>3
  <2>5. Least(x.stk[p], MaxQuantity) \in Nat
    BY <2>1, <2>2, StorefrontAssumption
  <2> HIDE DEF sum
  <2> QED
    BY <2>1, <2>4, <2>5
<1> HIDE DEF merged
<1>3. y \in TxType /\ y.stk = x.stk /\ y.at \in Product /\ y.op = x.op
  BY <1>1, <1>2, TxTypes DEF TxType, Statements
<1> QED
  BY <1>1, <1>3, QuietProceed

LEMMA ClaimDropGuestSafe == ASSUME IInv, NEW t \in Txn, ClaimDropGuest(t) PROVE IInv'
<1> DEFINE x == tx[t]
           y == [x EXCEPT !.pc = "commit"]
<1>1. Proceed(t, y) /\ x.op.kind = "claim" /\ x.pc = "dropGuest" /\ Blockers(t) = {}
  BY DEF ClaimDropGuest, At
<1>2. y \in TxType /\ y.stk = x.stk /\ y.at \in Product /\ y.op = x.op
  BY <1>1, TxTypes DEF TxType, Statements
<1> QED
  BY <1>1, <1>2, QuietProceed

\* The claim copies the stock of all products at once; it holds none of them.
LEMMA ClaimLockGuestSafe == ASSUME IInv, NEW t \in Txn, ClaimLockGuest(t) PROVE IInv'
<1> DEFINE x == tx[t]
           g == x.op.guest
           usable == {p \in Product : item[g][p] > 0 /\ active[p] /\ stock[p] > 0}
           read == [x EXCEPT !.seen = item[g], !.stk = stock, !.todo = usable]
<1>1. x.op.kind = "claim" /\ x.pc = "lockGuest" /\ Blockers(t) = {} /\ x.at \in Product
  BY TxTypes DEF ClaimLockGuest, At
<1>2. x \in TxType /\ item[g] \in [Product -> Nat] /\ stock \in [Product -> Nat]
      /\ usable \subseteq Product
  BY TxTypes DEF IInv, TypeOK
<1> HIDE DEF usable
<1>3. CASE Proceed(t, [x EXCEPT !.pc = "commit"])
  <2> DEFINE y == [x EXCEPT !.pc = "commit"]
  <2>1. y \in TxType /\ y.stk = x.stk /\ y.at \in Product /\ y.op = x.op
    BY <1>1, <1>2 DEF TxType, Statements
  <2> QED
    BY <1>1, <1>3, <2>1, QuietProceed
<1>4. ASSUME NEW p \in Product, NEW next \in {"claimItem", "dropGuest"},
             Proceed(t, [read EXCEPT !.pc = next, !.at = p])
      PROVE  IInv'
  <2> DEFINE y == [read EXCEPT !.pc = next, !.at = p]
  <2>1. y \in TxType /\ y.stk = stock /\ y.at = p /\ y.op = x.op
    BY <1>1, <1>2 DEF TxType, Statements
  <2>2. TxSound(y, held[t] \cup NextLock(t))
    BY <1>1, <2>1 DEF TxSound, StockCurrent, CheckoutSound, CancelSound, StatusSound
  <2> QED
    BY <1>1, <1>4, <2>1, <2>2, ProceedSafe
<1>5. [read EXCEPT !.pc = "dropGuest"] = [read EXCEPT !.pc = "dropGuest", !.at = x.at]
  BY <1>2 DEF TxType
<1> QED
  BY <1>1, <1>3, <1>4, <1>5, <1>2 DEF ClaimLockGuest, usable

LEMMA AddLockProductSafe == ASSUME IInv, NEW t \in Txn, AddLockProduct(t) PROVE IInv'
<1> DEFINE x == tx[t]
           p == x.op.product
           y == [x EXCEPT !.stk[p] = stock[p], !.pc = "readCart"]
<1>1. CASE Abort(t)
  BY <1>1, AbortSafe
<1>2. CASE Proceed(t, y)
  <2>1. x.op.kind = "add" /\ x.pc = "lockProduct" /\ Blockers(t) = {}
    BY DEF AddLockProduct, At
  <2>2. y \in TxType /\ y.at \in Product /\ y.op = x.op
        /\ y.stk = [x.stk EXCEPT ![p] = stock[p]]
    <3>1. stock[p] \in Nat
      BY TxTypes DEF IInv, TypeOK
    <3> QED
      BY <2>1, <3>1, TxTypes DEF TxType, Statements
  <2>3. NextLock(t) = {ProductRow(p)}
    BY <2>1, NextLockAt
  <2>4. StockCurrent(x, held[t])
    BY DEF IInv, LockDiscipline, TxSound
  <2>5. StockCurrent(y, held[t] \cup NextLock(t))
    BY <2>2, <2>3, <2>4, TxTypes, RowsDiffer DEF StockCurrent
  <2>6. TxSound(y, held[t] \cup NextLock(t))
    BY <2>1, <2>2, <2>5 DEF TxSound, CheckoutSound, CancelSound, StatusSound
  <2> QED
    BY <1>2, <2>1, <2>2, <2>6, ProceedSafe
<1> QED
  BY <1>1, <1>2 DEF AddLockProduct

LEMMA PatchLockProductSafe == ASSUME IInv, NEW t \in Txn, PatchLockProduct(t) PROVE IInv'
<1> DEFINE x == tx[t]
           p == x.op.product
           y == [x EXCEPT !.stk[p] = stock[p], !.put[p] = x.op.qty, !.pc = "commit"]
<1>1. CASE Abort(t)
  BY <1>1, AbortSafe
<1>2. CASE Proceed(t, y)
  <2>1. x.op.kind = "patch" /\ x.pc = "lockProduct" /\ Blockers(t) = {}
    BY DEF PatchLockProduct, At
  <2>2. y \in TxType /\ y.at \in Product /\ y.op = x.op
        /\ y.stk = [x.stk EXCEPT ![p] = stock[p]]
    <3>1. stock[p] \in Nat
      BY TxTypes DEF IInv, TypeOK
    <3> QED
      BY <2>1, <3>1, TxTypes DEF TxType, Statements
  <2>3. NextLock(t) = {ProductRow(p)}
    BY <2>1, NextLockAt
  <2>4. StockCurrent(x, held[t])
    BY DEF IInv, LockDiscipline, TxSound
  <2>5. StockCurrent(y, held[t] \cup NextLock(t))
    BY <2>2, <2>3, <2>4, TxTypes, RowsDiffer DEF StockCurrent
  <2>6. TxSound(y, held[t] \cup NextLock(t))
    BY <2>1, <2>2, <2>5 DEF TxSound, CheckoutSound, CancelSound, StatusSound
  <2> QED
    BY <1>2, <2>1, <2>2, <2>6, ProceedSafe
<1> QED
  BY <1>1, <1>2 DEF PatchLockProduct

\* A COMMIT of cart tables only: no product, no order, nobody else's record.
LEMMA CartEndSafe ==
  ASSUME IInv, NEW t \in Txn, End(t), UNCHANGED <<stock, active, orders, issued>>,
         cart' \in [Owner -> Nat], carts' \in [Owner -> Nat],
         item' \in [Owner -> [Product -> Nat]]
  PROVE  IInv'
<1>1. ASSUME NEW u \in Txn \ {t}, TxSound(tx[u], held[u])
      PROVE  /\ StockCurrent(tx[u], held[u])' /\ CheckoutSound(tx[u], held[u])'
             /\ CancelSound(tx[u], held[u])' /\ StatusSound(tx[u], held[u])'
  <2>1. tx'[u] = tx[u] /\ held'[u] = held[u]
    BY DEF IInv, TypeOK, End
  <2> QED
    BY <1>1, <2>1 DEF TxSound, StockCurrent, CheckoutSound, CancelSound, StatusSound
<1>2. /\ stock' \in [Product -> Nat] /\ active' \in [Product -> BOOLEAN]
      /\ orders' \in Seq(Order) /\ issued' \in Nat
  BY DEF IInv, TypeOK
<1> QED
  BY <1>1, <1>2, EndSafe

LEMMA DeleteItemSafe == ASSUME IInv, NEW t \in Txn, DeleteItem(t) PROVE IInv'
<1> DEFINE o == tx[t].op.who
           p == tx[t].op.product
<1>1. item' \in [Owner -> [Product -> Nat]]
  <2>1. item \in [Owner -> [Product -> Nat]]
    BY DEF IInv, TypeOK
  <2>2. o \in Owner /\ p \in Product
    BY TxTypes
  <2>3. \/ UNCHANGED item
        \/ item' = [item EXCEPT ![o] = [item[o] EXCEPT ![p] = 0]]
    BY DEF DeleteItem
  <2> QED
    BY <2>1, <2>2, <2>3
<1>2. End(t) /\ UNCHANGED <<stock, active, cart, carts, orders, issued>>
  BY DEF DeleteItem
<1>3. cart' \in [Owner -> Nat] /\ carts' \in [Owner -> Nat]
  BY <1>2 DEF IInv, TypeOK
<1> QED
  BY <1>1, <1>2, <1>3, CartEndSafe

LEMMA CommitCartSafe == ASSUME IInv, NEW t \in Txn, CommitCart(t) PROVE IInv'
<1> DEFINE x == tx[t]
           o == x.op.who
           g == x.op.guest
           created == CartRow(o) \in held[t]
           dropped == x.op.kind = "claim" /\ CartRow(g) \in held[t]
           kept == [p \in Product |-> IF x.put[p] > 0 THEN x.put[p] ELSE item[o][p]]
<1>1. /\ item' = [c \in Owner |-> CASE c = o -> kept
                                     [] dropped /\ c = g -> NoItems
                                     [] OTHER -> item[c]]
      /\ cart' = [c \in Owner |-> CASE c = o /\ created -> x.mine
                                     [] dropped /\ c = g -> 0
                                     [] OTHER -> cart[c]]
      /\ carts' = [carts EXCEPT ![o] = IF created THEN x.mine ELSE @]
      /\ End(t) /\ UNCHANGED <<stock, active, orders, issued>>
  BY DEF CommitCart
<1>2. x.put \in [Product -> Nat] /\ x.mine \in Nat /\ o \in Owner
  BY TxTypes
<1>3. /\ item \in [Owner -> [Product -> Nat]] /\ cart \in [Owner -> Nat]
      /\ carts \in [Owner -> Nat]
  BY DEF IInv, TypeOK
<1>4. kept \in [Product -> Nat] /\ NoItems \in [Product -> Nat]
  BY <1>2, <1>3 DEF NoItems
<1> HIDE DEF kept, created, dropped
<1>5. ASSUME NEW c \in Owner PROVE item'[c] \in [Product -> Nat] /\ cart'[c] \in Nat
  BY <1>1, <1>2, <1>3, <1>4, Zenon
<1>6. item' \in [Owner -> [Product -> Nat]] /\ cart' \in [Owner -> Nat]
  BY <1>1, <1>5, Zenon
<1>7. carts' \in [Owner -> Nat]
  BY <1>1, <1>2, <1>3
<1> QED
  BY <1>1, <1>6, <1>7, CartEndSafe

LEMMA CheckForeignKeySafe == ASSUME IInv, NEW t \in Txn, CheckForeignKey(t) PROVE IInv'
<1> DEFINE x == tx[t]
           r == Head(x.fk)
<1>1. CASE Abort(t)
  BY <1>1, AbortSafe
<1>2. CASE ~ Abort(t)
  <2>1. /\ x.op.kind \in {"add", "claim"} /\ x.fk # <<>>
        /\ tx' = [tx EXCEPT ![t].fk = Tail(@)]
        /\ shared' = [shared EXCEPT ![t] = @ \cup {r}]
        /\ UNCHANGED <<stock, active, cart, carts, item, orders, held, issued>>
    BY <1>2 DEF CheckForeignKey, At, tables
  <2>2. x \in TxType /\ r \in Row /\ Tail(x.fk) \in Seq(Row)
    BY <2>1, TxTypes
  <2> DEFINE y == [x EXCEPT !.fk = Tail(x.fk)]
  <2>3. tx' = [tx EXCEPT ![t] = y] /\ y \in TxType
    BY <2>1, <2>2 DEF TxType
  <2>4. /\ y.stk = x.stk /\ y.op = x.op /\ y.pc = x.pc /\ y.at = x.at
    BY <2>2 DEF TxType
  <2>5. TypeOK'
    BY <2>1, <2>2, <2>3 DEF IInv, TypeOK
  <2>6. ASSUME NEW u \in Txn PROVE TxSound(tx[u], held[u])'
    <3>1. TxSound(tx[u], held[u])
      BY DEF IInv, LockDiscipline
    <3>2. CASE u = t
      <4>1. tx'[u] = y /\ held'[u] = held[u]
        BY <2>1, <2>3, <3>2 DEF IInv, TypeOK
      <4> QED
        BY <2>1, <2>4, <3>1, <3>2, <4>1
           DEF TxSound, StockCurrent, CheckoutSound, CancelSound, StatusSound
    <3>3. CASE u # t
      <4>1. tx'[u] = tx[u] /\ held'[u] = held[u]
        BY <2>1, <2>3, <3>3 DEF IInv, TypeOK
      <4> QED
        BY <2>1, <3>1, <4>1 DEF TxSound, StockCurrent, CheckoutSound, CancelSound, StatusSound
    <3> QED
      BY <3>2, <3>3
  <2>7. \A u, v \in Txn : u # v => held'[u] \cap held'[v] = {}
    BY <2>1 DEF IInv, LockDiscipline
  <2> QED
    BY <2>5, <2>6, <2>7 DEF IInv, LockDiscipline
<1> QED
  BY <1>1, <1>2

-------------------------------------------------------------------------------
(* Checkout.                                                               *)

LEMMA FindOrderSafe == ASSUME IInv, NEW t \in Txn, FindOrder(t) PROVE IInv'
<1> DEFINE x == tx[t]
           y == [x EXCEPT !.pc = "readCart"]
<1>1. CASE Abort(t)
  BY <1>1, AbortSafe
<1>2. CASE Proceed(t, y)
  <2>1. x.op.kind = "checkout" /\ x.pc = "findOrder" /\ Blockers(t) = {}
    BY DEF FindOrder, At
  <2>2. y \in TxType /\ y.stk = x.stk /\ y.at \in Product /\ y.pc = "readCart"
    BY <2>1, TxTypes DEF TxType, Statements
  <2> QED
    BY <1>2, <2>1, <2>2, QuietProceed
<1> QED
  BY <1>1, <1>2 DEF FindOrder

LEMMA CheckoutLockCartSafe == ASSUME IInv, NEW t \in Txn, CheckoutLockCart(t) PROVE IInv'
<1> DEFINE x == tx[t]
           lines == {p \in Product : Quantity(x.op.who, x.mine, p) > 0}
<1>1. CASE Abort(t)
  BY <1>1, AbortSafe
<1>2. CASE \E p \in lines :
             Proceed(t, [x EXCEPT !.todo = lines, !.at = p, !.pc = "lockItems"])
  <2>1. x.op.kind = "checkout" /\ x.pc = "lockCart" /\ Blockers(t) = {}
    BY DEF CheckoutLockCart, At
  <2>2. PICK p \in lines :
          Proceed(t, [x EXCEPT !.todo = lines, !.at = p, !.pc = "lockItems"])
    BY <1>2
  <2>3. lines \subseteq Product /\ p \in Product
    OBVIOUS
  <2> DEFINE y == [x EXCEPT !.todo = lines, !.at = p, !.pc = "lockItems"]
  <2> HIDE DEF lines
  <2>4. y \in TxType /\ y.stk = x.stk /\ y.at \in Product /\ y.pc = "lockItems"
    BY <2>3, TxTypes DEF TxType, Statements
  <2> QED
    BY <2>1, <2>2, <2>4, QuietProceed
<1> QED
  BY <1>1, <1>2 DEF CheckoutLockCart

\* From the last item on, every line of the order is a product still to lock.
LEMMA CheckoutLockItemSafe == ASSUME IInv, NEW t \in Txn, CheckoutLockItem(t) PROVE IInv'
<1> DEFINE x == tx[t]
           left == x.todo \ {x.at}
           qty == Quantity(x.op.who, x.mine, x.at)
           read == [x EXCEPT !.todo = left, !.seen[x.at] = qty]
           lines == {p \in Product : read.seen[p] > 0}
<1>1. /\ x.op.kind = "checkout" /\ x.pc = "lockItems" /\ Blockers(t) = {}
      /\ x \in TxType /\ x.at \in Product
  BY TxTypes DEF CheckoutLockItem, At
<1>2. qty \in Nat /\ left \subseteq Product
  BY <1>1, TxTypes
<1> HIDE DEF qty, left
<1>3. read \in TxType /\ read.stk = x.stk /\ read.op = x.op /\ read.at = x.at
  BY <1>1, <1>2 DEF TxType
<1>4. lines \subseteq Product
  OBVIOUS
<1>5. CASE Abort(t)
  BY <1>5, AbortSafe
<1>6. CASE \E p \in left : Proceed(t, [read EXCEPT !.at = p])
  <2>1. PICK p \in left : Proceed(t, [read EXCEPT !.at = p])
    BY <1>6
  <2> DEFINE y == [read EXCEPT !.at = p]
  <2>2. read.pc = "lockItems"
    BY <1>1 DEF TxType
  <2> HIDE DEF read
  <2>3. y \in TxType /\ y.stk = x.stk /\ y.at \in Product /\ y.pc = "lockItems"
    BY <1>2, <1>3, <2>2 DEF TxType
  <2> QED
    BY <1>1, <2>1, <2>3, QuietProceed
<1>7. CASE /\ lines # {}
           /\ Proceed(t, [read EXCEPT !.todo = lines, !.pc = "lockProducts"])
  <2> DEFINE y == [read EXCEPT !.todo = lines, !.pc = "lockProducts"]
  <2>1. lines = {p \in Product : read.seen[p] > 0}
    OBVIOUS
  <2> HIDE DEF read, lines
  <2>2. /\ y \in TxType /\ y.stk = x.stk /\ y.at \in Product /\ y.pc = "lockProducts"
        /\ y.op = x.op /\ y.todo = lines /\ y.seen = read.seen
    BY <1>1, <1>3, <1>4 DEF TxType, Statements
  <2>3. NextLock(t) = ItemLock(t)
    BY <1>1, NextLockAt
  <2>4. \A p \in Product : ProductRow(p) \notin NextLock(t)
    BY <2>3, RowsDiffer DEF ItemLock
  <2>5. StockCurrent(y, held[t] \cup NextLock(t))
    BY <2>2, <2>4 DEF IInv, LockDiscipline, TxSound, StockCurrent
  <2>6. CheckoutSound(y, held[t] \cup NextLock(t))
    <3>1. \E p \in Product : y.seen[p] > 0
      BY <1>7, <2>1, <2>2
    <3>2. \A p \in Product : y.seen[p] > 0 => p \in y.todo
      BY <2>1, <2>2
    <3> QED
      BY <2>2, <3>1, <3>2 DEF CheckoutSound
  <2>7. TxSound(y, held[t] \cup NextLock(t))
    BY <1>1, <2>2, <2>5, <2>6 DEF TxSound, CancelSound, StatusSound
  <2> QED
    BY <1>1, <1>7, <2>2, <2>7, ProceedSafe
<1> QED
  BY <1>5, <1>6, <1>7 DEF CheckoutLockItem, qty, left

\* The product moves from those to lock to those locked, with its stock read.
LEMMA LockNextProductSafe == ASSUME IInv, NEW t \in Txn, LockNextProduct(t) PROVE IInv'
<1> DEFINE x == tx[t]
           done == IF x.op.kind = "checkout" THEN "insertOrder" ELSE "commit"
           rows == held[t] \cup NextLock(t)
<1>1. /\ x.op.kind \in {"checkout", "cancel"} /\ x.pc = "lockProducts" /\ Blockers(t) = {}
      /\ x \in TxType /\ x.at \in Product /\ x.todo \subseteq Product
  BY TxTypes DEF LockNextProduct, At
<1>2. PICK p \in First(t) :
        Proceed(t, [x EXCEPT !.stk[p] = stock[p], !.todo = x.todo \ {p},
                             !.pc = IF x.todo = {p} THEN done ELSE x.pc])
  BY DEF LockNextProduct
<1> DEFINE next == IF x.todo = {p} THEN done ELSE x.pc
           left == x.todo \ {p}
           y == [x EXCEPT !.stk[p] = stock[p], !.todo = left, !.pc = next]
<1>3. p \in x.todo /\ p \in Product /\ stock[p] \in Nat
  BY <1>1, <1>2 DEF First, IInv, TypeOK
<1>4. next \in Statements /\ (x.op.kind = "checkout" => next \in {"lockProducts", "insertOrder"})
      /\ (x.op.kind = "cancel" => next \in {"lockProducts", "commit"})
      /\ (next # "lockProducts" => left = {})
  BY <1>1 DEF Statements
<1>5. left \subseteq Product
  BY <1>1
<1> HIDE DEF next, left
<1>6. /\ y \in TxType /\ y.stk = [x.stk EXCEPT ![p] = stock[p]] /\ y.at = x.at
      /\ y.op = x.op /\ y.todo = left /\ y.seen = x.seen /\ y.pc = next
  BY <1>1, <1>3, <1>4, <1>5 DEF TxType
<1>7. \A q \in Product : ProductRow(q) \in NextLock(t) => q = p
  <2>1. NextLock(t) = ProductLock(t)
    BY <1>1, NextLockAt
  <2>2. \A q \in First(t) : q = p
    BY <1>1, <1>2, <1>3, StorefrontAssumption DEF First
  <2> QED
    BY <2>1, <2>2, RowsDiffer DEF ProductLock
<1>8. ProductRow(p) \in rows
  BY <1>1, <1>2, NextLockAt DEF ProductLock
<1>9. TxSound(x, held[t])
  BY DEF IInv, LockDiscipline
<1>10. StockCurrent(y, rows)
  <2> SUFFICES ASSUME NEW q \in Product, ProductRow(q) \in rows PROVE y.stk[q] = stock[q]
    BY DEF StockCurrent
  <2>1. x.stk \in [Product -> Nat]
    BY TxTypes
  <2>2. CASE q = p
    BY <1>3, <1>6, <2>1, <2>2
  <2>3. CASE q # p
    <3>1. ProductRow(q) \in held[t]
      BY <1>7, <2>3
    <3> QED
      BY <1>6, <1>9, <2>1, <2>3, <3>1 DEF TxSound, StockCurrent
  <2> QED
    BY <2>2, <2>3
<1>11. CheckoutSound(y, rows)
  <2> SUFFICES ASSUME y.op.kind = "checkout" PROVE CheckoutSound(y, rows)
    BY DEF CheckoutSound
  <2>1. x.op.kind = "checkout" /\ y.pc # "commit"
    BY <1>4, <1>6
  <2>2. /\ \E q \in Product : x.seen[q] > 0
        /\ \A q \in Product : x.seen[q] > 0 => ProductRow(q) \in held[t] \/ q \in x.todo
    BY <1>1, <1>9, <2>1 DEF TxSound, CheckoutSound
  <2>3. \A q \in Product : x.seen[q] > 0 =>
          ProductRow(q) \in rows \/ (next = "lockProducts" /\ q \in left)
    BY <1>4, <1>8, <2>2 DEF left
  <2> QED
    BY <1>6, <2>1, <2>2, <2>3 DEF CheckoutSound
<1>12. CancelSound(y, rows)
  <2> SUFFICES ASSUME y.op.kind = "cancel" PROVE CancelSound(y, rows)
    BY DEF CancelSound
  <2> DEFINE i == x.op.order
  <2>1. x.op.kind = "cancel"
    BY <1>6
  <2>2. /\ i \in 1..Len(orders) /\ OrderRow(i) \in held[t]
        /\ orders[i].status = "confirmed" /\ orders[i].fulfil \in InStore
        /\ \A q \in Product : orders[i].lines[q] > 0 =>
             ProductRow(q) \in held[t] \/ q \in x.todo
    BY <1>1, <1>9, <2>1 DEF TxSound, CancelSound
  <2>3. \A q \in Product : orders[i].lines[q] > 0 =>
          ProductRow(q) \in rows \/ (next = "lockProducts" /\ q \in left)
    BY <1>4, <1>8, <2>2 DEF left
  <2> QED
    BY <1>6, <2>2, <2>3 DEF CancelSound
<1>13. TxSound(y, rows)
  BY <1>1, <1>6, <1>10, <1>11, <1>12 DEF TxSound, StatusSound
<1>14. Proceed(t, y)
  BY <1>2 DEF next, left
<1> QED
  BY <1>1, <1>6, <1>13, <1>14, ProceedSafe

\* Validated and with its key locked, the checkout can only succeed.
LEMMA InsertOrderSafe == ASSUME IInv, NEW t \in Txn, InsertOrder(t) PROVE IInv'
<1> DEFINE x == tx[t]
           y == [x EXCEPT !.pc = "commit"]
           rows == held[t] \cup NextLock(t)
<1>1. CASE Abort(t)
  BY <1>1, AbortSafe
<1>2. CASE Orderable(t) /\ ~ KeyTaken(t) /\ Proceed(t, y)
  <2>1. x.op.kind = "checkout" /\ x.pc = "insertOrder" /\ Blockers(t) = {}
    BY DEF InsertOrder, At
  <2>2. /\ y \in TxType /\ y.at \in Product /\ y.op = x.op /\ y.pc = "commit"
        /\ y.stk = x.stk /\ y.seen = x.seen
    BY <2>1, TxTypes DEF TxType, Statements
  <2>3. NextLock(t) = {KeyRow(x.op.key)}
    <3>1. NextLock(t) = OrderKeyLock(t)
      BY <2>1, NextLockAt
    <3> QED
      BY <1>2, <3>1 DEF OrderKeyLock
  <2>4. TxSound(x, held[t])
    BY DEF IInv, LockDiscipline
  <2>5. StockCurrent(y, rows)
    BY <2>2, <2>3, <2>4, RowsDiffer DEF TxSound, StockCurrent
  <2>6. CheckoutSound(y, rows)
    <3>1. /\ \E p \in Product : x.seen[p] > 0
          /\ \A p \in Product : x.seen[p] > 0 => ProductRow(p) \in held[t]
      BY <2>1, <2>4 DEF TxSound, CheckoutSound
    <3>2. \A p \in Product : x.seen[p] > 0 => x.seen[p] <= x.stk[p]
      BY <1>2 DEF Orderable
    <3>3. KeyRow(x.op.key) \in rows /\ ~ KeyIn(x.op.key, orders)
      BY <1>2, <2>3 DEF KeyTaken
    <3> QED
      BY <2>2, <3>1, <3>2, <3>3 DEF CheckoutSound
  <2>7. TxSound(y, rows)
    BY <2>1, <2>2, <2>5, <2>6 DEF TxSound, CancelSound, StatusSound
  <2> QED
    BY <1>2, <2>1, <2>2, <2>7, ProceedSafe
<1> QED
  BY <1>1, <1>2 DEF InsertOrder

-------------------------------------------------------------------------------
(* Commits that change stock or orders.                                    *)

\* A commit of another transaction leaves u's record sound when it changes no
\* product and no order u has locked and takes no key u has locked.
LEMMA OthersSound ==
  ASSUME IInv, NEW u \in Txn, TxSound(tx[u], held[u]),
         tx'[u] = tx[u], held'[u] = held[u], Len(orders') \in Nat, Len(orders') >= Len(orders),
         \A p \in Product : ProductRow(p) \in held[u] => stock'[p] = stock[p],
         \A i \in 1..Len(orders) : OrderRow(i) \in held[u] => orders'[i] = orders[i],
         KeyRow(tx[u].op.key) \in held[u] /\ ~ KeyIn(tx[u].op.key, orders)
           => ~ KeyIn(tx[u].op.key, orders')
  PROVE  /\ StockCurrent(tx[u], held[u])' /\ CheckoutSound(tx[u], held[u])'
         /\ CancelSound(tx[u], held[u])' /\ StatusSound(tx[u], held[u])'
<1> DEFINE x == tx[u]
           i == x.op.order
<1>1. StockCurrent(tx[u], held[u])'
  BY DEF TxSound, StockCurrent
<1>2. CheckoutSound(tx[u], held[u])'
  BY DEF TxSound, CheckoutSound
<1>3. Len(orders) \in Nat
  BY DEF IInv, TypeOK
<1>4. CancelSound(tx[u], held[u])'
  <2> SUFFICES ASSUME x.op.kind = "cancel", x.pc \in {"lockProducts", "commit"}
               PROVE  CancelSound(tx[u], held[u])'
    BY DEF CancelSound
  <2>1. i \in 1..Len(orders) /\ OrderRow(i) \in held[u]
    BY DEF TxSound, CancelSound
  <2>2. orders'[i] = orders[i] /\ i \in 1..Len(orders')
    BY <1>3, <2>1
  <2> QED
    BY <2>1, <2>2 DEF TxSound, CancelSound
<1>5. StatusSound(tx[u], held[u])'
  <2> SUFFICES ASSUME x.op.kind = "status", x.pc = "commit"
               PROVE  StatusSound(tx[u], held[u])'
    BY DEF StatusSound
  <2>1. i \in 1..Len(orders) /\ OrderRow(i) \in held[u]
    BY DEF TxSound, StatusSound
  <2>2. orders'[i] = orders[i] /\ i \in 1..Len(orders')
    BY <1>3, <2>1
  <2> QED
    BY <2>1, <2>2 DEF TxSound, StatusSound
<1> QED
  BY <1>1, <1>2, <1>4, <1>5

\* What End leaves to the others, and that two transactions share no locked row.
LEMMA OthersKept ==
  ASSUME IInv, NEW t \in Txn, End(t), NEW u \in Txn \ {t}
  PROVE  tx'[u] = tx[u] /\ held'[u] = held[u] /\ held[t] \cap held[u] = {}
BY DEF IInv, TypeOK, LockDiscipline, End

LEMMA NewOrderType ==
  ASSUME NEW k \in Key, NEW o \in Owner, NEW lines \in [Product -> Nat]
  PROVE  NewOrder(k, o, lines) \in Order
BY DEF NewOrder, Order, Status, Fulfilment

\* What a checkout at its commit has established.
LEMMA CommitOrderFacts ==
  ASSUME IInv, NEW t \in Txn, CommitOrder(t)
  PROVE  /\ ~ KeyIn(tx[t].op.key, orders) /\ KeyRow(tx[t].op.key) \in held[t]
         /\ \E p \in Product : tx[t].seen[p] > 0
         /\ \A p \in Product : tx[t].seen[p] > 0 =>
              /\ ProductRow(p) \in held[t] /\ tx[t].stk[p] = stock[p]
              /\ tx[t].seen[p] <= stock[p]
<1>1. TxSound(tx[t], held[t]) /\ tx[t].op.kind = "checkout" /\ tx[t].pc = "commit"
  BY DEF IInv, LockDiscipline, CommitOrder, At
<1> QED
  BY <1>1 DEF TxSound, CheckoutSound, StockCurrent

\* The stock after a checkout: less what was ordered, for every product.
LEMMA CommitOrderStock ==
  ASSUME IInv, NEW t \in Txn, CommitOrder(t)
  PROVE  /\ \A p \in Product : tx[t].seen[p] \in Nat /\ tx[t].seen[p] <= stock[p]
         /\ stock' = [p \in Product |-> stock[p] - tx[t].seen[p]]
         /\ stock' \in [Product -> Nat]
<1>1. stock \in [Product -> Nat] /\ tx[t].seen \in [Product -> Nat]
  BY TxTypes DEF IInv, TypeOK
<1>2. stock' = [p \in Product |->
                  IF tx[t].seen[p] > 0 THEN tx[t].stk[p] - tx[t].seen[p] ELSE stock[p]]
  BY DEF CommitOrder
<1>3. \A p \in Product : tx[t].seen[p] \in Nat /\ tx[t].seen[p] <= stock[p]
  BY <1>1, CommitOrderFacts
<1>4. ASSUME NEW p \in Product
      PROVE  stock'[p] = stock[p] - tx[t].seen[p] /\ stock'[p] \in Nat
  <2>1. CASE tx[t].seen[p] > 0
    BY <1>1, <1>2, <1>3, <2>1, CommitOrderFacts
  <2>2. CASE tx[t].seen[p] = 0
    BY <1>1, <1>2, <2>2
  <2> QED
    BY <1>1, <2>1, <2>2
<1> QED
  BY <1>2, <1>3, <1>4

LEMMA CommitOrderSafe == ASSUME IInv, NEW t \in Txn, CommitOrder(t) PROVE IInv'
<1> DEFINE x == tx[t]
           o == x.op.who
           r == NewOrder(x.op.key, o, x.seen)
<1>1. /\ orders' = Append(orders, r) /\ End(t)
      /\ cart' = [cart EXCEPT ![o] = 0] /\ item' = [item EXCEPT ![o] = NoItems]
      /\ UNCHANGED <<active, carts, issued>>
  BY DEF CommitOrder
<1>2. r \in Order
  BY TxTypes, NewOrderType
<1>3. orders \in Seq(Order)
  BY DEF IInv, TypeOK
<1>4. r.key = x.op.key
  BY DEF NewOrder
<1> HIDE DEF r
<1>5. /\ orders' \in Seq(Order) /\ Len(orders) \in Nat /\ Len(orders') = Len(orders) + 1
      /\ orders'[Len(orders) + 1] = r
      /\ \A i \in 1..Len(orders) : orders'[i] = orders[i]
  BY <1>1, <1>2, <1>3
<1>6. NoItems \in [Product -> Nat]
  BY DEF NoItems
<1>7. /\ stock' \in [Product -> Nat] /\ active' \in [Product -> BOOLEAN]
      /\ cart' \in [Owner -> Nat] /\ carts' \in [Owner -> Nat]
      /\ item' \in [Owner -> [Product -> Nat]] /\ issued' \in Nat
  BY <1>1, <1>6, TxTypes, CommitOrderStock DEF IInv, TypeOK
<1>8. ASSUME NEW u \in Txn \ {t}, TxSound(tx[u], held[u])
      PROVE  /\ StockCurrent(tx[u], held[u])' /\ CheckoutSound(tx[u], held[u])'
             /\ CancelSound(tx[u], held[u])' /\ StatusSound(tx[u], held[u])'
  <2>1. tx'[u] = tx[u] /\ held'[u] = held[u] /\ held[t] \cap held[u] = {}
    BY <1>1, OthersKept
  <2>2. ASSUME NEW p \in Product, ProductRow(p) \in held[u] PROVE stock'[p] = stock[p]
    <3>1. ~ (x.seen[p] > 0)
      BY <2>1, <2>2, CommitOrderFacts
    <3> QED
      BY <3>1 DEF CommitOrder
  <2>3. ASSUME KeyRow(tx[u].op.key) \in held[u], ~ KeyIn(tx[u].op.key, orders)
        PROVE  ~ KeyIn(tx[u].op.key, orders')
    <3>1. tx[u].op.key # r.key
      BY <1>4, <2>1, <2>3, CommitOrderFacts
    <3>2. \A i \in 1..Len(orders') : i \in 1..Len(orders) \/ i = Len(orders) + 1
      BY <1>5
    <3> QED
      BY <1>5, <2>3, <3>1, <3>2 DEF KeyIn
  <2>4. Len(orders') \in Nat /\ Len(orders') >= Len(orders)
    BY <1>5
  <2> QED
    BY <1>5, <1>8, <2>1, <2>2, <2>3, <2>4, OthersSound
<1> QED
  BY <1>1, <1>5, <1>7, <1>8, EndSafe

-------------------------------------------------------------------------------
(* The merchant.                                                           *)

LEMMA CancelLockOrderSafe == ASSUME IInv, NEW t \in Txn, CancelLockOrder(t) PROVE IInv'
<1> DEFINE x == tx[t]
           i == x.op.order
           lines == {p \in Product : orders[i].lines[p] > 0}
           next == IF lines = {} THEN "commit" ELSE "lockProducts"
           y == [x EXCEPT !.todo = lines, !.pc = next]
           rows == held[t] \cup NextLock(t)
<1>1. CASE Abort(t)
  BY <1>1, AbortSafe
<1>2. CASE ~ Abort(t)
  <2>1. /\ x.op.kind = "cancel" /\ x.pc = "lockOrder" /\ Blockers(t) = {} /\ Proceed(t, y)
        /\ i \in 1..Len(orders)
        /\ orders[i].status = "confirmed" /\ orders[i].fulfil \in InStore
    BY <1>2 DEF CancelLockOrder, At
  <2>2. /\ lines \subseteq Product /\ next \in {"commit", "lockProducts"}
        /\ (next = "commit" => \A p \in Product : ~ (orders[i].lines[p] > 0))
        /\ \A p \in Product : orders[i].lines[p] > 0 => p \in lines
    OBVIOUS
  <2> HIDE DEF lines, next
  <2>3. /\ y \in TxType /\ y.at \in Product /\ y.op = x.op /\ y.pc = next
        /\ y.stk = x.stk /\ y.todo = lines
    BY <2>1, <2>2, TxTypes DEF TxType, Statements
  <2>4. NextLock(t) = {OrderRow(i)}
    <3>1. NextLock(t) = OrderLock(t)
      BY <2>1, NextLockAt
    <3> QED
      BY <2>1, <3>1 DEF OrderLock
  <2>5. StockCurrent(y, rows)
    BY <2>3, <2>4, RowsDiffer DEF IInv, LockDiscipline, TxSound, StockCurrent
  <2>6. CancelSound(y, rows)
    BY <2>1, <2>2, <2>3, <2>4 DEF CancelSound
  <2>7. TxSound(y, rows)
    BY <2>1, <2>3, <2>5, <2>6 DEF TxSound, CheckoutSound, StatusSound
  <2> QED
    BY <2>1, <2>3, <2>7, ProceedSafe
<1> QED
  BY <1>1, <1>2

\* What a cancellation at its commit has established.
LEMMA CommitCancelFacts ==
  ASSUME IInv, NEW t \in Txn, CommitCancel(t)
  PROVE  LET i == tx[t].op.order
         IN /\ i \in 1..Len(orders) /\ OrderRow(i) \in held[t] /\ orders[i] \in Order
            /\ orders[i].status = "confirmed" /\ orders[i].fulfil \in InStore
            /\ \A p \in Product : orders[i].lines[p] > 0 =>
                 ProductRow(p) \in held[t] /\ tx[t].stk[p] = stock[p]
<1>1. TxSound(tx[t], held[t]) /\ tx[t].op.kind = "cancel" /\ tx[t].pc = "commit"
  BY DEF IInv, LockDiscipline, CommitCancel, At
<1>2. tx[t].op.order \in 1..Len(orders) => orders[tx[t].op.order] \in Order
  BY DEF IInv, TypeOK
<1> QED
  BY <1>1, <1>2 DEF TxSound, CancelSound, StockCurrent

\* The stock after a cancellation: the order's units back, for every product.
LEMMA CommitCancelStock ==
  ASSUME IInv, NEW t \in Txn, CommitCancel(t)
  PROVE  /\ stock' = [p \in Product |-> stock[p] + orders[tx[t].op.order].lines[p]]
         /\ stock' \in [Product -> Nat]
<1> DEFINE lines == orders[tx[t].op.order].lines
<1>1. stock \in [Product -> Nat] /\ lines \in [Product -> Nat]
  BY CommitCancelFacts DEF IInv, TypeOK, Order
<1>2. stock' = [p \in Product |->
                  IF lines[p] > 0 THEN tx[t].stk[p] + lines[p] ELSE stock[p]]
  BY DEF CommitCancel
<1>3. \A p \in Product : lines[p] > 0 => tx[t].stk[p] = stock[p]
  BY CommitCancelFacts
<1> HIDE DEF lines
<1>4. ASSUME NEW p \in Product
      PROVE  stock'[p] = stock[p] + lines[p] /\ stock'[p] \in Nat
  <2>1. CASE lines[p] > 0
    BY <1>1, <1>2, <1>3, <2>1
  <2>2. CASE lines[p] = 0
    BY <1>1, <1>2, <2>2
  <2> QED
    BY <1>1, <2>1, <2>2
<1>5. stock' = [p \in Product |-> stock[p] + lines[p]] /\ stock' \in [Product -> Nat]
  BY <1>2, <1>4
<1> QED
  BY <1>5 DEF lines

\* A commit that rewrites one order its transaction has locked.
LEMMA RewrittenOrder ==
  ASSUME IInv, NEW i \in 1..Len(orders), NEW r \in Order, orders' = [orders EXCEPT ![i] = r]
  PROVE  /\ orders' \in Seq(Order) /\ Len(orders') \in Nat /\ Len(orders') = Len(orders)
         /\ orders'[i] = r /\ \A j \in 1..Len(orders) : j # i => orders'[j] = orders[j]
<1>1. orders \in Seq(Order)
  BY DEF IInv, TypeOK
<1> QED
  BY <1>1

\* Rewriting an order without changing its key takes no key.
LEMMA KeysKept ==
  ASSUME IInv, NEW i \in 1..Len(orders), Len(orders') = Len(orders),
         orders'[i].key = orders[i].key,
         \A j \in 1..Len(orders) : j # i => orders'[j] = orders[j], NEW k, ~ KeyIn(k, orders)
  PROVE  ~ KeyIn(k, orders')
BY DEF KeyIn

LEMMA CommitCancelSafe == ASSUME IInv, NEW t \in Txn, CommitCancel(t) PROVE IInv'
<1> DEFINE i == tx[t].op.order
           r == [orders[i] EXCEPT !.status = "cancelled"]
<1>1. /\ orders' = [orders EXCEPT ![i] = r] /\ End(t)
      /\ UNCHANGED <<active, cart, carts, item, issued>>
  BY DEF CommitCancel
<1>2. i \in 1..Len(orders) /\ r \in Order /\ r.key = orders[i].key
  BY CommitCancelFacts DEF Order, Status
<1> HIDE DEF r
<1>3. /\ orders' \in Seq(Order) /\ Len(orders') \in Nat /\ Len(orders') = Len(orders)
      /\ orders'[i] = r /\ \A j \in 1..Len(orders) : j # i => orders'[j] = orders[j]
  BY <1>1, <1>2, RewrittenOrder
<1>4. /\ stock' \in [Product -> Nat] /\ active' \in [Product -> BOOLEAN]
      /\ cart' \in [Owner -> Nat] /\ carts' \in [Owner -> Nat]
      /\ item' \in [Owner -> [Product -> Nat]] /\ issued' \in Nat
  BY <1>1, CommitCancelStock DEF IInv, TypeOK
<1>5. ASSUME NEW u \in Txn \ {t}, TxSound(tx[u], held[u])
      PROVE  /\ StockCurrent(tx[u], held[u])' /\ CheckoutSound(tx[u], held[u])'
             /\ CancelSound(tx[u], held[u])' /\ StatusSound(tx[u], held[u])'
  <2>1. tx'[u] = tx[u] /\ held'[u] = held[u] /\ held[t] \cap held[u] = {}
    BY <1>1, OthersKept
  <2>2. ASSUME NEW p \in Product, ProductRow(p) \in held[u] PROVE stock'[p] = stock[p]
    <3>1. ~ (orders[i].lines[p] > 0)
      BY <2>1, <2>2, CommitCancelFacts
    <3> QED
      BY <3>1 DEF CommitCancel
  <2>3. \A j \in 1..Len(orders) : OrderRow(j) \in held[u] => orders'[j] = orders[j]
    BY <1>3, <2>1, CommitCancelFacts
  <2>4. ~ KeyIn(tx[u].op.key, orders) => ~ KeyIn(tx[u].op.key, orders')
    BY <1>2, <1>3, KeysKept
  <2>5. Len(orders') >= Len(orders)
    BY <1>3
  <2> QED
    BY <1>3, <1>5, <2>1, <2>2, <2>3, <2>4, <2>5, OthersSound
<1> QED
  BY <1>1, <1>3, <1>4, <1>5, EndSafe

LEMMA StatusLockOrderSafe == ASSUME IInv, NEW t \in Txn, StatusLockOrder(t) PROVE IInv'
<1> DEFINE x == tx[t]
           i == x.op.order
           row == [status |-> orders[i].status, fulfil |-> x.op.to]
           y == [x EXCEPT !.row = row, !.pc = "commit"]
           rows == held[t] \cup NextLock(t)
<1>1. CASE Abort(t)
  BY <1>1, AbortSafe
<1>2. CASE ~ Abort(t)
  <2>1. /\ x.op.kind = "status" /\ x.pc = "lockOrder" /\ Blockers(t) = {} /\ Proceed(t, y)
        /\ i \in 1..Len(orders)
        /\ \/ x.op.to = orders[i].fulfil
           \/ orders[i].status # "cancelled" /\ x.op.to = NextStage(orders[i].fulfil)
    BY <1>2 DEF StatusLockOrder, At
  <2>2. orders[i].status \in Status /\ x.op.to \in Fulfilment
    <3>1. orders[i] \in Order
      BY <2>1 DEF IInv, TypeOK
    <3>2. orders[i].status \in Status
      BY <3>1 DEF Order
    <3> QED
      BY <3>2, TxTypes
  <2>3. row \in [status : Status, fulfil : Fulfilment] /\ row.status = orders[i].status
        /\ row.fulfil = x.op.to
    BY <2>2
  <2> HIDE DEF row
  <2>4. /\ y \in TxType /\ y.at \in Product /\ y.op = x.op /\ y.pc = "commit"
        /\ y.stk = x.stk /\ y.row = row
    BY <2>1, <2>3, TxTypes DEF TxType, Statements
  <2>5. NextLock(t) = {OrderRow(i)}
    <3>1. NextLock(t) = OrderLock(t)
      BY <2>1, NextLockAt
    <3> QED
      BY <2>1, <3>1 DEF OrderLock
  <2>6. StockCurrent(y, rows)
    BY <2>4, <2>5, RowsDiffer DEF IInv, LockDiscipline, TxSound, StockCurrent
  <2>7. orders[i].status # "cancelled" => orders[i].status = "confirmed"
    BY <2>2 DEF Status
  <2>8. StatusSound(y, rows)
    BY <2>1, <2>3, <2>4, <2>5, <2>7 DEF StatusSound
  <2>9. TxSound(y, rows)
    BY <2>1, <2>4, <2>6, <2>8 DEF TxSound, CheckoutSound, CancelSound
  <2> QED
    BY <2>1, <2>4, <2>9, ProceedSafe
<1> QED
  BY <1>1, <1>2

\* A status save writes back the status it read, which is still the order's, and
\* the stage it was or the next one.
LEMMA CommitStatusFacts ==
  ASSUME IInv, NEW t \in Txn, CommitStatus(t)
  PROVE  LET i == tx[t].op.order
             f == tx[t].row.fulfil
         IN /\ i \in 1..Len(orders) /\ OrderRow(i) \in held[t] /\ orders[i] \in Order
            /\ f \in Fulfilment
            /\ orders' = [orders EXCEPT ![i] = [orders[i] EXCEPT !.fulfil = f]]
            /\ \/ f = orders[i].fulfil
               \/ orders[i].status = "confirmed" /\ f = NextStage(orders[i].fulfil)
<1> DEFINE x == tx[t]
           i == x.op.order
           f == x.row.fulfil
<1>1. TxSound(x, held[t]) /\ x.op.kind = "status" /\ x.pc = "commit"
  BY DEF IInv, LockDiscipline, CommitStatus, At
<1>2. /\ i \in 1..Len(orders) /\ OrderRow(i) \in held[t] /\ x.row.status = orders[i].status
      /\ \/ f = orders[i].fulfil
         \/ x.row.status = "confirmed" /\ f = NextStage(orders[i].fulfil)
  BY <1>1 DEF TxSound, StatusSound
<1>3. orders[i] \in Order /\ f \in Fulfilment
  BY <1>2, TxTypes DEF IInv, TypeOK, TxType
<1>4. orders' = [orders EXCEPT ![i] = [[orders[i] EXCEPT !.status = x.row.status] EXCEPT !.fulfil = f]]
  BY <1>2 DEF CommitStatus, IInv, TypeOK
<1>5. [orders[i] EXCEPT !.status = x.row.status] = orders[i]
  BY <1>2, <1>3 DEF Order
<1> QED
  BY <1>2, <1>3, <1>4, <1>5

LEMMA CommitStatusSafe == ASSUME IInv, NEW t \in Txn, CommitStatus(t) PROVE IInv'
<1> DEFINE i == tx[t].op.order
           r == [orders[i] EXCEPT !.fulfil = tx[t].row.fulfil]
<1>1. /\ orders' = [orders EXCEPT ![i] = r] /\ End(t)
      /\ UNCHANGED <<stock, active, cart, carts, item, issued>>
  BY CommitStatusFacts DEF CommitStatus
<1>2. i \in 1..Len(orders) /\ r \in Order /\ r.key = orders[i].key
  BY CommitStatusFacts DEF Order
<1> HIDE DEF r
<1>3. /\ orders' \in Seq(Order) /\ Len(orders') \in Nat /\ Len(orders') = Len(orders)
      /\ orders'[i] = r /\ \A j \in 1..Len(orders) : j # i => orders'[j] = orders[j]
  BY <1>1, <1>2, RewrittenOrder
<1>4. /\ stock' \in [Product -> Nat] /\ active' \in [Product -> BOOLEAN]
      /\ cart' \in [Owner -> Nat] /\ carts' \in [Owner -> Nat]
      /\ item' \in [Owner -> [Product -> Nat]] /\ issued' \in Nat
  BY <1>1 DEF IInv, TypeOK
<1>5. ASSUME NEW u \in Txn \ {t}, TxSound(tx[u], held[u])
      PROVE  /\ StockCurrent(tx[u], held[u])' /\ CheckoutSound(tx[u], held[u])'
             /\ CancelSound(tx[u], held[u])' /\ StatusSound(tx[u], held[u])'
  <2>1. tx'[u] = tx[u] /\ held'[u] = held[u] /\ held[t] \cap held[u] = {}
    BY <1>1, OthersKept
  <2>2. \A j \in 1..Len(orders) : OrderRow(j) \in held[u] => orders'[j] = orders[j]
    BY <1>3, <2>1, CommitStatusFacts
  <2>3. ~ KeyIn(tx[u].op.key, orders) => ~ KeyIn(tx[u].op.key, orders')
    BY <1>2, <1>3, KeysKept
  <2>4. Len(orders') >= Len(orders)
    BY <1>3
  <2> QED
    BY <1>1, <1>3, <1>5, <2>1, <2>2, <2>3, <2>4, OthersSound
<1> QED
  BY <1>1, <1>3, <1>4, <1>5, EndSafe

\* The edit reads its product without a lock, so nothing is claimed about it.
LEMMA EditReadProductSafe == ASSUME IInv, NEW t \in Txn, EditReadProduct(t) PROVE IInv'
<1> DEFINE x == tx[t]
           p == x.op.product
           y == [x EXCEPT !.stk[p] = stock[p], !.act = active[p], !.pc = "saveProduct"]
<1>1. x.op.kind = "edit" /\ x.pc = "readProduct" /\ Blockers(t) = {} /\ Proceed(t, y)
  BY DEF EditReadProduct, At
<1>2. stock[p] \in Nat /\ active[p] \in BOOLEAN
  BY TxTypes DEF IInv, TypeOK
<1>3. /\ y \in TxType /\ y.at \in Product /\ y.op = x.op /\ y.pc = "saveProduct"
      /\ y.stk = [x.stk EXCEPT ![p] = stock[p]]
  BY <1>1, <1>2, TxTypes DEF TxType, Statements
<1>4. NextLock(t) = {}
  BY <1>1, NextLockAt
<1>5. StockCurrent(x, held[t])
  BY DEF IInv, LockDiscipline, TxSound
<1>6. StockCurrent(y, held[t] \cup NextLock(t))
  BY <1>3, <1>4, <1>5, TxTypes DEF StockCurrent
<1>7. TxSound(y, held[t] \cup NextLock(t))
  BY <1>1, <1>3, <1>6 DEF TxSound, CheckoutSound, CancelSound, StatusSound
<1> QED
  BY <1>1, <1>3, <1>7, ProceedSafe

\* The UPDATE waits for whoever has locked the product.
LEMMA EditSaveProductSafe == ASSUME IInv, NEW t \in Txn, EditSaveProduct(t) PROVE IInv'
<1> DEFINE x == tx[t]
           p == x.op.product
           n == IF x.op.field = "stock" THEN x.op.qty ELSE x.stk[p]
           a == IF x.op.field = "active" THEN ~ x.act ELSE x.act
<1>1. /\ stock' = [stock EXCEPT ![p] = n] /\ active' = [active EXCEPT ![p] = a] /\ End(t)
      /\ UNCHANGED <<cart, carts, item, orders, issued>>
      /\ x.pc = "saveProduct" /\ Blockers(t) = {}
  BY DEF EditSaveProduct, At
<1>2. n \in Nat
  BY TxTypes
<1>3. a \in BOOLEAN
  BY TxTypes DEF TxType
<1> HIDE DEF n, a
<1>4. /\ stock' \in [Product -> Nat] /\ active' \in [Product -> BOOLEAN]
      /\ cart' \in [Owner -> Nat] /\ carts' \in [Owner -> Nat]
      /\ item' \in [Owner -> [Product -> Nat]] /\ issued' \in Nat /\ orders' \in Seq(Order)
  BY <1>1, <1>2, <1>3 DEF IInv, TypeOK
<1>5. NextLock(t) = {ProductRow(p)}
  BY <1>1, NextLockAt
<1>6. ASSUME NEW u \in Txn \ {t}, TxSound(tx[u], held[u])
      PROVE  /\ StockCurrent(tx[u], held[u])' /\ CheckoutSound(tx[u], held[u])'
             /\ CancelSound(tx[u], held[u])' /\ StatusSound(tx[u], held[u])'
  <2>1. tx'[u] = tx[u] /\ held'[u] = held[u]
    BY <1>1, OthersKept
  <2>2. ProductRow(p) \notin held[u]
    BY <1>1, <1>5 DEF Blockers
  <2>3. \A q \in Product : ProductRow(q) \in held[u] => stock'[q] = stock[q]
    BY <1>1, <2>2 DEF IInv, TypeOK
  <2>4. Len(orders) \in Nat
    BY DEF IInv, TypeOK
  <2> QED
    BY <1>1, <1>6, <2>1, <2>3, <2>4, OthersSound
<1> QED
  BY <1>1, <1>4, <1>6, EndSafe

-------------------------------------------------------------------------------
(* The invariant.                                                          *)

LEMMA BeginSafe == ASSUME IInv, NEW t \in Txn, Begin(t) PROVE IInv'
<1> DEFINE x == tx[t]
<1>1. PICK o \in Ops : tx' = [tx EXCEPT ![t] = [x EXCEPT !.op = o, !.at = o.product,
                                                         !.pc = FirstStatement(o.kind)]]
  BY DEF Begin, IInv, TypeOK
<1> DEFINE first == FirstStatement(o.kind)
           y == [x EXCEPT !.op = o, !.at = o.product, !.pc = first]
<1>2. /\ issued' = issued + 1
      /\ UNCHANGED <<stock, active, cart, carts, item, orders, held, shared>>
  BY DEF Begin, tables
<1>3. o \in Op /\ o.product \in Product /\ o.kind \in Kind
  BY StorefrontAssumption DEF Op
<1>4. first \in Statements \ {"idle", "lockProducts", "insertOrder", "commit"}
  BY <1>3, Zenon DEF FirstStatement, Kind, Statements
<1> HIDE DEF first
<1>5. y \in TxType /\ y.at \in Product /\ y.pc = first /\ y.stk = x.stk
  BY <1>3, <1>4, TxTypes DEF TxType
<1>6. tx' = [tx EXCEPT ![t] = y]
  BY <1>1 DEF first
<1>7. TypeOK'
  BY <1>2, <1>5, <1>6 DEF IInv, TypeOK
<1>8. \A u, v \in Txn : u # v => held'[u] \cap held'[v] = {}
  BY <1>2 DEF IInv, LockDiscipline
<1>9. ASSUME NEW u \in Txn PROVE TxSound(tx[u], held[u])'
  <2>1. TxSound(tx[u], held[u])
    BY DEF IInv, LockDiscipline
  <2>2. CASE u = t
    <3>1. tx'[u] = y /\ held'[u] = held[u]
      BY <1>2, <1>6, <2>2 DEF IInv, TypeOK
    <3> QED
      BY <1>2, <1>4, <1>5, <2>1, <2>2, <3>1 DEF TxSound, StockCurrent, CheckoutSound, CancelSound, StatusSound
  <2>3. CASE u # t
    <3>1. tx'[u] = tx[u] /\ held'[u] = held[u]
      BY <1>2, <1>6, <2>3 DEF IInv, TypeOK
    <3> QED
      BY <1>2, <2>1, <3>1 DEF TxSound, StockCurrent, CheckoutSound, CancelSound, StatusSound
  <2> QED
    BY <2>2, <2>3
<1> QED
  BY <1>7, <1>8, <1>9 DEF IInv, LockDiscipline

LEMMA StatementSafe == ASSUME IInv, NEW t \in Txn, Statement(t) PROVE IInv'
BY AddLockProductSafe, ReadCartSafe, AddLockItemSafe, MakeCartSafe, PutItemSafe,
   PatchLockItemSafe, PatchLockProductSafe, DeleteItemSafe, ClaimLockGuestSafe,
   ClaimLockItemSafe, ClaimDropGuestSafe, CheckForeignKeySafe, CommitCartSafe,
   FindOrderSafe, CheckoutLockCartSafe, CheckoutLockItemSafe, LockNextProductSafe,
   InsertOrderSafe, CommitOrderSafe, CancelLockOrderSafe, CommitCancelSafe,
   StatusLockOrderSafe, CommitStatusSafe, EditReadProductSafe, EditSaveProductSafe
   DEF Statement

LEMMA InitSafe == Init => IInv
<1> SUFFICES ASSUME Init PROVE IInv
  OBVIOUS
<1>1. orders \in Seq(Order)
  BY StorefrontAssumption DEF Init, OrderTables
<1>2. /\ stock \in [Product -> Nat] /\ active \in [Product -> BOOLEAN]
      /\ cart \in [Owner -> Nat] /\ carts \in [Owner -> Nat]
      /\ item \in [Owner -> [Product -> Nat]] /\ issued \in Nat
  BY StorefrontAssumption DEF Init
<1>3. tx \in [Txn -> TxType] /\ held \in [Txn -> SUBSET Row] /\ shared \in [Txn -> SUBSET Row]
  BY IdleType DEF Init
<1>4. TypeOK
  BY <1>1, <1>2, <1>3 DEF TypeOK
<1>5. \A t \in Txn : TxSound(tx[t], held[t])
  BY <1>4, IdleSound DEF Init
<1> QED
  BY <1>4, <1>5 DEF IInv, LockDiscipline, Init

LEMMA StutterSafe == ASSUME IInv, UNCHANGED vars PROVE IInv'
<1>1. TypeOK'
  BY DEF IInv, TypeOK, vars, tables
<1>2. LockDiscipline'
  BY DEF IInv, LockDiscipline, TxSound, StockCurrent, CheckoutSound, CancelSound, StatusSound,
         vars, tables
<1> QED
  BY <1>1, <1>2 DEF IInv

LEMMA StepSafe == ASSUME IInv, [Next]_vars PROVE IInv'
<1>1. CASE UNCHANGED vars
  BY <1>1, StutterSafe
<1>2. ASSUME NEW t \in Txn, Begin(t) PROVE IInv'
  BY <1>2, BeginSafe
<1>3. ASSUME NEW t \in Txn, Statement(t) PROVE IInv'
  BY <1>3, StatementSafe
<1>4. ASSUME NEW t \in Txn, DeadlockVictim(t) \/ WorkerDies(t) PROVE IInv'
  BY <1>4, AbortSafe DEF DeadlockVictim, WorkerDies
<1> QED
  BY <1>1, <1>2, <1>3, <1>4 DEF Next

\* Type correctness and the lock discipline hold together in every behaviour.
THEOREM Invariance == Spec => []IInv
<1>1. IInv /\ [Next]_vars => IInv'
  BY StepSafe
<1> QED
  BY InitSafe, <1>1, PTL DEF Spec

\* The tables keep their types for all requests; in particular no checkout ever
\* takes a stock below zero, the constraint product_stock_quantity_nonnegative.
THEOREM TypeCorrect == Spec => []TypeOK
<1>1. IInv => TypeOK
  BY DEF IInv
<1> QED
  BY <1>1, Invariance, PTL

\* No row is ever locked twice, and what a checkout, a cancellation or a status
\* change decided under its locks holds until it commits.
THEOREM LocksProtect == Spec => []LockDiscipline
<1>1. IInv => LockDiscipline
  BY DEF IInv
<1> QED
  BY <1>1, Invariance, PTL

-------------------------------------------------------------------------------
(* Which steps touch stock and orders.                                     *)

LEMMA CartStepsKeep ==
  ASSUME NEW t \in Txn,
         \/ AddLockProduct(t) \/ ReadCart(t) \/ AddLockItem(t) \/ MakeCart(t) \/ PutItem(t)
         \/ PatchLockItem(t) \/ PatchLockProduct(t) \/ DeleteItem(t) \/ ClaimLockGuest(t)
         \/ ClaimLockItem(t) \/ ClaimDropGuest(t) \/ CheckForeignKey(t) \/ CommitCart(t)
  PROVE  UNCHANGED <<stock, orders>>
<1>1. CASE AddLockProduct(t) \/ ReadCart(t) \/ AddLockItem(t) \/ MakeCart(t)
  BY <1>1, Zenon DEF AddLockProduct, ReadCart, AddLockItem, MakeCart, Proceed, Abort, tables
<1>2. CASE PutItem(t) \/ PatchLockItem(t) \/ PatchLockProduct(t) \/ DeleteItem(t)
  BY <1>2, Zenon DEF PutItem, PatchLockItem, PatchLockProduct, DeleteItem, Proceed, Abort, tables
<1>3. CASE ClaimLockGuest(t) \/ ClaimLockItem(t) \/ ClaimDropGuest(t)
  BY <1>3, Zenon DEF ClaimLockGuest, ClaimLockItem, ClaimDropGuest, Proceed, tables
<1>4. CASE CheckForeignKey(t) \/ CommitCart(t)
  BY <1>4, Zenon DEF CheckForeignKey, CommitCart, Abort, tables
<1> QED
  BY <1>1, <1>2, <1>3, <1>4

LEMMA OrderReadsKeep ==
  ASSUME NEW t \in Txn,
         \/ FindOrder(t) \/ CheckoutLockCart(t) \/ CheckoutLockItem(t) \/ LockNextProduct(t)
         \/ InsertOrder(t) \/ CancelLockOrder(t) \/ StatusLockOrder(t) \/ EditReadProduct(t)
  PROVE  UNCHANGED <<stock, orders>>
<1>1. CASE FindOrder(t) \/ CheckoutLockCart(t) \/ CheckoutLockItem(t) \/ LockNextProduct(t)
  BY <1>1, Zenon DEF FindOrder, CheckoutLockCart, CheckoutLockItem, LockNextProduct, Proceed,
                     Abort, tables
<1>2. CASE InsertOrder(t) \/ CancelLockOrder(t) \/ StatusLockOrder(t) \/ EditReadProduct(t)
  BY <1>2, Zenon DEF InsertOrder, CancelLockOrder, StatusLockOrder, EditReadProduct, Proceed,
                     Abort, tables
<1> QED
  BY <1>1, <1>2

\* A step leaves stock and orders alone unless it is one of four commits.
LEMMA FourCommits ==
  ASSUME [Next]_vars
  PROVE  \/ UNCHANGED <<stock, orders>>
         \/ \E t \in Txn :
              CommitOrder(t) \/ CommitCancel(t) \/ CommitStatus(t) \/ EditSaveProduct(t)
<1>1. CASE UNCHANGED vars
  BY <1>1 DEF vars, tables
<1>2. ASSUME NEW t \in Txn, Begin(t) \/ DeadlockVictim(t) \/ WorkerDies(t)
      PROVE  UNCHANGED <<stock, orders>>
  BY <1>2 DEF Begin, DeadlockVictim, WorkerDies, Abort, tables
<1>3. ASSUME NEW t \in Txn, Statement(t)
      PROVE  \/ UNCHANGED <<stock, orders>>
             \/ CommitOrder(t) \/ CommitCancel(t) \/ CommitStatus(t) \/ EditSaveProduct(t)
  BY <1>3, CartStepsKeep, OrderReadsKeep DEF Statement
<1> QED
  BY <1>1, <1>2, <1>3 DEF Next

-------------------------------------------------------------------------------
(* The ledger speaks of the same rows.                                     *)

LEMMA SameFulfilment ==
  /\ Ledger!Fulfilment = Fulfilment /\ Ledger!Status = Status /\ Ledger!InStore = InStore
  /\ \A f : Ledger!NextStage(f) = NextStage(f)
BY Zenon DEF Ledger!Fulfilment, Fulfilment, Ledger!Status, Status, Ledger!InStore, InStore,
       Ledger!NextStage, NextStage

LEMMA SameOrders ==
  /\ Ledger!Order = Order /\ Ledger!OrderTables = OrderTables
  /\ \A k, s : Ledger!KeyIn(k, s) <=> KeyIn(k, s)
  /\ \A k, o, lines : Ledger!NewOrder(k, o, lines) = NewOrder(k, o, lines)
<1>1. Ledger!Order = Order
  BY SameFulfilment DEF Ledger!Order, Order
<1>2. Ledger!OrderTables = OrderTables
  BY <1>1, SameFulfilment DEF Ledger!OrderTables, OrderTables
<1>3. \A k, s : Ledger!KeyIn(k, s) <=> KeyIn(k, s)
  BY DEF Ledger!KeyIn, KeyIn
<1>4. \A k, o, lines : Ledger!NewOrder(k, o, lines) = NewOrder(k, o, lines)
  BY DEF Ledger!NewOrder, NewOrder
<1> QED
  BY <1>1, <1>2, <1>3, <1>4

-------------------------------------------------------------------------------
(* Each of the four is a step of the ledger.                               *)

LEMMA CommitOrderPlaces ==
  ASSUME IInv, NEW t \in Txn, CommitOrder(t)
  PROVE  Ledger!LedgerNext
<1> DEFINE x == tx[t]
<1>1. x.op.key \in Key /\ x.op.who \in Owner /\ x.seen \in [Product -> Nat]
  BY TxTypes
<1>2. /\ \A p \in Product : x.seen[p] <= stock[p]
      /\ stock' = [p \in Product |-> stock[p] - x.seen[p]]
  BY CommitOrderStock
<1>3. ~ KeyIn(x.op.key, orders) /\ \E p \in Product : x.seen[p] > 0
  BY CommitOrderFacts
<1>4. orders' = Append(orders, NewOrder(x.op.key, x.op.who, x.seen))
  BY DEF CommitOrder
<1>5. Ledger!Place(x.op.key, x.op.who, x.seen)
  BY <1>2, <1>3, <1>4, SameOrders DEF Ledger!Place
<1>6. x.seen \in [Product -> Ledger!InStock]
  <2>1. \A p \in Product : x.seen[p] \in 0..stock[p]
    BY <1>1, <1>2 DEF IInv, TypeOK
  <2> QED
    BY <1>1, <2>1 DEF Ledger!InStock
<1> QED
  BY <1>1, <1>5, <1>6 DEF Ledger!LedgerNext

LEMMA CommitCancelCancels ==
  ASSUME IInv, NEW t \in Txn, CommitCancel(t)
  PROVE  Ledger!LedgerNext
<1> DEFINE i == tx[t].op.order
<1>1. i \in 1..Len(orders) /\ orders[i].status = "confirmed" /\ orders[i].fulfil \in InStore
  BY CommitCancelFacts
<1>2. stock' = [p \in Product |-> stock[p] + orders[i].lines[p]]
  BY CommitCancelStock
<1>3. orders' = [orders EXCEPT ![i].status = "cancelled"]
  BY DEF CommitCancel
<1>4. Ledger!Cancel(i)
  BY <1>1, <1>2, <1>3, SameFulfilment DEF Ledger!Cancel
<1> QED
  BY <1>1, <1>4 DEF Ledger!LedgerNext

LEMMA CommitStatusAdvances ==
  ASSUME IInv, NEW t \in Txn, CommitStatus(t)
  PROVE  Ledger!LedgerNext \/ UNCHANGED <<stock, orders>>
<1> DEFINE i == tx[t].op.order
           f == tx[t].row.fulfil
<1>1. /\ i \in 1..Len(orders) /\ orders[i] \in Order /\ f \in Fulfilment
      /\ orders' = [orders EXCEPT ![i] = [orders[i] EXCEPT !.fulfil = f]]
      /\ \/ f = orders[i].fulfil
         \/ orders[i].status = "confirmed" /\ f = NextStage(orders[i].fulfil)
  BY CommitStatusFacts
<1>2. UNCHANGED stock
  BY DEF CommitStatus
<1> HIDE DEF f
<1>3. CASE f = orders[i].fulfil
  <2>1. [orders[i] EXCEPT !.fulfil = f] = orders[i]
    BY <1>1, <1>3 DEF Order
  <2>2. orders \in Seq(Order)
    BY DEF IInv, TypeOK
  <2>3. orders' = orders
    BY <1>1, <2>1, <2>2
  <2> QED
    BY <1>2, <2>3
<1>4. CASE orders[i].status = "confirmed" /\ f = NextStage(orders[i].fulfil)
  <2>1. orders' = [orders EXCEPT ![i].fulfil = NextStage(orders[i].fulfil)]
    BY <1>1, <1>4
  <2>2. Ledger!Advance(i)
    BY <1>1, <1>2, <1>4, <2>1, SameFulfilment DEF Ledger!Advance
  <2> QED
    BY <1>1, <2>2 DEF Ledger!LedgerNext
<1> QED
  BY <1>1, <1>3, <1>4

LEMMA EditSaveSetsStock ==
  ASSUME IInv, NEW t \in Txn, EditSaveProduct(t)
  PROVE  Ledger!LedgerNext
<1> DEFINE x == tx[t]
           p == x.op.product
           n == IF x.op.field = "stock" THEN x.op.qty ELSE x.stk[p]
<1>1. p \in Product /\ n \in Nat
  BY TxTypes
<1>2. stock' = [stock EXCEPT ![p] = n] /\ UNCHANGED orders
  BY DEF EditSaveProduct
<1>3. stock \in [Product -> Nat]
  BY DEF IInv, TypeOK
<1> HIDE DEF n
<1>4. Ledger!SetStock(p)
  BY <1>1, <1>2, <1>3 DEF Ledger!SetStock
<1> QED
  BY <1>1, <1>4 DEF Ledger!LedgerNext

LEMMA StepRefines ==
  ASSUME IInv, [Next]_vars
  PROVE  [Ledger!LedgerNext]_(Ledger!ledgerVars)
BY FourCommits, CommitOrderPlaces, CommitCancelCancels, CommitStatusAdvances,
   EditSaveSetsStock DEF Ledger!ledgerVars

\* However the statements of the requests interleave, and whichever of them a
\* deadlock, a foreign key or the death of a worker rolls back, the orders app
\* places, cancels and advances orders as the ledger does, in single steps.
THEOREM Refinement == Spec => ImplementsLedger
<1>1. Init => Ledger!LedgerInit
  BY StorefrontAssumption, SameOrders DEF Init, Ledger!LedgerInit
<1>2. IInv /\ [Next]_vars => [Ledger!LedgerNext]_(Ledger!ledgerVars)
  BY StepRefines
<1> QED
  BY <1>1, <1>2, Invariance, PTL DEF Spec, ImplementsLedger, Ledger!LedgerSpec

-------------------------------------------------------------------------------
(* What follows for the orders.                                            *)

\* What the four commits do to the orders, one order at a time.
LEMMA OrderStep ==
  ASSUME IInv, [Next]_vars
  PROVE  \/ UNCHANGED orders
         \/ \E k, o, lines : orders' = Append(orders, NewOrder(k, o, lines))
              /\ ~ KeyIn(k, orders) /\ NewOrder(k, o, lines) \in Order
         \/ \E i \in 1..Len(orders), r \in Order :
              /\ orders' = [orders EXCEPT ![i] = r] /\ r.key = orders[i].key
              /\ r.status = "cancelled" => r.fulfil \in InStore \/ r = orders[i]
<1>1. ASSUME NEW t \in Txn, CommitOrder(t)
      PROVE  \E k, o, lines : orders' = Append(orders, NewOrder(k, o, lines))
              /\ ~ KeyIn(k, orders) /\ NewOrder(k, o, lines) \in Order
  <2>1. NewOrder(tx[t].op.key, tx[t].op.who, tx[t].seen) \in Order
    BY TxTypes, NewOrderType
  <2>2. ~ KeyIn(tx[t].op.key, orders)
    BY <1>1, CommitOrderFacts
  <2> QED
    BY <1>1, <2>1, <2>2 DEF CommitOrder
<1>2. ASSUME NEW t \in Txn, CommitCancel(t)
      PROVE  \E i \in 1..Len(orders), r \in Order :
              /\ orders' = [orders EXCEPT ![i] = r] /\ r.key = orders[i].key
              /\ r.status = "cancelled" => r.fulfil \in InStore \/ r = orders[i]
  <2> DEFINE i == tx[t].op.order
             r == [orders[i] EXCEPT !.status = "cancelled"]
  <2>1. i \in 1..Len(orders) /\ orders[i] \in Order /\ orders[i].fulfil \in InStore
    BY <1>2, CommitCancelFacts
  <2>2. r \in Order /\ r.key = orders[i].key /\ r.fulfil \in InStore
    BY <2>1 DEF Order, Status
  <2>3. orders' = [orders EXCEPT ![i] = r]
    BY <1>2 DEF CommitCancel
  <2> QED
    BY <2>1, <2>2, <2>3
<1>3. ASSUME NEW t \in Txn, CommitStatus(t)
      PROVE  \E i \in 1..Len(orders), r \in Order :
              /\ orders' = [orders EXCEPT ![i] = r] /\ r.key = orders[i].key
              /\ r.status = "cancelled" => r.fulfil \in InStore \/ r = orders[i]
  <2> DEFINE i == tx[t].op.order
             f == tx[t].row.fulfil
             r == [orders[i] EXCEPT !.fulfil = f]
  <2>1. /\ i \in 1..Len(orders) /\ orders[i] \in Order /\ f \in Fulfilment
        /\ orders' = [orders EXCEPT ![i] = r]
        /\ f = orders[i].fulfil \/ orders[i].status = "confirmed"
    BY <1>3, CommitStatusFacts
  <2> HIDE DEF f
  <2>2. /\ r \in Order /\ r.key = orders[i].key /\ r.status = orders[i].status
        /\ f = orders[i].fulfil => r = orders[i]
    BY <2>1 DEF Order
  <2> QED
    BY <2>1, <2>2
<1>4. ASSUME NEW t \in Txn, EditSaveProduct(t) PROVE UNCHANGED orders
  BY <1>4 DEF EditSaveProduct
<1> QED
  BY FourCommits, <1>1, <1>2, <1>3, <1>4

OrdersInv == OneOrderPerKey /\ CancelledNeverShipped

LEMMA OrdersStep ==
  ASSUME IInv, OrdersInv, [Next]_vars
  PROVE  OrdersInv'
<1>1. orders \in Seq(Order)
  BY DEF IInv, TypeOK
<1>2. CASE UNCHANGED orders
  BY <1>2 DEF OrdersInv, OneOrderPerKey, CancelledNeverShipped
<1>3. ASSUME NEW k, NEW o, NEW lines, orders' = Append(orders, NewOrder(k, o, lines)),
             ~ KeyIn(k, orders), NewOrder(k, o, lines) \in Order
      PROVE  OrdersInv'
  <2> DEFINE r == NewOrder(k, o, lines)
             n == Len(orders) + 1
  <2>1. r.key = k /\ r.status # "cancelled"
    BY DEF NewOrder
  <2> HIDE DEF r
  <2>2. /\ Len(orders) \in Nat /\ Len(orders') = n /\ orders'[n] = r
        /\ \A i \in 1..Len(orders) : orders'[i] = orders[i]
        /\ \A i \in 1..n : i \in 1..Len(orders) \/ i = n
    BY <1>1, <1>3 DEF r
  <2> HIDE DEF n
  <2>3. \A i \in 1..Len(orders) : orders[i].key # k
    BY <1>3 DEF KeyIn
  <2>4. OneOrderPerKey'
    BY <2>1, <2>2, <2>3 DEF OrdersInv, OneOrderPerKey
  <2>5. CancelledNeverShipped'
    BY <2>1, <2>2 DEF OrdersInv, CancelledNeverShipped
  <2> QED
    BY <2>4, <2>5 DEF OrdersInv
<1>4. ASSUME NEW i \in 1..Len(orders), NEW r \in Order, orders' = [orders EXCEPT ![i] = r],
             r.key = orders[i].key, r.status = "cancelled" => r.fulfil \in InStore \/ r = orders[i]
      PROVE  OrdersInv'
  <2>1. /\ Len(orders') = Len(orders) /\ orders'[i] = r
        /\ \A j \in 1..Len(orders) : j # i => orders'[j] = orders[j]
    BY <1>4, RewrittenOrder
  <2>2. \A j \in 1..Len(orders) : orders'[j].key = orders[j].key
    BY <1>4, <2>1
  <2>3. OneOrderPerKey'
    BY <2>1, <2>2 DEF OrdersInv, OneOrderPerKey
  <2>4. CancelledNeverShipped'
    BY <1>4, <2>1 DEF OrdersInv, CancelledNeverShipped
  <2> QED
    BY <2>3, <2>4 DEF OrdersInv
<1> QED
  BY OrderStep, <1>2, <1>3, <1>4

LEMMA OrdersInit == Init => OrdersInv
BY StorefrontAssumption DEF Init, OrderTables, OrdersInv, OneOrderPerKey, CancelledNeverShipped

LEMMA OrdersInvariance == Spec => []OrdersInv
<1>1. IInv /\ OrdersInv /\ [Next]_vars => OrdersInv'
  BY OrdersStep
<1> QED
  BY OrdersInit, <1>1, Invariance, PTL DEF Spec

\* A repeated checkout, whether it comes after the first or beside it, leaves
\* one order for its Idempotency-Key.
THEOREM KeysIdempotent == Spec => []OneOrderPerKey
<1>1. OrdersInv => OneOrderPerKey
  BY DEF OrdersInv
<1> QED
  BY <1>1, OrdersInvariance, PTL

\* No interleaving of cancel_order with the fulfilment form cancels an order
\* that has left the store, or ships one that was cancelled.
THEOREM CancelledStaysInStore == Spec => []CancelledNeverShipped
<1>1. OrdersInv => CancelledNeverShipped
  BY DEF OrdersInv
<1> QED
  BY <1>1, OrdersInvariance, PTL

-------------------------------------------------------------------------------
(* What a statement does to the request it is of.                          *)

\* A status change that is about to commit writes the stage it was asked for.
Asked(x) == x.op.kind = "status" /\ x.pc = "commit" => x.row.fulfil = x.op.to

\* Request t ends without locks or goes on, and the others keep their locks and their place.
Moves(t) ==
  /\ \A u \in Txn \ {t} : tx'[u] = tx[u] /\ held'[u] = held[u] /\ shared'[u] = shared[u]
  /\ \/ tx'[t] = Idle /\ held'[t] = {} /\ shared'[t] = {}
     \/ tx'[t].op = tx[t].op /\ tx'[t].pc # "idle" /\ Asked(tx'[t])

LEMMA EndMoves == ASSUME IInv, NEW t \in Txn, End(t) PROVE Moves(t)
BY DEF End, Moves, IInv, TypeOK

LEMMA AbortMoves == ASSUME IInv, NEW t \in Txn, Abort(t) PROVE Moves(t)
BY EndMoves DEF Abort

LEMMA ProceedMoves ==
  ASSUME IInv, NEW t \in Txn, NEW x, Proceed(t, x), x.op = tx[t].op, x.pc # "idle", Asked(x)
  PROVE  Moves(t)
BY DEF Proceed, Moves, IInv, TypeOK

LEMMA CartMoves ==
  ASSUME IInv, NEW t \in Txn,
         \/ AddLockProduct(t) \/ ReadCart(t) \/ AddLockItem(t) \/ MakeCart(t) \/ PutItem(t)
         \/ PatchLockItem(t) \/ PatchLockProduct(t) \/ DeleteItem(t) \/ ClaimLockGuest(t)
         \/ ClaimLockItem(t) \/ ClaimDropGuest(t) \/ CheckForeignKey(t) \/ CommitCart(t)
  PROVE  Moves(t)
<1> DEFINE x == tx[t]
<1>0. x \in TxType /\ x.op \in Op /\ tx \in [Txn -> TxType]
  BY TxTypes DEF IInv, TypeOK
<1>1. CASE AddLockProduct(t)
  BY <1>0, <1>1, AbortMoves, EndMoves, ProceedMoves DEF AddLockProduct, At, Asked, TxType
<1>2. CASE MakeCart(t)
  BY <1>0, <1>2, AbortMoves, EndMoves, ProceedMoves DEF MakeCart, At, Asked, TxType
<1>3. CASE PutItem(t)
  BY <1>0, <1>3, AbortMoves, EndMoves, ProceedMoves DEF PutItem, At, Asked, TxType
<1>4. CASE AddLockItem(t)
  BY <1>0, <1>4, AbortMoves, EndMoves, ProceedMoves DEF AddLockItem, At, Asked, TxType
<1>5. CASE ReadCart(t)
  BY <1>0, <1>5, AbortMoves, EndMoves, ProceedMoves DEF ReadCart, At, Asked, TxType
<1>6. CASE PatchLockItem(t)
  BY <1>0, <1>6, AbortMoves, EndMoves, ProceedMoves DEF PatchLockItem, At, Asked, TxType
<1>7. CASE PatchLockProduct(t)
  BY <1>0, <1>7, AbortMoves, EndMoves, ProceedMoves DEF PatchLockProduct, At, Asked, TxType
<1>8. CASE DeleteItem(t)
  BY <1>0, <1>8, AbortMoves, EndMoves, ProceedMoves DEF DeleteItem, At, Asked, TxType
<1>9. CASE ClaimLockGuest(t)
  BY <1>0, <1>9, AbortMoves, EndMoves, ProceedMoves DEF ClaimLockGuest, At, Asked, TxType
<1>10. CASE ClaimLockItem(t)
  BY <1>0, <1>10, AbortMoves, EndMoves, ProceedMoves DEF ClaimLockItem, At, Asked, TxType
<1>11. CASE ClaimDropGuest(t)
  BY <1>0, <1>11, AbortMoves, EndMoves, ProceedMoves DEF ClaimDropGuest, At, Asked, TxType
<1>12. CASE CheckForeignKey(t)
  <2>1. CASE Abort(t)
    BY <2>1, AbortMoves
  <2>2. CASE /\ tx' = [tx EXCEPT ![t].fk = Tail(@)] /\ UNCHANGED held
             /\ \E r : shared' = [shared EXCEPT ![t] = @ \cup {r}]
    <3>1. tx' = [tx EXCEPT ![t] = [x EXCEPT !.fk = Tail(x.fk)]]
      BY <1>0, <2>2
    <3>2. x.op.kind # "status" /\ x.pc = "commit"
      BY <1>12 DEF CheckForeignKey, At
    <3>3. \A u \in Txn \ {t} : tx'[u] = tx[u]
      BY <1>0, <3>1
    <3>4. \A u \in Txn \ {t} : held'[u] = held[u] /\ shared'[u] = shared[u]
      BY <2>2 DEF IInv, TypeOK
    <3>5. tx'[t].op = x.op /\ tx'[t].pc = x.pc
      BY <1>0, <3>1 DEF TxType
    <3> QED
      BY <3>2, <3>3, <3>4, <3>5 DEF Moves, Asked
  <2> QED
    BY <1>12, <2>1, <2>2 DEF CheckForeignKey
<1>13. CASE CommitCart(t)
  BY <1>0, <1>13, AbortMoves, EndMoves, ProceedMoves DEF CommitCart, At, Asked, TxType
<1> QED
  BY <1>1, <1>2, <1>3, <1>4, <1>5, <1>6, <1>7, <1>8, <1>9, <1>10, <1>11, <1>12, <1>13

LEMMA OrderMoves ==
  ASSUME IInv, NEW t \in Txn,
         \/ FindOrder(t) \/ CheckoutLockCart(t) \/ CheckoutLockItem(t) \/ LockNextProduct(t)
         \/ InsertOrder(t) \/ CommitOrder(t) \/ CancelLockOrder(t) \/ CommitCancel(t)
         \/ StatusLockOrder(t) \/ CommitStatus(t) \/ EditReadProduct(t) \/ EditSaveProduct(t)
  PROVE  Moves(t)
<1> DEFINE x == tx[t]
<1>0. x \in TxType /\ x.op \in Op /\ tx \in [Txn -> TxType]
  BY TxTypes DEF IInv, TypeOK
<1>1. CASE FindOrder(t)
  BY <1>0, <1>1, AbortMoves, EndMoves, ProceedMoves DEF FindOrder, At, Asked, TxType
<1>2. CASE CheckoutLockCart(t)
  BY <1>0, <1>2, AbortMoves, EndMoves, ProceedMoves DEF CheckoutLockCart, At, Asked, TxType
<1>3. CASE CheckoutLockItem(t)
  BY <1>0, <1>3, AbortMoves, EndMoves, ProceedMoves DEF CheckoutLockItem, At, Asked, TxType
<1>4. CASE LockNextProduct(t)
  BY <1>0, <1>4, AbortMoves, EndMoves, ProceedMoves DEF LockNextProduct, At, Asked, TxType
<1>5. CASE InsertOrder(t)
  BY <1>0, <1>5, AbortMoves, EndMoves, ProceedMoves DEF InsertOrder, At, Asked, TxType
<1>6. CASE CommitOrder(t)
  BY <1>0, <1>6, AbortMoves, EndMoves, ProceedMoves DEF CommitOrder, At, Asked, TxType
<1>7. CASE CancelLockOrder(t)
  BY <1>0, <1>7, AbortMoves, EndMoves, ProceedMoves DEF CancelLockOrder, At, Asked, TxType
<1>8. CASE CommitCancel(t)
  BY <1>0, <1>8, AbortMoves, EndMoves, ProceedMoves DEF CommitCancel, At, Asked, TxType
<1>9. CASE StatusLockOrder(t)
  BY <1>0, <1>9, AbortMoves, EndMoves, ProceedMoves DEF StatusLockOrder, At, Asked, TxType
<1>10. CASE CommitStatus(t)
  BY <1>0, <1>10, AbortMoves, EndMoves, ProceedMoves DEF CommitStatus, At, Asked, TxType
<1>11. CASE EditReadProduct(t)
  BY <1>0, <1>11, AbortMoves, EndMoves, ProceedMoves DEF EditReadProduct, At, Asked, TxType
<1>12. CASE EditSaveProduct(t)
  BY <1>0, <1>12, AbortMoves, EndMoves, ProceedMoves DEF EditSaveProduct, At, Asked, TxType
<1> QED
  BY <1>1, <1>2, <1>3, <1>4, <1>5, <1>6, <1>7, <1>8, <1>9, <1>10, <1>11, <1>12

LEMMA StatementMoves ==
  ASSUME IInv, NEW t \in Txn, Statement(t)
  PROVE  Moves(t)
BY CartMoves, OrderMoves DEF Statement

LEMMA BeginMoves ==
  ASSUME IInv, NEW t \in Txn, Begin(t)
  PROVE  /\ \A u \in Txn \ {t} : tx'[u] = tx[u]
         /\ tx[t].pc = "idle" /\ tx'[t].pc \notin {"idle", "commit"} /\ tx'[t].op \in Ops
<1>1. PICK o \in Ops : tx' = [tx EXCEPT ![t] = [tx[t] EXCEPT !.op = o, !.at = o.product,
                                                             !.pc = FirstStatement(o.kind)]]
  BY DEF Begin, IInv, TypeOK
<1>2. o.kind \in Kind
  BY StorefrontAssumption DEF Op
<1>3. FirstStatement(o.kind) \notin {"idle", "commit"}
  BY <1>2, Zenon DEF FirstStatement, Kind
<1>4. tx[t] \in TxType /\ tx \in [Txn -> TxType]
  BY TxTypes DEF IInv, TypeOK
<1> QED
  BY <1>1, <1>3, <1>4 DEF Begin, TxType

-------------------------------------------------------------------------------
(* Counting the units that were ordered.                                   *)

\* An order's line is as many units as its quantity says.
LEMMA LineCounted ==
  ASSUME NEW i, NEW n \in Nat
  PROVE  IsFiniteSet({i} \X (1..n)) /\ Cardinality({i} \X (1..n)) = n
<1>1. IsFiniteSet({i}) /\ Cardinality({i}) = 1
  BY FS_Singleton
<1>2. IsFiniteSet(1..n) /\ Cardinality(1..n) = n
  BY FS_Interval
<1>3. /\ IsFiniteSet({i} \X (1..n))
      /\ Cardinality({i} \X (1..n)) = Cardinality({i}) * Cardinality(1..n)
  BY <1>1, <1>2, FS_Product
<1> QED
  BY <1>1, <1>2, <1>3

LEMMA DisjointCount ==
  ASSUME NEW A, NEW B, IsFiniteSet(A), IsFiniteSet(B), A \cap B = {}
  PROVE  Cardinality(A \cup B) = Cardinality(A) + Cardinality(B)
<1>1. Cardinality(A) \in Nat /\ Cardinality(B) \in Nat /\ Cardinality(A \cap B) = 0
  BY FS_CardinalityType, FS_EmptySet
<1>2. Cardinality(A \cup B) = Cardinality(A) + Cardinality(B) - Cardinality(A \cap B)
  BY FS_Union
<1> QED
  BY <1>1, <1>2

LEMMA UnitsArePairs ==
  ASSUME NEW p, NEW s, NEW u \in OrderedUnits(p, s)
  PROVE  u = <<u[1], u[2]>> /\ u[1] \in Confirmed(s)
BY DEF OrderedUnits

LEMMA UnitsFinite ==
  ASSUME NEW p \in Product, NEW s \in Seq(Order)
  PROVE  IsFiniteSet(OrderedUnits(p, s)) /\ UnitsOrdered(p, s) \in Nat
<1> DEFINE line == [i \in Confirmed(s) |-> {i} \X (1..s[i].lines[p])]
           Lines == {line[i] : i \in Confirmed(s)}
<1>1. Len(s) \in Nat /\ Confirmed(s) \in SUBSET (1..Len(s))
  BY DEF Confirmed
<1>2. IsFiniteSet(Confirmed(s))
  <2>1. IsFiniteSet(1..Len(s))
    BY <1>1, FS_Interval
  <2> QED
    BY <1>1, <2>1, FS_Subset
<1>3. \A i \in Confirmed(s) : line[i] = {i} \X (1..s[i].lines[p]) /\ s[i].lines[p] \in Nat
  <2>1. \A i \in Confirmed(s) : s[i] \in Order
    BY <1>1
  <2> QED
    BY <2>1 DEF Order
<1>4. line \in Surjection(Confirmed(s), Lines)
  BY DEF Surjection
<1>5. UNION Lines = OrderedUnits(p, s)
  BY DEF OrderedUnits
<1> HIDE DEF line
<1>6. \A i \in Confirmed(s) : IsFiniteSet(line[i])
  <2> SUFFICES ASSUME NEW i \in Confirmed(s) PROVE IsFiniteSet(line[i])
    OBVIOUS
  <2>1. IsFiniteSet({i} \X (1..s[i].lines[p]))
    BY <1>3, LineCounted
  <2> QED
    BY <1>3, <2>1
<1>7. IsFiniteSet(Lines)
  BY <1>2, <1>4, FS_Surjection
<1>8. IsFiniteSet(UNION Lines)
  BY <1>6, <1>7, FS_UNION
<1> QED
  BY <1>5, <1>8, FS_CardinalityType DEF UnitsOrdered

\* A placed order adds the units of its line.
LEMMA PlacedUnits ==
  ASSUME NEW p \in Product, NEW s \in Seq(Order), NEW r \in Order, r.status = "confirmed"
  PROVE  UnitsOrdered(p, Append(s, r)) = UnitsOrdered(p, s) + r.lines[p]
<1> DEFINE n == Len(s) + 1
           z == Append(s, r)
           new == {n} \X (1..r.lines[p])
<1>1. Len(s) \in Nat /\ r.lines[p] \in Nat
  BY DEF Order
<1>2. /\ Len(z) = n /\ z[n] = r /\ \A i \in 1..Len(s) : z[i] = s[i]
      /\ \A i : i \in 1..n <=> i \in 1..Len(s) \/ i = n
  BY <1>1
<1>3. n \notin 1..Len(s)
  BY <1>1
<1> HIDE DEF n, z
<1>4. Confirmed(z) = Confirmed(s) \cup {n}
  BY <1>2 DEF Confirmed
<1>5. n \notin Confirmed(s) /\ Confirmed(s) \subseteq 1..Len(s)
  BY <1>3 DEF Confirmed
<1>6. OrderedUnits(p, z) = OrderedUnits(p, s) \cup new
  BY <1>2, <1>4, <1>5 DEF OrderedUnits
<1>7. OrderedUnits(p, s) \cap new = {}
  BY <1>5, UnitsArePairs
<1>8. IsFiniteSet(OrderedUnits(p, s)) /\ UnitsOrdered(p, s) \in Nat
  BY UnitsFinite
<1>9. IsFiniteSet(new) /\ Cardinality(new) = r.lines[p]
  BY <1>1, LineCounted
<1> QED
  BY <1>6, <1>7, <1>8, <1>9, DisjointCount DEF UnitsOrdered, z

\* An order that is cancelled gives up the units of its line.
LEMMA CancelledUnits ==
  ASSUME NEW p \in Product, NEW s \in Seq(Order), NEW i \in 1..Len(s), s[i].status = "confirmed",
         NEW z, z = [s EXCEPT ![i].status = "cancelled"]
  PROVE  UnitsOrdered(p, s) = UnitsOrdered(p, z) + s[i].lines[p]
<1> DEFINE old == {i} \X (1..s[i].lines[p])
<1>1. s[i] \in Order /\ s[i].lines[p] \in Nat
  <2>1. s[i] \in Order
    OBVIOUS
  <2> QED
    BY <2>1 DEF Order
<1>2. z \in Seq(Order) /\ Len(z) = Len(s)
  <2>1. [s[i] EXCEPT !.status = "cancelled"] \in Order
    BY <1>1 DEF Order, Status
  <2> QED
    BY <2>1
<1>3. /\ z[i].status = "cancelled"
      /\ \A j \in 1..Len(s) : j # i => z[j] = s[j]
  BY <1>1 DEF Order
<1>4. Confirmed(z) = Confirmed(s) \ {i} /\ i \in Confirmed(s)
  BY <1>2, <1>3 DEF Confirmed
<1>5. \A j \in Confirmed(z) : z[j] = s[j]
  BY <1>2, <1>3, <1>4 DEF Confirmed
<1>6. OrderedUnits(p, s) = OrderedUnits(p, z) \cup old
  <2> DEFINE line(j) == {j} \X (1..s[j].lines[p])
  <2>1. OrderedUnits(p, z) = UNION {line(j) : j \in Confirmed(z)}
    BY <1>5 DEF OrderedUnits
  <2>2. OrderedUnits(p, s) = UNION {line(j) : j \in Confirmed(s)}
    BY DEF OrderedUnits
  <2>3. old = line(i)
    OBVIOUS
  <2> HIDE DEF line, old
  <2> QED
    BY <1>4, <2>1, <2>2, <2>3
<1>7. OrderedUnits(p, z) \cap old = {}
  BY <1>4, UnitsArePairs
<1>8. IsFiniteSet(OrderedUnits(p, z)) /\ UnitsOrdered(p, z) \in Nat
  BY <1>2, UnitsFinite
<1>9. IsFiniteSet(old) /\ Cardinality(old) = s[i].lines[p]
  BY <1>1, LineCounted
<1> HIDE DEF old
<1> QED
  BY <1>6, <1>7, <1>8, <1>9, DisjointCount DEF UnitsOrdered

\* A change of its stage leaves an order its units.
LEMMA SameUnits ==
  ASSUME NEW p \in Product, NEW s \in Seq(Order), NEW i \in 1..Len(s), NEW r \in Order,
         r.status = s[i].status, r.lines = s[i].lines, NEW z, z = [s EXCEPT ![i] = r]
  PROVE  UnitsOrdered(p, z) = UnitsOrdered(p, s)
<1>1. /\ Len(z) = Len(s) /\ z[i] = r
      /\ \A j \in 1..Len(s) : j # i => z[j] = s[j]
  OBVIOUS
<1>2. Confirmed(z) = Confirmed(s)
  BY <1>1 DEF Confirmed
<1>3. \A j \in Confirmed(s) : z[j].lines = s[j].lines
  BY <1>1 DEF Confirmed
<1> QED
  BY <1>2, <1>3 DEF UnitsOrdered, OrderedUnits

\* The units of p in stock and in confirmed orders.
Units(p) == stock[p] + UnitsOrdered(p, orders)

\* The steps that do not save a product neither make units nor lose them.
LEMMA UnitsMove ==
  ASSUME IInv, [Next]_vars, \A t \in Txn : ~ EditSaveProduct(t), NEW p \in Product
  PROVE  Units(p)' = Units(p)
<1>0. stock[p] \in Nat /\ orders \in Seq(Order) /\ UnitsOrdered(p, orders) \in Nat
  BY UnitsFinite DEF IInv, TypeOK
<1>1. CASE UNCHANGED <<stock, orders>>
  BY <1>1 DEF Units
<1>2. ASSUME NEW t \in Txn, CommitOrder(t) PROVE Units(p)' = Units(p)
  <2> DEFINE x == tx[t]
             r == NewOrder(x.op.key, x.op.who, x.seen)
  <2>1. r \in Order
    BY TxTypes, NewOrderType
  <2>2. r.status = "confirmed" /\ r.lines = x.seen
    BY DEF NewOrder
  <2>3. /\ x.seen[p] <= stock[p]
        /\ stock' = [q \in Product |-> stock[q] - x.seen[q]]
    BY <1>2, CommitOrderStock
  <2>4. orders' = Append(orders, r)
    BY <1>2 DEF CommitOrder
  <2> HIDE DEF r
  <2>5. UnitsOrdered(p, orders') = UnitsOrdered(p, orders) + x.seen[p]
    BY <1>0, <2>1, <2>2, <2>4, PlacedUnits
  <2>6. x.seen[p] \in Nat /\ stock'[p] = stock[p] - x.seen[p]
    BY <2>3, TxTypes
  <2> QED
    BY <1>0, <2>5, <2>6 DEF Units
<1>3. ASSUME NEW t \in Txn, CommitCancel(t) PROVE Units(p)' = Units(p)
  <2> DEFINE i == tx[t].op.order
  <2>1. i \in 1..Len(orders) /\ orders[i] \in Order /\ orders[i].status = "confirmed"
    BY <1>3, CommitCancelFacts
  <2>2. orders[i].lines[p] \in Nat
    BY <2>1 DEF Order
  <2>3. orders' = [orders EXCEPT ![i].status = "cancelled"]
    BY <1>3 DEF CommitCancel
  <2>4. stock'[p] = stock[p] + orders[i].lines[p]
    BY <1>3, CommitCancelStock
  <2>5. orders' \in Seq(Order)
    BY <1>3, CommitCancelSafe DEF IInv, TypeOK
  <2> HIDE DEF i
  <2>6. UnitsOrdered(p, orders) = UnitsOrdered(p, orders') + orders[i].lines[p]
    BY <1>0, <2>1, <2>3, CancelledUnits
  <2>7. UnitsOrdered(p, orders') \in Nat
    BY <2>5, UnitsFinite
  <2> QED
    BY <1>0, <2>2, <2>4, <2>6, <2>7 DEF Units
<1>4. ASSUME NEW t \in Txn, CommitStatus(t) PROVE Units(p)' = Units(p)
  <2> DEFINE i == tx[t].op.order
             r == [orders[i] EXCEPT !.fulfil = tx[t].row.fulfil]
  <2>1. /\ i \in 1..Len(orders) /\ orders[i] \in Order /\ tx[t].row.fulfil \in Fulfilment
        /\ orders' = [orders EXCEPT ![i] = r]
    BY <1>4, CommitStatusFacts
  <2>2. r \in Order /\ r.status = orders[i].status /\ r.lines = orders[i].lines
    BY <2>1 DEF Order
  <2> HIDE DEF i, r
  <2>3. UnitsOrdered(p, orders') = UnitsOrdered(p, orders)
    BY <1>0, <2>1, <2>2, SameUnits
  <2>4. UNCHANGED stock
    BY <1>4 DEF CommitStatus
  <2> QED
    BY <2>3, <2>4 DEF Units
<1> QED
  BY FourCommits, <1>1, <1>2, <1>3, <1>4

\* Whatever the requests do, only a save of the product form changes how many units there
\* are: no checkout, cancellation or abort sells a unit twice, restocks it twice or loses it.
THEOREM OnlySavesChangeUnits ==
  Spec => [][(\E t \in Txn : EditSaveProduct(t)) \/ \A p \in Product : Units(p)' = Units(p)]_vars
<1>1. IInv /\ [Next]_vars =>
        (\E t \in Txn : EditSaveProduct(t)) \/ \A p \in Product : Units(p)' = Units(p)
  BY UnitsMove
<1> QED
  BY <1>1, Invariance, PTL DEF Spec

\* A request works on an operation that a client issued.
OpsIssued == \A t \in Txn : tx[t].op \in Ops

LEMMA IdleOp == Idle.op \in Ops
BY StorefrontAssumption DEF Idle

LEMMA OpsStep == ASSUME IInv, OpsIssued, [Next]_vars PROVE OpsIssued'
<1>1. CASE UNCHANGED vars
  BY <1>1 DEF vars, OpsIssued
<1>2. ASSUME NEW t \in Txn, Begin(t) PROVE OpsIssued'
  BY <1>2, BeginMoves DEF OpsIssued
<1>3. ASSUME NEW t \in Txn, Statement(t) PROVE OpsIssued'
  BY <1>3, StatementMoves, IdleOp DEF OpsIssued, Moves
<1>4. ASSUME NEW t \in Txn, DeadlockVictim(t) \/ WorkerDies(t) PROVE OpsIssued'
  BY <1>4, AbortMoves, IdleOp DEF DeadlockVictim, WorkerDies, OpsIssued, Moves, Asked, Idle
<1> QED
  BY <1>1, <1>2, <1>3, <1>4 DEF Next

LEMMA OpsInvariance == Spec => []OpsIssued
<1>1. Init => OpsIssued
  BY IdleOp DEF Init, OpsIssued
<1>2. IInv /\ OpsIssued /\ [Next]_vars => OpsIssued'
  BY OpsStep
<1> QED
  BY <1>1, <1>2, Invariance, PTL DEF Spec

\* Whatever checkouts, cancellations and status changes interleave, in which numbers, the
\* units in stock and in confirmed orders are those of the start, as long as the merchant
\* saves no product (a save writes back the stock it read).
THEOREM UnitsConserved ==
  ASSUME \A o \in Ops : o.kind # "edit"
  PROVE  Spec => []StockConserved
<1>1. Init => StockConserved
  BY DEF Init, StockConserved
<1>2. IInv /\ OpsIssued /\ StockConserved /\ [Next]_vars => StockConserved'
  <2> SUFFICES ASSUME IInv, OpsIssued, StockConserved, [Next]_vars
               PROVE  StockConserved'
    OBVIOUS
  <2>1. \A t \in Txn : ~ EditSaveProduct(t)
    BY DEF OpsIssued, EditSaveProduct, At
  <2>2. \A p \in Product : Units(p)' = Units(p)
    BY <2>1, UnitsMove
  <2> QED
    BY <2>2 DEF StockConserved, Units
<1> QED
  BY <1>1, <1>2, Invariance, OpsInvariance, PTL DEF Spec

-------------------------------------------------------------------------------
(* Waiting.                                                                *)

\* The requests that lock in one order: the cart or the order, the items of the cart, the
\* products by Meta.ordering, the key of the order.  Adds and claims do not.
OrderKinds == Kind \ {"add", "claim"}

\* The statements before the first lock.
NoLocksYet ==
  {"idle", "findOrder", "readCart", "lockCart", "lockItem", "deleteItem", "lockOrder",
   "readProduct", "saveProduct"}

\* What a request with record x has locked stands before what it locks next; items are of
\* its own cart, and a checkout has that cart locked before its first item.
LockOrder(x, rows) ==
  /\ x.fk = <<>>
  /\ x.pc \in NoLocksYet
               \cup {"lockItems", "lockProduct", "lockProducts", "insertOrder", "commit"}
  /\ x.pc \in NoLocksYet => rows = {}
  /\ \A r \in rows : r[1] = "item" => r[2] = x.op.who
  /\ x.pc = "lockProduct" => \A r \in rows : r[1] = "item"
  /\ x.pc = "lockItems" => CartRow(x.op.who) \in rows /\ \A r \in rows : r[1] # "product"
  /\ x.pc = "lockProducts" => \A r \in rows, p \in x.todo : r[1] = "product" => r[2] < p
  /\ \A r \in rows : r[1] = "key" => x.pc = "commit"

LocksOrdered ==
  \A t \in Txn : tx[t].pc = "idle" \/ tx[t].op.kind \in OrderKinds =>
                   shared[t] = {} /\ LockOrder(tx[t], held[t])

LEMMA RowNames ==
  /\ \A p : ProductRow(p)[1] = "product" /\ ProductRow(p)[2] = p
  /\ \A o : CartRow(o)[1] = "cart"
  /\ \A o, n, p : ItemRow(o, n, p)[1] = "item" /\ ItemRow(o, n, p)[2] = o
  /\ \A i : OrderRow(i)[1] = "order"
  /\ \A k : KeyRow(k)[1] = "key"
BY DEF ProductRow, CartRow, ItemRow, OrderRow, KeyRow

LEMMA IdleOrder == LockOrder(Idle, {})
BY DEF LockOrder, Idle, NoLocksYet

LEMMA ProceedOrder ==
  ASSUME IInv, LocksOrdered, NEW t \in Txn, NEW y, Proceed(t, y), tx[t].op.kind \in OrderKinds,
         LockOrder(y, held[t] \cup NextLock(t))
  PROVE  LocksOrdered'
<1>1. tx' = [tx EXCEPT ![t] = y] /\ held' = [held EXCEPT ![t] = @ \cup NextLock(t)]
  BY DEF Proceed
<1>2. UNCHANGED shared
  BY DEF Proceed
<1> QED
  BY <1>1, <1>2 DEF LocksOrdered, IInv, TypeOK

LEMMA EndOrder ==
  ASSUME IInv, LocksOrdered, NEW t \in Txn, End(t)
  PROVE  LocksOrdered'
BY IdleOrder DEF End, LocksOrdered, IInv, TypeOK

LEMMA AbortOrder ==
  ASSUME IInv, LocksOrdered, NEW t \in Txn, Abort(t)
  PROVE  LocksOrdered'
BY EndOrder DEF Abort

\* What an add or a claim has locked does not matter here.
LEMMA CartRequestOrder ==
  ASSUME IInv, LocksOrdered, NEW t \in Txn, tx[t].op.kind \notin OrderKinds, Statement(t)
  PROVE  LocksOrdered'
BY StatementMoves, IdleOrder DEF LocksOrdered, Moves


LEMMA EmptyOrder ==
  ASSUME NEW x, x.fk = <<>>, x.pc \in NoLocksYet
  PROVE  LockOrder(x, {})
BY DEF LockOrder, NoLocksYet

\* A statement that locks nothing before the first lock.
LEMMA FirstReadsOrder ==
  ASSUME IInv, LocksOrdered, NEW t \in Txn, tx[t].op.kind \in OrderKinds,
         FindOrder(t) \/ ReadCart(t) \/ EditReadProduct(t)
  PROVE  LocksOrdered'
<1> DEFINE x == tx[t]
<1>1. x \in TxType /\ LockOrder(x, held[t])
  BY TxTypes DEF LocksOrdered
<1>2. x.pc \in {"findOrder", "readCart", "readProduct"} /\ x.op.kind \notin {"add", "claim"}
  BY DEF FindOrder, ReadCart, EditReadProduct, At, OrderKinds
<1>3. held[t] = {} /\ NextLock(t) = {} /\ x.fk = <<>>
  BY <1>1, <1>2, NextLockAt DEF LockOrder, NoLocksYet
<1>4. ASSUME NEW y, Proceed(t, y), y.op = x.op, y.fk = x.fk, y.pc \in NoLocksYet
      PROVE  LocksOrdered'
  BY <1>3, <1>4, ProceedOrder, EmptyOrder
<1>5. CASE FindOrder(t)
  <2> DEFINE y == [x EXCEPT !.pc = "readCart"]
  <2>1. y.op = x.op /\ y.fk = x.fk /\ y.pc \in NoLocksYet
    BY <1>1 DEF TxType, NoLocksYet
  <2>2. Abort(t) \/ Proceed(t, y)
    BY <1>5 DEF FindOrder
  <2> QED
    BY <1>4, <2>1, <2>2, AbortOrder
<1>6. CASE ReadCart(t)
  <2> DEFINE y(pc) == [x EXCEPT !.mine = cart[x.op.who], !.pc = pc]
  <2>1. \A pc \in {"lockItem", "deleteItem", "lockCart"} :
          y(pc).op = x.op /\ y(pc).fk = x.fk /\ y(pc).pc \in NoLocksYet
    BY <1>1 DEF TxType, NoLocksYet
  <2>2. x.op.kind \in {"patch", "delete", "checkout"}
    BY <1>2, <1>6 DEF ReadCart, At
  <2>3. Abort(t) \/ \E pc \in {"lockItem", "deleteItem", "lockCart"} : Proceed(t, y(pc))
    <3>1. CASE x.op.kind = "patch"
      BY <1>6, <3>1 DEF ReadCart
    <3>2. CASE x.op.kind = "delete"
      BY <1>6, <3>2 DEF ReadCart
    <3>3. CASE x.op.kind = "checkout"
      BY <1>6, <3>3 DEF ReadCart
    <3> QED
      BY <2>2, <3>1, <3>2, <3>3
  <2> HIDE DEF y
  <2> QED
    BY <1>4, <2>1, <2>3, AbortOrder
<1>7. CASE EditReadProduct(t)
  <2> DEFINE p == x.op.product
             y == [x EXCEPT !.stk[p] = stock[p], !.act = active[p], !.pc = "saveProduct"]
  <2>1. y.op = x.op /\ y.fk = x.fk /\ y.pc \in NoLocksYet
    BY <1>1 DEF TxType, NoLocksYet
  <2>2. Proceed(t, y)
    BY <1>7 DEF EditReadProduct
  <2> QED
    BY <1>4, <2>1, <2>2
<1> QED
  BY <1>5, <1>6, <1>7

\* The cart with its key comes first.
LEMMA CheckoutLockCartOrder ==
  ASSUME IInv, LocksOrdered, NEW t \in Txn, CheckoutLockCart(t)
  PROVE  LocksOrdered'
<1> DEFINE x == tx[t]
           o == x.op.who
           lines == {p \in Product : Quantity(o, x.mine, p) > 0}
<1>1. x \in TxType /\ x.op.kind = "checkout" /\ x.pc = "lockCart"
  BY TxTypes DEF CheckoutLockCart, At
<1>2. held[t] = {} /\ x.fk = <<>>
  BY <1>1 DEF LocksOrdered, LockOrder, NoLocksYet, OrderKinds, Kind
<1>3. CASE Abort(t)
  BY <1>3, AbortOrder
<1>4. ASSUME NEW p \in lines, Proceed(t, [x EXCEPT !.todo = lines, !.at = p, !.pc = "lockItems"])
      PROVE  LocksOrdered'
  <2> DEFINE y == [x EXCEPT !.todo = lines, !.at = p, !.pc = "lockItems"]
  <2>1. NextLock(t) = {CartRow(o)}
    <3>1. cart[o] = x.mine
      BY <1>4 DEF Quantity
    <3> QED
      BY <1>1, <3>1, NextLockAt DEF CartLock
  <2>2. y.op = x.op /\ y.fk = <<>> /\ y.pc = "lockItems"
    BY <1>1, <1>2 DEF TxType
  <2> HIDE DEF y
  <2>3. LockOrder(y, {CartRow(o)})
    BY <2>2, RowNames DEF LockOrder, NoLocksYet
  <2> QED
    BY <1>1, <1>2, <1>4, <2>1, <2>2, <2>3, ProceedOrder DEF y, OrderKinds, Kind
<1> QED
  BY <1>3, <1>4 DEF CheckoutLockCart

\* Its items follow.
LEMMA CheckoutLockItemOrder ==
  ASSUME IInv, LocksOrdered, NEW t \in Txn, CheckoutLockItem(t)
  PROVE  LocksOrdered'
<1> DEFINE x == tx[t]
           o == x.op.who
           rows == held[t] \cup NextLock(t)
<1>1. x \in TxType /\ x.op.kind = "checkout" /\ x.pc = "lockItems"
  BY TxTypes DEF CheckoutLockItem, At
<1>2. LockOrder(x, held[t])
  BY <1>1 DEF LocksOrdered, OrderKinds, Kind
<1>3. \A r \in NextLock(t) : r[1] = "item" /\ r[2] = o
  BY <1>1, NextLockAt, RowNames DEF ItemLock
<1>4. /\ CartRow(o) \in rows /\ x.fk = <<>>
      /\ \A r \in rows : r[1] = "item" => r[2] = o
      /\ \A r \in rows : r[1] # "product" /\ r[1] # "key"
  BY <1>1, <1>2, <1>3 DEF LockOrder
<1>5. ASSUME NEW y, Proceed(t, y), y.op = x.op, y.fk = x.fk, y.pc \in {"lockItems", "lockProducts"}
      PROVE  LocksOrdered'
  <2>1. LockOrder(y, rows)
    BY <1>4, <1>5 DEF LockOrder, NoLocksYet
  <2> QED
    BY <1>1, <1>5, <2>1, ProceedOrder DEF OrderKinds, Kind
<1> DEFINE left == x.todo \ {x.at}
           read == [x EXCEPT !.todo = left, !.seen[x.at] = Quantity(o, x.mine, x.at)]
           lines == {p \in Product : read.seen[p] > 0}
           next == [read EXCEPT !.todo = lines, !.pc = "lockProducts"]
<1>6. next.op = x.op /\ next.fk = x.fk /\ next.pc = "lockProducts"
  BY <1>1 DEF TxType
<1>7. \A p : [read EXCEPT !.at = p].op = x.op /\ [read EXCEPT !.at = p].fk = x.fk
             /\ [read EXCEPT !.at = p].pc = "lockItems"
  BY <1>1 DEF TxType
<1>8. Abort(t) \/ (\E p \in left : Proceed(t, [read EXCEPT !.at = p])) \/ Proceed(t, next)
  BY DEF CheckoutLockItem
<1> HIDE DEF left, read, next
<1> QED
  BY <1>5, <1>6, <1>7, <1>8, AbortOrder

\* The products by Meta.ordering.
LEMMA LockNextProductOrder ==
  ASSUME IInv, LocksOrdered, NEW t \in Txn, LockNextProduct(t)
  PROVE  LocksOrdered'
<1> DEFINE x == tx[t]
           rows == held[t] \cup NextLock(t)
           done == IF x.op.kind = "checkout" THEN "insertOrder" ELSE "commit"
<1>1. x \in TxType /\ x.op.kind \in OrderKinds /\ x.pc = "lockProducts" /\ x.todo \subseteq Nat
  BY TxTypes, StorefrontAssumption DEF LockNextProduct, At, OrderKinds, Kind
<1>2. LockOrder(x, held[t])
  BY <1>1 DEF LocksOrdered
<1>3. PICK p \in First(t) : Proceed(t, [x EXCEPT !.stk[p] = stock[p], !.todo = @ \ {p},
                                                 !.pc = IF x.todo = {p} THEN done ELSE @])
  BY DEF LockNextProduct
<1> DEFINE y == [x EXCEPT !.stk[p] = stock[p], !.todo = @ \ {p},
                          !.pc = IF x.todo = {p} THEN done ELSE @]
<1>4. /\ y.op = x.op /\ y.fk = x.fk /\ y.todo = x.todo \ {p}
      /\ y.pc \in {"lockProducts", "insertOrder", "commit"}
  BY <1>1 DEF TxType
<1>5. First(t) = {p} /\ p \in x.todo /\ \A q \in x.todo : p <= q
  BY <1>1, <1>3 DEF First
<1>6. NextLock(t) = {ProductRow(p)}
  BY <1>1, <1>5, NextLockAt DEF ProductLock
<1> HIDE DEF y
<1>7. \A r \in rows : r[1] = "item" => r[2] = x.op.who
  BY <1>2, <1>6, RowNames DEF LockOrder
<1>8. \A r \in rows, q \in y.todo : r[1] = "product" => r[2] < q
  BY <1>1, <1>2, <1>4, <1>5, <1>6, RowNames DEF LockOrder
<1>9. \A r \in rows : r[1] # "key"
  BY <1>1, <1>2, <1>6, RowNames DEF LockOrder
<1>10. LockOrder(y, rows)
  BY <1>2, <1>4, <1>7, <1>8, <1>9 DEF LockOrder, NoLocksYet
<1> QED
  BY <1>1, <1>3, <1>4, <1>10, ProceedOrder DEF y

\* The key of the order comes last.
LEMMA InsertOrderOrder ==
  ASSUME IInv, LocksOrdered, NEW t \in Txn, InsertOrder(t)
  PROVE  LocksOrdered'
<1> DEFINE x == tx[t]
           rows == held[t] \cup NextLock(t)
           y == [x EXCEPT !.pc = "commit"]
<1>1. x \in TxType /\ x.op.kind = "checkout" /\ x.pc = "insertOrder"
  BY TxTypes DEF InsertOrder, At
<1>2. LockOrder(x, held[t])
  BY <1>1 DEF LocksOrdered, OrderKinds, Kind
<1>3. \A r \in NextLock(t) : r[1] = "key"
  BY <1>1, NextLockAt, RowNames DEF OrderKeyLock
<1>4. y.op = x.op /\ y.fk = x.fk /\ y.pc = "commit"
  BY <1>1 DEF TxType
<1> HIDE DEF y
<1>5. LockOrder(y, rows)
  BY <1>2, <1>3, <1>4 DEF LockOrder, NoLocksYet
<1> QED
  BY <1>1, <1>4, <1>5, AbortOrder, ProceedOrder DEF InsertOrder, OrderKinds, Kind, y

\* A cancellation or a status change locks its order before anything else.
LEMMA LockOrderFirst ==
  ASSUME IInv, LocksOrdered, NEW t \in Txn, CancelLockOrder(t) \/ StatusLockOrder(t)
  PROVE  LocksOrdered'
<1> DEFINE x == tx[t]
<1>1. x \in TxType /\ x.op.kind \in OrderKinds /\ x.pc = "lockOrder"
  BY TxTypes DEF CancelLockOrder, StatusLockOrder, At, OrderKinds, Kind
<1>2. held[t] = {} /\ x.fk = <<>>
  BY <1>1 DEF LocksOrdered, LockOrder, NoLocksYet
<1>3. \A r \in held[t] \cup NextLock(t) : r[1] = "order"
  BY <1>1, <1>2, NextLockAt, RowNames DEF OrderLock
<1>4. ASSUME NEW y, Proceed(t, y), y.op = x.op, y.fk = x.fk, y.pc \in {"lockProducts", "commit"}
      PROVE  LocksOrdered'
  <2>1. LockOrder(y, held[t] \cup NextLock(t))
    BY <1>2, <1>3, <1>4 DEF LockOrder, NoLocksYet
  <2> QED
    BY <1>1, <1>4, <2>1, ProceedOrder
<1>5. CASE CancelLockOrder(t)
  <2> DEFINE lines == {p \in Product : orders[x.op.order].lines[p] > 0}
             y == [x EXCEPT !.todo = lines, !.pc = IF lines = {} THEN "commit" ELSE "lockProducts"]
  <2>1. y.op = x.op /\ y.fk = x.fk /\ y.pc \in {"lockProducts", "commit"}
    BY <1>1 DEF TxType
  <2>2. Abort(t) \/ Proceed(t, y)
    BY <1>5 DEF CancelLockOrder
  <2> QED
    BY <1>4, <2>1, <2>2, AbortOrder
<1>6. CASE StatusLockOrder(t)
  <2> DEFINE y == [x EXCEPT !.row = [status |-> orders[x.op.order].status, fulfil |-> x.op.to],
                            !.pc = "commit"]
  <2>1. y.op = x.op /\ y.fk = x.fk /\ y.pc \in {"lockProducts", "commit"}
    BY <1>1 DEF TxType
  <2>2. Abort(t) \/ Proceed(t, y)
    BY <1>6 DEF StatusLockOrder
  <2> QED
    BY <1>4, <2>1, <2>2, AbortOrder
<1> QED
  BY <1>5, <1>6

\* A PATCH locks its item before anything else, then its product and nothing after that.
LEMMA PatchOrder ==
  ASSUME IInv, LocksOrdered, NEW t \in Txn, PatchLockItem(t) \/ PatchLockProduct(t)
  PROVE  LocksOrdered'
<1> DEFINE x == tx[t]
           rows == held[t] \cup NextLock(t)
<1>1. x \in TxType /\ x.op.kind \in OrderKinds /\ x.op.kind = "patch"
  BY TxTypes DEF PatchLockItem, PatchLockProduct, At, OrderKinds, Kind
<1>2. LockOrder(x, held[t])
  BY <1>1 DEF LocksOrdered
<1>3. CASE PatchLockItem(t)
  <2> DEFINE y == [x EXCEPT !.pc = "lockProduct"]
  <2>1. x.pc = "lockItem" /\ held[t] = {} /\ x.fk = <<>>
    BY <1>2, <1>3 DEF PatchLockItem, At, LockOrder, NoLocksYet
  <2>2. \A r \in rows : r[1] = "item" /\ r[2] = x.op.who
    BY <2>1, NextLockAt, RowNames DEF ItemLock
  <2>3. y.op = x.op /\ y.fk = <<>> /\ y.pc = "lockProduct"
    BY <1>1, <2>1 DEF TxType
  <2>4. Abort(t) \/ Proceed(t, y)
    BY <1>3 DEF PatchLockItem
  <2> HIDE DEF y
  <2>5. LockOrder(y, rows)
    BY <2>2, <2>3 DEF LockOrder, NoLocksYet
  <2> QED
    BY <1>1, <2>4, <2>5, AbortOrder, ProceedOrder
<1>4. CASE PatchLockProduct(t)
  <2> DEFINE p == x.op.product
             y == [x EXCEPT !.stk[p] = stock[p], !.put[p] = x.op.qty, !.pc = "commit"]
  <2>1. x.pc = "lockProduct"
    BY <1>4 DEF PatchLockProduct, At
  <2>2. \A r \in rows : (r[1] = "item" => r[2] = x.op.who) /\ r[1] # "key"
    BY <1>2, <2>1, NextLockAt, RowNames DEF LockOrder
  <2>3. y.op = x.op /\ y.fk = <<>> /\ y.pc = "commit"
    BY <1>1, <1>2 DEF TxType, LockOrder
  <2>4. Abort(t) \/ Proceed(t, y)
    BY <1>4 DEF PatchLockProduct
  <2> HIDE DEF y
  <2>5. LockOrder(y, rows)
    BY <2>2, <2>3 DEF LockOrder, NoLocksYet
  <2> QED
    BY <1>1, <2>4, <2>5, AbortOrder, ProceedOrder
<1> QED
  BY <1>3, <1>4

LEMMA BeginOrder ==
  ASSUME IInv, LocksOrdered, NEW t \in Txn, Begin(t)
  PROVE  LocksOrdered'
<1>1. PICK o \in Ops : tx' = [tx EXCEPT ![t] = [tx[t] EXCEPT !.op = o, !.at = o.product,
                                                             !.pc = FirstStatement(o.kind)]]
  BY DEF Begin, IInv, TypeOK
<1> DEFINE y == [tx[t] EXCEPT !.op = o, !.at = o.product, !.pc = FirstStatement(o.kind)]
<1>2. tx[t] \in TxType /\ tx \in [Txn -> TxType] /\ tx[t].pc = "idle"
  BY TxTypes DEF IInv, TypeOK, Begin
<1>3. y.op = o /\ y.fk = tx[t].fk /\ y.pc = FirstStatement(o.kind)
  BY <1>2 DEF TxType
<1>4. o.kind \in OrderKinds => y.pc \in NoLocksYet
  <2>1. o.kind \in OrderKinds => o.kind \in {"patch", "delete", "checkout", "cancel", "status", "edit"}
    BY DEF OrderKinds, Kind
  <2> QED
    BY <1>3, <2>1, Zenon DEF FirstStatement, NoLocksYet
<1>5. held[t] = {} /\ shared[t] = {} /\ tx[t].fk = <<>>
  BY <1>2 DEF LocksOrdered, LockOrder, NoLocksYet
<1>6. \A u \in Txn \ {t} : tx'[u] = tx[u]
  BY <1>1, <1>2
<1>7. tx'[t] = y /\ UNCHANGED <<held, shared>>
  BY <1>1, <1>2 DEF Begin
<1> HIDE DEF y
<1>8. y.pc # "idle"
  BY <1>7, BeginMoves
<1>9. y.op.kind \in OrderKinds => LockOrder(y, {})
  BY <1>3, <1>4, <1>5, EmptyOrder
<1> QED
  BY <1>5, <1>6, <1>7, <1>8, <1>9 DEF LocksOrdered

LEMMA OrderSteps ==
  ASSUME IInv, LocksOrdered, NEW t \in Txn, Statement(t), tx[t].op.kind \in OrderKinds
  PROVE  LocksOrdered'
<1>1. CASE FindOrder(t) \/ ReadCart(t) \/ EditReadProduct(t)
  BY <1>1, FirstReadsOrder
<1>2. CASE \/ CommitOrder(t) \/ CommitCancel(t) \/ CommitStatus(t) \/ EditSaveProduct(t)
           \/ DeleteItem(t) \/ CommitCart(t)
  BY <1>2, EndOrder
     DEF CommitOrder, CommitCancel, CommitStatus, EditSaveProduct, DeleteItem, CommitCart
<1>3. CASE \/ CheckoutLockCart(t) \/ CheckoutLockItem(t) \/ LockNextProduct(t)
           \/ InsertOrder(t) \/ CancelLockOrder(t) \/ StatusLockOrder(t)
           \/ PatchLockItem(t) \/ PatchLockProduct(t)
  BY <1>3, CheckoutLockCartOrder, CheckoutLockItemOrder, LockNextProductOrder, InsertOrderOrder,
     LockOrderFirst, PatchOrder
<1>4. CASE \/ AddLockProduct(t) \/ AddLockItem(t) \/ MakeCart(t) \/ PutItem(t)
           \/ ClaimLockGuest(t) \/ ClaimLockItem(t) \/ ClaimDropGuest(t) \/ CheckForeignKey(t)
  <2>1. tx[t].op.kind \in {"add", "claim"}
    BY <1>4 DEF AddLockProduct, AddLockItem, MakeCart, PutItem, ClaimLockGuest, ClaimLockItem,
                ClaimDropGuest, CheckForeignKey, At
  <2> QED
    BY <2>1 DEF OrderKinds
<1> QED
  BY <1>1, <1>2, <1>3, <1>4 DEF Statement

LEMMA OrderInvariance == Spec => []LocksOrdered
<1>1. Init => LocksOrdered
  BY IdleOrder DEF Init, LocksOrdered
<1>2. ASSUME IInv, LocksOrdered, [Next]_vars PROVE LocksOrdered'
  <2>1. CASE UNCHANGED vars
    BY <1>2, <2>1 DEF vars, LocksOrdered
  <2>2. ASSUME NEW t \in Txn, Begin(t) PROVE LocksOrdered'
    BY <1>2, <2>2, BeginOrder
  <2>3. ASSUME NEW t \in Txn, Statement(t) PROVE LocksOrdered'
    BY <1>2, <2>3, OrderSteps, CartRequestOrder
  <2>4. ASSUME NEW t \in Txn, DeadlockVictim(t) \/ WorkerDies(t) PROVE LocksOrdered'
    BY <1>2, <2>4, AbortOrder DEF DeadlockVictim, WorkerDies
  <2> QED
    BY <1>2, <2>1, <2>2, <2>3, <2>4 DEF Next
<1>3. IInv /\ LocksOrdered /\ [Next]_vars => LocksOrdered'
  BY <1>2
<1> QED
  BY <1>1, <1>3, Invariance, PTL DEF Spec

-------------------------------------------------------------------------------
(* No circle.                                                              *)

LEMMA LeastNumber ==
  ASSUME NEW S \in SUBSET Nat, S # {}
  PROVE  \E m \in S : \A n \in S : m <= n
<1>1. PICK m \in S : \A n \in S : <<n, m>> \notin OpToRel(<, Nat)
  BY NatLessThanWellFounded, WFMin
<1>2. \A n \in S : ~ (n < m)
  BY <1>1 DEF OpToRel
<1> QED
  BY <1>2

LEMMA OrderRequestsDontCircle ==
  ASSUME IInv, LocksOrdered, NEW S \in SUBSET Txn, S # {}, Circle(S),
         \A u \in S : tx[u].op.kind \in OrderKinds
  PROVE  FALSE
<1>1. \A u \in S : shared[u] = {} /\ LockOrder(tx[u], held[u])
  BY DEF LocksOrdered
<1>2. \A u, v \in S : v \in Blockers(u) => u # v /\ NextLock(u) \cap held[v] # {}
  BY <1>1 DEF Blockers, NextShare, LockOrder
<1>3. \A u \in S : held[u] # {} /\ NextLock(u) # {}
  BY <1>2 DEF Circle
<1>4. \A u \in S : tx[u].pc \in {"lockItems", "lockProduct", "lockProducts", "insertOrder"}
  BY <1>1, <1>3, NextLockAt DEF LockOrder
<1>5. \A u \in S : \E v \in S : u # v /\ NextLock(v) \cap held[u] # {}
  BY <1>2 DEF Circle
\* A key: the one that has it commits.
<1>6. \A u \in S : tx[u].pc # "insertOrder"
  <2> SUFFICES ASSUME NEW u \in S, tx[u].pc = "insertOrder" PROVE FALSE
    OBVIOUS
  <2>1. PICK v \in S : NextLock(u) \cap held[v] # {}
    BY <1>2 DEF Circle
  <2>2. PICK r \in NextLock(u) : r \in held[v]
    BY <2>1
  <2>3. r[1] = "key"
    BY <2>2, NextLockAt, RowNames DEF OrderKeyLock
  <2> QED
    BY <1>1, <1>4, <2>2, <2>3 DEF LockOrder
\* An item: a checkout at its items is waited for by one that has locked the same cart.
<1>7. \A u \in S : tx[u].pc # "lockItems"
  <2> SUFFICES ASSUME NEW u \in S, tx[u].pc = "lockItems" PROVE FALSE
    OBVIOUS
  <2>1. PICK v \in S : u # v /\ NextLock(v) \cap held[u] # {}
    BY <1>5
  <2>2. PICK r \in NextLock(v) : r \in held[u]
    BY <2>1
  <2>3. CASE tx[v].pc = "lockItems"
    <3>1. r[1] = "item" /\ r[2] = tx[v].op.who
      BY <2>2, <2>3, NextLockAt, RowNames DEF ItemLock
    <3>2. CartRow(r[2]) \in held[v] /\ CartRow(r[2]) \in held[u]
      BY <1>1, <2>2, <2>3, <3>1 DEF LockOrder
    <3> QED
      BY <2>1, <3>2 DEF IInv, LockDiscipline
  <2>4. CASE tx[v].pc \in {"lockProduct", "lockProducts"}
    <3>1. r[1] = "product"
      BY <2>2, <2>4, NextLockAt, RowNames DEF ProductLock
    <3> QED
      BY <1>1, <2>2, <3>1 DEF LockOrder
  <2> QED
    BY <1>4, <1>6, <2>3, <2>4
\* So nobody waits for an item, and a PATCH at its product has locked nothing else.
<1>8. \A u \in S : tx[u].pc # "lockProduct"
  <2> SUFFICES ASSUME NEW u \in S, tx[u].pc = "lockProduct" PROVE FALSE
    OBVIOUS
  <2>1. PICK v \in S : NextLock(v) \cap held[u] # {}
    BY <1>5
  <2>2. PICK r \in NextLock(v) : r \in held[u]
    BY <2>1
  <2>3. tx[v].pc \in {"lockProduct", "lockProducts"}
    BY <1>4, <1>6, <1>7
  <2>4. r[1] = "product"
    BY <2>2, <2>3, NextLockAt, RowNames DEF ProductLock
  <2> QED
    BY <1>1, <2>2, <2>4 DEF LockOrder
\* A product: the one that waits for the first of all is waited for at an earlier one.
<1>9. \A u \in S : tx[u].pc = "lockProducts" /\ NextLock(u) = {ProductRow(p) : p \in First(u)}
  BY <1>4, <1>6, <1>7, <1>8, NextLockAt DEF ProductLock
<1> DEFINE Awaited == UNION {First(u) : u \in S}
<1>10. Awaited \in SUBSET Nat /\ Awaited # {}
  <2>1. \A u \in S : First(u) \subseteq Nat
    BY TxTypes, StorefrontAssumption DEF First
  <2> QED
    BY <1>3, <1>9, <2>1
<1>11. PICK m \in Awaited : \A n \in Awaited : m <= n
  BY <1>10, LeastNumber
<1>12. PICK u \in S : m \in First(u)
  OBVIOUS
<1>13. PICK v \in S : NextLock(v) \cap held[u] # {}
  BY <1>5
<1>14. PICK q \in First(v) : ProductRow(q) \in held[u]
  BY <1>9, <1>13
<1>15. q < m
  BY <1>1, <1>9, <1>12, <1>14, RowNames DEF LockOrder, First
<1>16. q \in Nat /\ m \in Nat /\ m <= q
  BY <1>10, <1>11, <1>14
<1> QED
  BY <1>15, <1>16

\* Every circle of waiting requests has an add or a claim in it: a change, a removal, a
\* checkout and what the merchant does lock in one order, with the products by
\* Meta.ordering, and never wait in a circle among themselves.
THEOREM CirclesNeedAddsOrClaims == Spec => []OnlyAddsAndClaimsDeadlock
<1>1. IInv => \A t \in Txn : tx[t].op.kind \in OrderKinds \cup {"add", "claim"}
  BY TxTypes DEF OrderKinds
<1>2. IInv /\ LocksOrdered => OnlyAddsAndClaimsDeadlock
  <2> SUFFICES ASSUME IInv, LocksOrdered, NEW S \in (SUBSET Txn) \ {{}}, Circle(S),
                      ~ \E u \in S : tx[u].op.kind \in {"add", "claim"}
               PROVE  FALSE
    BY DEF OnlyAddsAndClaimsDeadlock
  <2> QED
    BY <1>1, OrderRequestsDontCircle
<1> QED
  BY <1>2, Invariance, OrderInvariance, PTL

\* So where no client adds or claims, no transaction is ever a deadlock victim.
THEOREM OrderRequestsNeverDeadlock ==
  ASSUME \A o \in Ops : o.kind \in OrderKinds
  PROVE  Spec => []NoOrderDeadlock
<1>1. OpsIssued => \A t \in Txn : tx[t].op.kind \in OrderKinds
  BY DEF OpsIssued
<1>2. IInv /\ LocksOrdered /\ OpsIssued => NoOrderDeadlock
  BY <1>1, OrderRequestsDontCircle DEF NoOrderDeadlock, Deadlocked
<1> QED
  BY <1>2, Invariance, OrderInvariance, OpsInvariance, PTL

-------------------------------------------------------------------------------
(* Someone runs.                                                           *)

\* Locks belong to requests in progress.
LEMMA BlockersBusy ==
  ASSUME IInv, LocksOrdered, NEW t \in Txn, NEW u \in Blockers(t)
  PROVE  u \in Txn /\ u # t /\ tx[u].pc # "idle"
<1>1. u \in Txn \ {t} /\ ~(held[u] = {} /\ shared[u] = {})
  BY DEF Blockers
<1>2. tx[u].pc = "idle" => held[u] = {} /\ shared[u] = {}
  BY <1>1 DEF LocksOrdered, LockOrder, NoLocksYet
<1> QED
  BY <1>1, <1>2

\* Of finitely many requests that all wait for one another, the fewest that still do so
\* are a circle: without one of them that nobody waited for, they would be fewer.
LEMMA FewestCircle ==
  ASSUME NEW R \in SUBSET Txn, IsFiniteSet(R), R # {}, \A u \in R : Blockers(u) \cap R # {}
  PROVE  \E T \in SUBSET R : T # {} /\ Circle(T)
<1> DEFINE Waiting(T) == T # {} /\ \A u \in T : Blockers(u) \cap T # {}
           Sizes == {Cardinality(T) : T \in {X \in SUBSET R : Waiting(X)}}
<1>1. \A T \in SUBSET R : IsFiniteSet(T) /\ Cardinality(T) \in Nat
  BY FS_Subset, FS_CardinalityType
<1>2. Sizes \in SUBSET Nat /\ Sizes # {}
  BY <1>1
<1>3. PICK m \in Sizes : \A n \in Sizes : m <= n
  BY <1>2, LeastNumber
<1>4. PICK T \in SUBSET R : Waiting(T) /\ Cardinality(T) = m
  OBVIOUS
<1>5. ASSUME NEW u \in T, \A v \in T : u \notin Blockers(v) PROVE FALSE
  <2> DEFINE X == T \ {u}
  <2>1. X \in SUBSET R /\ IsFiniteSet(T)
    BY <1>1
  <2>2. u \notin Blockers(u)
    BY DEF Blockers
  <2>3. Waiting(X)
    BY <1>4, <1>5, <2>2
  <2>4. Cardinality(X) = Cardinality(T) - 1
    BY <2>1, FS_RemoveElement
  <2>5. Cardinality(X) \in Sizes
    BY <2>1, <2>3
  <2>6. m \in Nat /\ m <= Cardinality(X)
    BY <1>2, <1>3, <2>5
  <2> QED
    BY <1>4, <2>4, <2>6
<1> QED
  BY <1>4, <1>5 DEF Circle

\* Where no client adds or claims, nobody waits for ever: while any request is in progress,
\* one waits for nobody.
THEOREM OrderRequestsRun ==
  ASSUME IsFiniteSet(Txn), \A o \in Ops : o.kind \in OrderKinds
  PROVE  Spec => []((\E t \in Txn : tx[t].pc # "idle")
                      => \E t \in Txn : tx[t].pc # "idle" /\ Blockers(t) = {})
<1>1. OpsIssued => \A t \in Txn : tx[t].op.kind \in OrderKinds
  BY DEF OpsIssued
<1> DEFINE Busy == {t \in Txn : tx[t].pc # "idle"}
<1>2. ASSUME IInv, LocksOrdered, OpsIssued, Busy # {}, \A t \in Busy : Blockers(t) # {}
      PROVE  FALSE
  <2>1. Busy \in SUBSET Txn /\ IsFiniteSet(Busy)
    BY FS_Subset
  <2>2. \A t \in Busy : Blockers(t) \cap Busy # {}
    BY <1>2, BlockersBusy
  <2>3. PICK S \in SUBSET Busy : S # {} /\ Circle(S)
    <3> HIDE DEF Busy
    <3> QED
      BY <1>2, <2>1, <2>2, FewestCircle
  <2> QED
    BY <1>1, <1>2, <2>3, OrderRequestsDontCircle
<1>3. IInv /\ LocksOrdered /\ OpsIssued =>
        ((\E t \in Txn : tx[t].pc # "idle")
           => \E t \in Txn : tx[t].pc # "idle" /\ Blockers(t) = {})
  BY <1>2
<1> HIDE DEF Busy
<1> QED
  BY <1>3, Invariance, OrderInvariance, OpsInvariance, PTL
================================================================================
