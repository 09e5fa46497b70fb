------------------------------ MODULE Storefront ------------------------------
(***************************************************************************)
(* The requests of the orders app (server/orders) for one tenant, running  *)
(* concurrently in Gunicorn workers against PostgreSQL at READ COMMITTED.  *)
(*                                                                         *)
(* One step is one SQL statement that can wait for, or see the effect of,  *)
(* another transaction.  A statement reads the committed rows; the rows a  *)
(* transaction writes stay in its record and reach the tables when it      *)
(* commits.  SELECT FOR UPDATE, UPDATE, DELETE and the unique keys of      *)
(* uncommitted INSERTs hold exclusive row locks until the transaction      *)
(* ends; the foreign keys Django creates are DEFERRABLE INITIALLY          *)
(* DEFERRED, so an inserted cart item takes KEY SHARE locks on its cart    *)
(* and its product when its transaction commits, and fails there if the    *)
(* cart is gone.                                                           *)
(***************************************************************************)
EXTENDS OrderRecord, FiniteSets

CONSTANTS
  Txn,          \* the requests that can be in progress at once
  Ops,          \* the operations the clients issue
  MaxRequests,  \* bound: requests started in a behaviour
  MaxQuantity,  \* max_value of the quantity fields
  Stock0, Items0, Orders0   \* the tables in the initial state

Kind == {"add", "patch", "delete", "claim", "checkout", "cancel", "status", "edit"}

\* A field an operation has no use for holds an arbitrary value.
Op == [kind    : Kind,
       who     : Owner,            \* the customer or guest session of the request
       guest   : Owner,            \* claim: the guest session behind the cookie
       product : Product,
       qty     : 1..MaxQuantity,
       key     : Key,
       order   : Nat,              \* cancel, status: position in orders
       to      : Fulfilment,       \* status
       field   : {"stock", "active", "details"}]   \* edit: the PATCHed field

ASSUME StorefrontAssumption ==
  /\ Product \subseteq Nat
  /\ Ops \subseteq Op /\ Ops # {}
  /\ \A o \in Ops : o.kind = "claim" => o.guest # o.who
  /\ MaxRequests \in Nat
  /\ MaxQuantity \in Nat
  /\ Stock0 \in [Product -> Nat]
  /\ Items0 \in [Owner -> [Product -> Nat]]
  /\ Orders0 \in OrderTables

VARIABLES
  stock,    \* stock[p]: Product.stock_quantity
  active,   \* active[p]: Product.is_active
  cart,     \* cart[o]: id of o's Cart row, 0 when o has none
  carts,    \* carts[o]: number of carts o has had; a new cart takes the next id
  item,     \* item[o][p]: quantity of the CartItem in o's cart, 0 when no row
  orders,   \* the Order rows with their OrderItems, by commit
  tx,       \* tx[t]: the request t works on and what it has read and written
  held,     \* held[t]: rows t has locked exclusively
  shared,   \* shared[t]: rows t has locked FOR KEY SHARE
  issued    \* requests started so far (bound)

tables == <<stock, active, cart, carts, item, orders>>
vars == <<tables, tx, held, shared, issued>>

-------------------------------------------------------------------------------
(* Rows and locks.                                                         *)

ProductRow(p) == <<"product", p>>
CartRow(o) == <<"cart", o>>               \* the row and the one-cart-per-owner key
ItemRow(o, n, p) == <<"item", o, n, p>>   \* the row and the (cart, product) key
OrderRow(i) == <<"order", i>>
KeyRow(k) == <<"key", k>>                 \* the (tenant, idempotency_key) key

Row == ({"product"} \X Product) \cup ({"cart"} \X Owner)
       \cup ({"item"} \X Owner \X Nat \X Product)
       \cup ({"order"} \X Nat) \cup ({"key"} \X Key)

\* The item of product p in the cart with id n of owner o, as committed.
Quantity(o, n, p) == IF cart[o] = n THEN item[o][p] ELSE 0

NoItems == [p \in Product |-> 0]

\* Fault: the quantities are not compared with the locked stock.
OrderableUnchecked(t) == \A p \in Product : tx[t].seen[p] > 0 => active[p]

\* Products t may order: active, and with the stock the cart asks for.
Orderable(t) ==
  \A p \in Product :
    tx[t].seen[p] > 0 => active[p] /\ tx[t].seen[p] <= tx[t].stk[p]

\* Fault: cancel_order locks the products in an order of its own.
OwnOrder(t) ==
  {p \in tx[t].todo :
     \A q \in tx[t].todo : IF tx[t].op.kind = "cancel" THEN q <= p ELSE p <= q}

\* SELECT ... FOR UPDATE of products in Meta.ordering: the next one of todo.
First(t) == {p \in tx[t].todo : \A q \in tx[t].todo : p <= q}

\* Fault: the products are read without select_for_update.
ProductNotLocked(t) == {}

ProductLock(t) == {ProductRow(p) : p \in First(t)}

\* Fault: the cart, the guest's cart or the order is read without a lock.
RowNotLocked(t) == {}

\* SELECT ... FOR UPDATE of rows that need not exist: the cart with the id the
\* request read, an item of it, the guest session's cart, an order.
CartLock(t) ==
  {CartRow(o) : o \in {c \in {tx[t].op.who} : cart[c] = tx[t].mine}}

ItemLock(t) ==
  LET x == tx[t]
  IN {ItemRow(x.op.who, x.mine, p) :
        p \in {q \in {x.at} : Quantity(x.op.who, x.mine, q) > 0}}

GuestLock(t) == {CartRow(g) : g \in {h \in {tx[t].op.guest} : cart[h] # 0}}

OrderLock(t) == {OrderRow(i) : i \in {j \in {tx[t].op.order} : j \in 1..Len(orders)}}

\* INSERT of a cart or an order that passed validation: its unique key.
CartKeyLock(t) == {CartRow(o) : o \in {c \in {tx[t].op.who} : cart[c] = 0}}
OrderKeyLock(t) == {KeyRow(k) : k \in {j \in {tx[t].op.key} : Orderable(t)}}

\* DELETE of the guest cart with the items it has by then.
GuestDeleteLocks(t) ==
  LET g == tx[t].op.guest
  IN GuestLock(t) \cup {ItemRow(g, cart[g], p) : p \in {q \in Product : item[g][q] > 0}}

\* Fault: the PATCH of a cart item locks the product before the item.
ProductBeforeItem(t) ==
  LET itemAt == IF tx[t].op.kind = "patch" THEN "lockProduct" ELSE "lockItem"
  IN IF tx[t].pc = itemAt THEN ItemLock(t) ELSE {ProductRow(tx[t].op.product)}

\* The statements that lock the product or the item of an add and of a PATCH.
ProductOrItemLock(t) ==
  IF tx[t].pc = "lockItem" THEN ItemLock(t) ELSE {ProductRow(tx[t].op.product)}

\* The rows the next statement of t locks exclusively.
NextLock(t) ==
  LET x == tx[t]
  IN CASE x.pc \in {"lockProduct", "lockItem"} -> ProductOrItemLock(t)
       [] x.pc = "saveProduct" -> {ProductRow(x.op.product)}
       [] x.pc = "lockProducts" -> ProductLock(t)
       [] x.pc \in {"deleteItem", "lockItems", "claimItem"} -> ItemLock(t)
       [] x.pc = "putItem" -> {ItemRow(x.op.who, x.mine, x.at)}
       [] x.pc = "makeCart" -> CartKeyLock(t)
       [] x.pc = "lockCart" -> CartLock(t)
       [] x.pc = "lockGuest" -> GuestLock(t)
       [] x.pc = "dropGuest" -> GuestDeleteLocks(t)
       [] x.pc = "lockOrder" -> OrderLock(t)
       [] x.pc = "insertOrder" -> OrderKeyLock(t)
       [] OTHER -> {}

\* The row the next foreign-key check of t's COMMIT locks FOR KEY SHARE.
NextShare(t) ==
  IF tx[t].pc = "commit" /\ tx[t].fk # <<>> THEN {Head(tx[t].fk)} ELSE {}

\* The transactions t waits for.  KEY SHARE stops FOR UPDATE, DELETE and the
\* key of an INSERT, not the UPDATE of a product's other columns.
Blockers(t) ==
  {u \in Txn \ {t} :
     \/ NextLock(t) \cap held[u] # {}
     \/ tx[t].pc # "saveProduct" /\ NextLock(t) \cap shared[u] # {}
     \/ NextShare(t) \cap held[u] # {}}

\* The transactions of S wait for each other in a circle, or in several.
Circle(S) == \A u \in S : Blockers(u) \cap S # {} /\ \E v \in S : u \in Blockers(v)

\* PostgreSQL's deadlock detector: t is on a cycle of waiting transactions.
Deadlocked(t) == \E S \in SUBSET Txn : t \in S /\ Circle(S)

-------------------------------------------------------------------------------
(* Transactions.                                                           *)

Idle == [op   |-> CHOOSE o \in Ops : TRUE,
         pc   |-> "idle",   \* the statement that comes next
         at   |-> 0,        \* the product that statement is about
         todo |-> {},       \* products still to go through
         mine |-> 0,        \* id of the Cart instance the request works on
         seen |-> NoItems,  \* quantities read from the cart (claim: the guest cart)
         stk  |-> NoItems,  \* stock_quantity of the Product instances read
         put  |-> NoItems,  \* quantities written to cart items
         fk   |-> <<>>,     \* foreign-key checks deferred to COMMIT
         act  |-> TRUE,     \* edit: is_active of the Product instance
         row  |-> [status |-> "confirmed", fulfil |-> "unfulfilled"]]  \* the Order instance

\* A statement inside the transaction: it takes its locks, t goes on as x.
Proceed(t, x) ==
  /\ tx' = [tx EXCEPT ![t] = x]
  /\ held' = [held EXCEPT ![t] = @ \cup NextLock(t)]
  /\ UNCHANGED <<tables, shared, issued>>

\* COMMIT or ROLLBACK: the locks go, and whatever the request does after it
\* (serializing the response) changes nothing.
End(t) ==
  /\ tx' = [tx EXCEPT ![t] = Idle]
  /\ held' = [held EXCEPT ![t] = {}]
  /\ shared' = [shared EXCEPT ![t] = {}]

\* An error response, a reply without writes, a lost connection: roll back.
Abort(t) == End(t) /\ UNCHANGED <<tables, issued>>

\* t is at statement pc of an operation of one of the kinds and waits for nobody.
At(t, kinds, pc) ==
  /\ tx[t].pc = pc
  /\ tx[t].op.kind \in kinds
  /\ Blockers(t) = {}

FirstStatement(kind) ==
  CASE kind = "add"                  -> "lockProduct"
    [] kind \in {"patch", "delete"}  -> "readCart"
    [] kind = "claim"                -> "makeCart"
    [] kind = "checkout"             -> "findOrder"
    [] kind \in {"cancel", "status"} -> "lockOrder"
    [] kind = "edit"                 -> "readProduct"

Begin(t) ==
  /\ tx[t].pc = "idle"
  /\ issued < MaxRequests
  /\ issued' = issued + 1
  /\ \E o \in Ops :
       tx' = [tx EXCEPT ![t].op = o, ![t].at = o.product, ![t].pc = FirstStatement(o.kind)]
  /\ UNCHANGED <<tables, held, shared>>

-------------------------------------------------------------------------------
(* Cart requests: CartItemCreateView, CartItemDetailView, CartClaimView.   *)

AddLockProduct(t) ==
  LET x == tx[t]
      p == x.op.product
  IN /\ At(t, {"add"}, "lockProduct")
     /\ \/ ~ active[p] /\ Abort(t)
        \/ active[p] /\ Proceed(t, [x EXCEPT !.stk[p] = stock[p], !.pc = "readCart"])

\* get_request_cart(create=False): no lock.
ReadCart(t) ==
  LET x == tx[t]
      next == CASE x.op.kind \in {"add", "patch"} -> "lockItem"
                [] x.op.kind = "delete"           -> "deleteItem"
                [] x.op.kind = "checkout"         -> "lockCart"
  IN /\ At(t, {"add", "patch", "delete", "checkout"}, "readCart")
     /\ \/ cart[x.op.who] = 0 /\ x.op.kind # "add" /\ Abort(t)
        \/ /\ cart[x.op.who] # 0 \/ x.op.kind = "add"
           /\ Proceed(t, [x EXCEPT !.mine = cart[x.op.who], !.pc = next])

AddLockItem(t) ==
  LET x == tx[t]
      p == x.op.product
      total == x.op.qty + Quantity(x.op.who, x.mine, p)
  IN /\ At(t, {"add"}, "lockItem")
     /\ \/ total > x.stk[p] /\ Abort(t)
        \/ /\ total <= x.stk[p]
           /\ Proceed(t, [x EXCEPT !.put[p] = total,
                                   !.pc = IF x.mine = 0 THEN "makeCart" ELSE "putItem"])

\* get_request_cart(create=True) and the claim's get_or_create: the owner's
\* cart if there is one, else an INSERT that holds the owner's unique key.
MakeCart(t) ==
  LET x == tx[t]
      o == x.op.who
  IN /\ At(t, {"add", "claim"}, "makeCart")
     /\ Proceed(t, [x EXCEPT !.mine = IF cart[o] # 0 THEN cart[o] ELSE carts[o] + 1,
                             !.pc = IF x.op.kind = "add" THEN "putItem" ELSE "lockGuest"])

\* CartItem.update_or_create: the committed row is locked and updated, or a row
\* is inserted whose foreign keys wait for COMMIT.
PutItem(t) ==
  LET x == tx[t]
      o == x.op.who
      left == x.todo \ {x.at}
      checks == IF Quantity(o, x.mine, x.at) > 0
                THEN <<>> ELSE <<CartRow(o), ProductRow(x.at)>>
      done == [x EXCEPT !.fk = @ \o checks, !.todo = left]
  IN /\ At(t, {"add", "claim"}, "putItem")
     /\ \/ \E p \in left : Proceed(t, [done EXCEPT !.pc = "claimItem", !.at = p])
        \/ left = {} /\ Proceed(t, [done EXCEPT !.pc = IF x.op.kind = "add"
                                                       THEN "commit" ELSE "dropGuest"])

\* CartItemDetailView.patch joins CartItem and Product under one FOR UPDATE.
PatchLockItem(t) ==
  LET x == tx[t]
      found == Quantity(x.op.who, x.mine, x.op.product) > 0
  IN /\ At(t, {"patch"}, "lockItem")
     /\ \/ ~ found /\ Abort(t)
        \/ found /\ Proceed(t, [x EXCEPT !.pc = "lockProduct"])

PatchLockProduct(t) ==
  LET x == tx[t]
      p == x.op.product
      allowed == active[p] /\ x.op.qty <= stock[p]
  IN /\ At(t, {"patch"}, "lockProduct")
     /\ \/ ~ allowed /\ Abort(t)
        \/ /\ allowed
           /\ Proceed(t, [x EXCEPT !.stk[p] = stock[p], !.put[p] = x.op.qty, !.pc = "commit"])

\* CartItemDetailView.delete: a DELETE of its own, committed at once.
DeleteItem(t) ==
  LET x == tx[t] IN
  /\ At(t, {"delete"}, "deleteItem")
  /\ IF cart[x.op.who] = x.mine
     THEN item' = [item EXCEPT ![x.op.who][x.op.product] = 0]
     ELSE UNCHANGED item
  /\ End(t)
  /\ UNCHANGED <<stock, active, cart, carts, orders, issued>>

\* The claim locks the guest cart, then reads its items and their products
\* without locks; inactive and sold-out products are skipped.
ClaimLockGuest(t) ==
  LET x == tx[t]
      g == x.op.guest
      usable == {p \in Product : item[g][p] > 0 /\ active[p] /\ stock[p] > 0}
      read == [x EXCEPT !.seen = item[g], !.stk = stock, !.todo = usable]
  IN /\ At(t, {"claim"}, "lockGuest")
     /\ \/ cart[g] = 0 /\ Proceed(t, [x EXCEPT !.pc = "commit"])
        \/ cart[g] # 0 /\ usable = {} /\ Proceed(t, [read EXCEPT !.pc = "dropGuest"])
        \/ cart[g] # 0 /\ \E p \in usable : Proceed(t, [read EXCEPT !.pc = "claimItem", !.at = p])

Least(m, n) == IF m <= n THEN m ELSE n

ClaimLockItem(t) ==
  LET x == tx[t]
      p == x.at
      sum == x.seen[p] + Quantity(x.op.who, x.mine, p)
      merged == Least(sum, Least(x.stk[p], MaxQuantity))
  IN /\ At(t, {"claim"}, "claimItem")
     /\ Proceed(t, [x EXCEPT !.put[p] = merged, !.pc = "putItem"])

\* guest_cart.delete()
ClaimDropGuest(t) ==
  /\ At(t, {"claim"}, "dropGuest")
  /\ Proceed(t, [tx[t] EXCEPT !.pc = "commit"])

\* Fault: no foreign key from an item to its cart.
NeverGone(t, r) == FALSE

\* COMMIT, first part: the deferred foreign-key checks of inserted items.  Only
\* a cart can be gone; the transaction sees a cart it inserted itself.
Gone(t, r) ==
  LET o == tx[t].op.who
  IN r = CartRow(o) /\ r \notin held[t] /\ cart[o] # tx[t].mine

CheckForeignKey(t) ==
  LET x == tx[t]
      r == Head(x.fk)
  IN /\ At(t, {"add", "claim"}, "commit")
     /\ x.fk # <<>>
     /\ \/ Gone(t, r) /\ Abort(t)
        \/ /\ ~ Gone(t, r)
           /\ tx' = [tx EXCEPT ![t].fk = Tail(@)]
           /\ shared' = [shared EXCEPT ![t] = @ \cup {r}]
           /\ UNCHANGED <<tables, held, issued>>

\* COMMIT, second part: the writes reach the tables.
CommitCart(t) ==
  LET x == tx[t]
      o == x.op.who
      g == x.op.guest
      created == CartRow(o) \in held[t]
      dropped == x.op.kind = "claim" /\ CartRow(g) \in held[t]
      kept == [p \in Product |-> IF x.put[p] > 0 THEN x.put[p] ELSE item[o][p]]
  IN /\ At(t, {"add", "patch", "claim"}, "commit")
     /\ x.fk = <<>>
     /\ item' = [c \in Owner |-> CASE c = o -> kept
                                   [] dropped /\ c = g -> NoItems
                                   [] OTHER -> item[c]]
     /\ cart' = [c \in Owner |-> CASE c = o /\ created -> x.mine
                                   [] dropped /\ c = g -> 0
                                   [] OTHER -> cart[c]]
     /\ carts' = [carts EXCEPT ![o] = IF created THEN x.mine ELSE @]
     /\ End(t)
     /\ UNCHANGED <<stock, active, orders, issued>>

-------------------------------------------------------------------------------
(* Checkout: OrderCreateView and create_order_from_cart.                   *)

\* A repeated key answers with the order it made, before any lock.
FindOrder(t) ==
  LET x == tx[t]
      repeated == \E i \in 1..Len(orders) :
                    orders[i].key = x.op.key /\ orders[i].owner = x.op.who
  IN /\ At(t, {"checkout"}, "findOrder")
     /\ \/ repeated /\ Abort(t)
        \/ ~ repeated /\ Proceed(t, [x EXCEPT !.pc = "readCart"])

CheckoutLockCart(t) ==
  LET x == tx[t]
      o == x.op.who
      lines == {p \in Product : Quantity(o, x.mine, p) > 0}
  IN /\ At(t, {"checkout"}, "lockCart")
     /\ \/ lines = {} /\ Abort(t)   \* Cart.DoesNotExist, or nothing in the cart
        \/ \E p \in lines :
             Proceed(t, [x EXCEPT !.todo = lines, !.at = p, !.pc = "lockItems"])

\* CartItem FOR UPDATE in created_at order: any order in the model.  An item
\* deleted while the statement waited is not returned.
CheckoutLockItem(t) ==
  LET x == tx[t]
      left == x.todo \ {x.at}
      read == [x EXCEPT !.todo = left, !.seen[x.at] = Quantity(x.op.who, x.mine, x.at)]
      lines == {p \in Product : read.seen[p] > 0}
  IN /\ At(t, {"checkout"}, "lockItems")
     /\ \/ /\ left # {}
           /\ \E p \in left : Proceed(t, [read EXCEPT !.at = p])
        \/ /\ left = {} /\ lines # {}
           /\ Proceed(t, [read EXCEPT !.todo = lines, !.pc = "lockProducts"])
        \/ left = {} /\ lines = {} /\ Abort(t)

\* Product FOR UPDATE in Meta.ordering, for a checkout or a cancellation.
LockNextProduct(t) ==
  LET x == tx[t]
      done == IF x.op.kind = "checkout" THEN "insertOrder" ELSE "commit"
  IN /\ At(t, {"checkout", "cancel"}, "lockProducts")
     /\ \E p \in First(t) :
          Proceed(t, [x EXCEPT !.stk[p] = stock[p], !.todo = @ \ {p},
                               !.pc = IF x.todo = {p} THEN done ELSE @])

\* Fault: no unique constraint on (tenant, idempotency_key).
KeyNeverTaken(t) == FALSE

\* Validation, then Order.objects.create: the (tenant, idempotency_key) key.
KeyTaken(t) == KeyIn(tx[t].op.key, orders)

InsertOrder(t) ==
  /\ At(t, {"checkout"}, "insertOrder")
  /\ \/ (~ Orderable(t) \/ KeyTaken(t)) /\ Abort(t)
     \/ /\ Orderable(t) /\ ~ KeyTaken(t)
        /\ Proceed(t, [tx[t] EXCEPT !.pc = "commit"])

\* The order with its lines, the stock it takes and the cart it empties.
CommitOrder(t) ==
  LET x == tx[t]
      o == x.op.who
  IN /\ At(t, {"checkout"}, "commit")
     /\ orders' = Append(orders, NewOrder(x.op.key, o, x.seen))
     /\ stock' = [p \in Product |->
                    IF x.seen[p] > 0 THEN x.stk[p] - x.seen[p] ELSE stock[p]]
     /\ cart' = [cart EXCEPT ![o] = 0]
     /\ item' = [item EXCEPT ![o] = NoItems]
     /\ End(t)
     /\ UNCHANGED <<active, carts, issued>>

-------------------------------------------------------------------------------
(* The merchant: cancel_order, AdminOrderStatusView, AdminProductDetailView. *)

\* Fault: cancel_order reads the products without select_for_update.
CancelReadsUnlocked(t) ==
  LET x == tx[t]
      i == x.op.order
      open == /\ i \in 1..Len(orders)
              /\ orders[i].status = "confirmed"
              /\ orders[i].fulfil \in InStore
  IN /\ At(t, {"cancel"}, "lockOrder")
     /\ IF open THEN Proceed(t, [x EXCEPT !.stk = stock, !.pc = "commit"]) ELSE Abort(t)

CancelLockOrder(t) ==
  LET x == tx[t]
      i == x.op.order
      open == /\ i \in 1..Len(orders)
              /\ orders[i].status = "confirmed"
              /\ orders[i].fulfil \in InStore
      lines == {p \in Product : orders[i].lines[p] > 0}
  IN /\ At(t, {"cancel"}, "lockOrder")
     /\ \/ ~ open /\ Abort(t)
        \/ /\ open
           /\ Proceed(t, [x EXCEPT !.todo = lines,
                                   !.pc = IF lines = {} THEN "commit" ELSE "lockProducts"])

CommitCancel(t) ==
  LET x == tx[t]
      i == x.op.order
      lines == orders[i].lines
  IN /\ At(t, {"cancel"}, "commit")
     /\ stock' = [p \in Product |->
                    IF lines[p] > 0 THEN x.stk[p] + lines[p] ELSE stock[p]]
     /\ orders' = [orders EXCEPT ![i].status = "cancelled"]
     /\ End(t)
     /\ UNCHANGED <<active, cart, carts, item, issued>>

\* Fault: any stage is accepted for an order that is not cancelled.
StatusOfAnyStage(t) ==
  LET x == tx[t]
      i == x.op.order
  IN /\ At(t, {"status"}, "lockOrder")
     /\ IF i \in 1..Len(orders) /\ orders[i].status # "cancelled"
        THEN Proceed(t, [x EXCEPT !.row = [status |-> "confirmed", fulfil |-> x.op.to],
                                  !.pc = "commit"])
        ELSE Abort(t)

\* AdminOrderStatusSerializer: the same value is always accepted, another one
\* only as the next stage of an order that is not cancelled.
StatusLockOrder(t) ==
  LET x == tx[t]
      i == x.op.order
      legal == /\ i \in 1..Len(orders)
               /\ \/ x.op.to = orders[i].fulfil
                  \/ /\ orders[i].status # "cancelled"
                     /\ x.op.to = NextStage(orders[i].fulfil)
  IN /\ At(t, {"status"}, "lockOrder")
     /\ \/ ~ legal /\ Abort(t)
        \/ /\ legal
           /\ Proceed(t, [x EXCEPT !.row = [status |-> orders[i].status,
                                            fulfil |-> x.op.to], !.pc = "commit"])

\* serializer.save() writes every column of the Order instance.
CommitStatus(t) ==
  LET x == tx[t]
      i == x.op.order
  IN /\ At(t, {"status"}, "commit")
     /\ orders' = [orders EXCEPT ![i].status = x.row.status, ![i].fulfil = x.row.fulfil]
     /\ End(t)
     /\ UNCHANGED <<stock, active, cart, carts, item, issued>>

EditReadProduct(t) ==
  LET x == tx[t]
      p == x.op.product
  IN /\ At(t, {"edit"}, "readProduct")
     /\ Proceed(t, [x EXCEPT !.stk[p] = stock[p], !.act = active[p], !.pc = "saveProduct"])

\* The product form's PATCH saves every column of the instance it read: the
\* PATCHed one and, as they were then, all the others.
EditSaveProduct(t) ==
  LET x == tx[t]
      p == x.op.product
  IN /\ At(t, {"edit"}, "saveProduct")
     /\ stock' = [stock EXCEPT ![p] = IF x.op.field = "stock" THEN x.op.qty ELSE x.stk[p]]
     /\ active' = [active EXCEPT ![p] = IF x.op.field = "active" THEN ~ x.act ELSE x.act]
     /\ End(t)
     /\ UNCHANGED <<cart, carts, item, orders, issued>>

-------------------------------------------------------------------------------
(* The database and the worker.                                            *)

\* PostgreSQL rolls back a transaction of a deadlock.
DeadlockVictim(t) == Deadlocked(t) /\ Abort(t)

\* The worker dies or loses its connection before COMMIT.
WorkerDies(t) == tx[t].pc # "idle" /\ Abort(t)

Statement(t) ==
  \/ AddLockProduct(t) \/ ReadCart(t) \/ AddLockItem(t) \/ MakeCart(t) \/ PutItem(t)
  \/ PatchLockItem(t) \/ PatchLockProduct(t) \/ DeleteItem(t)
  \/ ClaimLockGuest(t) \/ ClaimLockItem(t) \/ ClaimDropGuest(t)
  \/ CheckForeignKey(t) \/ CommitCart(t)
  \/ FindOrder(t) \/ CheckoutLockCart(t) \/ CheckoutLockItem(t)
  \/ LockNextProduct(t) \/ InsertOrder(t) \/ CommitOrder(t)
  \/ CancelLockOrder(t) \/ CommitCancel(t)
  \/ StatusLockOrder(t) \/ CommitStatus(t)
  \/ EditReadProduct(t) \/ EditSaveProduct(t)

Init ==
  /\ stock = Stock0
  /\ active = [p \in Product |-> TRUE]
  /\ item = Items0
  /\ cart = [o \in Owner |-> IF Items0[o] = NoItems THEN 0 ELSE 1]
  /\ carts = cart
  /\ orders = Orders0
  /\ tx = [t \in Txn |-> Idle]
  /\ held = [t \in Txn |-> {}]
  /\ shared = [t \in Txn |-> {}]
  /\ issued = 0

Next ==
  \E t \in Txn : Begin(t) \/ Statement(t) \/ DeadlockVictim(t) \/ WorkerDies(t)

Spec == Init /\ [][Next]_vars

-------------------------------------------------------------------------------
(* Properties.                                                             *)

Statements ==
  {"idle", "lockProduct", "readCart", "lockItem", "makeCart", "putItem", "deleteItem",
   "lockGuest", "claimItem", "dropGuest", "findOrder", "lockCart", "lockItems",
   "lockProducts", "insertOrder", "lockOrder", "readProduct", "saveProduct", "commit"}

TxType == [op   : Op,
           pc   : Statements,
           at   : Product \cup {0},
           todo : SUBSET Product,
           mine : Nat,
           seen : [Product -> Nat],
           stk  : [Product -> Nat],
           put  : [Product -> Nat],
           fk   : Seq(Row),
           act  : BOOLEAN,
           row  : [status : Status, fulfil : Fulfilment]]

\* The types of the tables and of the transactions.  stock in Nat is the check
\* constraint product_stock_quantity_nonnegative: no checkout ever runs into it.
TypeOK ==
  /\ stock \in [Product -> Nat]
  /\ active \in [Product -> BOOLEAN]
  /\ cart \in [Owner -> Nat]
  /\ carts \in [Owner -> Nat]
  /\ item \in [Owner -> [Product -> Nat]]
  /\ orders \in Seq(Order)
  /\ tx \in [Txn -> TxType]
  /\ held \in [Txn -> SUBSET Row]
  /\ shared \in [Txn -> SUBSET Row]
  /\ issued \in Nat

Confirmed(s) == {i \in 1..Len(s) : s[i].status = "confirmed"}

\* The units of p in the confirmed orders of the sequence s, one by one.
OrderedUnits(p, s) == UNION {{i} \X (1..s[i].lines[p]) : i \in Confirmed(s)}
UnitsOrdered(p, s) == Cardinality(OrderedUnits(p, s))

\* No unit is sold twice or restocked twice: whatever checkouts and cancellations
\* interleave, the units in stock and in confirmed orders are those of the start
\* (for behaviours without product edits, which set the stock to any number).
StockConserved ==
  \A p \in Product :
    stock[p] + UnitsOrdered(p, orders) = Stock0[p] + UnitsOrdered(p, Orders0)

\* create_order_from_cart orders what the cart holds at the commit that deletes
\* it: no item added, changed or removed meanwhile by another tab is lost or
\* ordered at another quantity.
WholeCartOrdered ==
  [][Len(orders') > Len(orders) =>
       LET placed == orders'[Len(orders')]
       IN /\ placed.lines = item[placed.owner]
          /\ cart[placed.owner] # 0 /\ cart'[placed.owner] = 0]_vars

\* Every cart item belongs to the cart its owner has now: an add or a claim that
\* raced with the end of a cart leaves no row behind, and ids are not reused.
ItemsHaveCart ==
  \A o \in Owner :
    /\ cart[o] \in {0, carts[o]}
    /\ item[o] # NoItems => cart[o] # 0

\* CartClaimView: whatever two tabs claim and the guest still orders, a commit
\* that merges a guest cart into a customer's ends that guest cart, so its units
\* are merged once and never both merged and ordered.
GuestCartMergedOnce ==
  [][\A t \in Txn :
       (/\ tx[t].op.kind = "claim" /\ tx[t].pc = "commit"
        /\ tx[t].seen # NoItems /\ item' # item
        /\ tx'[t].pc = "idle")
       => cart[tx[t].op.guest] # 0 /\ cart'[tx[t].op.guest] = 0]_vars

\* Repeating a checkout, even beside the first one, never makes a second order.
OneOrderPerKey ==
  \A i, j \in 1..Len(orders) : orders[i].key = orders[j].key => i = j

\* cancel_order against the fulfilment form: what has left the store is not
\* cancelled, and what is cancelled does not leave.
CancelledNeverShipped ==
  \A i \in 1..Len(orders) :
    orders[i].status = "cancelled" => orders[i].fulfil \in InStore

\* Checkout, cancellation, fulfilment and product edits, among themselves, never
\* wait in a circle: they lock cart, items, products by Meta.ordering, order key.
NoOrderDeadlock ==
  ~ \E t \in Txn : Deadlocked(t)

\* A circle of waiting requests has an add or a claim in it: an add locks the product
\* before the item, a claim the items without the cart that its foreign keys need at
\* COMMIT.  A change of a quantity, which joins item and product under one FOR UPDATE, a
\* removal, a checkout and the merchant's requests never wait in a circle among themselves.
OnlyAddsAndClaimsDeadlock ==
  \A S \in (SUBSET Txn) \ {{}} : Circle(S) => \E u \in S : tx[u].op.kind \in {"add", "claim"}

\* What a transaction with record x and exclusive locks rows relies on: the rows
\* it has locked are still as it read them.
StockCurrent(x, rows) ==
  \A p \in Product : ProductRow(p) \in rows => x.stk[p] = stock[p]

CheckoutSound(x, rows) ==
  x.op.kind = "checkout" /\ x.pc \in {"lockProducts", "insertOrder", "commit"} =>
    /\ \E p \in Product : x.seen[p] > 0
    /\ \A p \in Product : x.seen[p] > 0 =>
         ProductRow(p) \in rows \/ (x.pc = "lockProducts" /\ p \in x.todo)
    /\ x.pc = "commit" =>
         /\ \A p \in Product : x.seen[p] > 0 => x.seen[p] <= x.stk[p]
         /\ KeyRow(x.op.key) \in rows
         /\ ~ KeyIn(x.op.key, orders)

CancelSound(x, rows) ==
  x.op.kind = "cancel" /\ x.pc \in {"lockProducts", "commit"} =>
    LET i == x.op.order
    IN /\ i \in 1..Len(orders) /\ OrderRow(i) \in rows
       /\ orders[i].status = "confirmed" /\ orders[i].fulfil \in InStore
       /\ \A p \in Product : orders[i].lines[p] > 0 =>
            ProductRow(p) \in rows \/ (x.pc = "lockProducts" /\ p \in x.todo)

StatusSound(x, rows) ==
  x.op.kind = "status" /\ x.pc = "commit" =>
    LET i == x.op.order
    IN /\ i \in 1..Len(orders) /\ OrderRow(i) \in rows
       /\ x.row.status = orders[i].status
       /\ \/ x.row.fulfil = orders[i].fulfil
          \/ x.row.status = "confirmed" /\ x.row.fulfil = NextStage(orders[i].fulfil)

TxSound(x, rows) ==
  /\ x.pc # "idle" => x.at \in Product
  /\ StockCurrent(x, rows)
  /\ CheckoutSound(x, rows)
  /\ CancelSound(x, rows)
  /\ StatusSound(x, rows)

\* The lock discipline: a row is locked by one transaction, and what a checkout,
\* a cancellation or a status change decided on locked rows holds until it
\* commits, whatever the others do meanwhile.
LockDiscipline ==
  /\ \A t, u \in Txn : t # u => held[t] \cap held[u] = {}
  /\ \A t \in Txn : TxSound(tx[t], held[t])

\* The requests, whatever their statements interleave, are atomic steps of the
\* ledger: each order placed once per key out of stock that was there, each
\* cancellation and each stage on an order in the state it requires.
Ledger == INSTANCE OrderLedger WITH stock <- stock, orders <- orders
ImplementsLedger == Ledger!LedgerSpec
===============================================================================
