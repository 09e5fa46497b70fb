# Specifications of the commerce application

TLA+ modules for the Django/PostgreSQL server in `src/server` and the Next.js
client in `src/client`: what a tenant's carts, orders, stock, images, mail,
accounts and subscription go through when requests run at the same time, are
lost or repeated, and processes stop; and what the browser's tabs make of it.
TLC checks the modules on small instances; TLAPS proves the theorems listed
below for every instance.

## The system

The server is a Django REST API on PostgreSQL at READ COMMITTED, without
`ATOMIC_REQUESTS`: a view is a sequence of SQL statements, atomic only inside
`transaction.atomic()`.  Two Gunicorn workers serve requests; a third process
retries mail.  `run_services.py` stops everything when one of them dies and the
host restarts it.  The client is a single-page application that keeps the
access token in a store, the refresh token in a cookie, and what it has read in
a query cache (TanStack Query).

| Component | State | Operations | What makes it correct | Module |
|---|---|---|---|---|
| Carts, checkout, orders (`orders`) | `Cart`, `CartItem`, `Order`, `OrderItem` rows; `Product.stock_quantity` | add, change, remove an item; claim a guest cart; check out; cancel; advance fulfilment | no unit sold or restocked twice; one order per idempotency key; an order is the cart it ends; cancelled and shipped exclude each other; which requests can deadlock | `Storefront`, `OrderLedger` |
| Order pages (`client/src/app/admin/orders`) | cached list and orders, calls in progress | fetch, "Mark as ...", "Cancel order" | what is shown has happened; an order changes only as the button said | `OrderDesk` |
| Catalogue (`catalog`) | `Product`, `Category` | product form: create, PATCH, delete; categories; public lists | a save races with checkouts over the same row; a product is not shown half uploaded | `Storefront`, `ProductImages` |
| Product images (`catalog`, `admin/products`) | `ProductImage` rows; assets at Cloudinary; the form | intent, upload, completion, removal; delete; alternative text; clean-up command | success means every file is an image; at most 8 images, whoever uploads at once | `ProductImages` |
| Billing (`billing`, `admin/billing`) | `TenantSubscription`, `StripeWebhookEvent`, `SubscriptionPayment`; Stripe; the owner's tabs | checkout and portal sessions, webhook events, polling | an event is applied once; one open checkout; no store open unpaid; the trial stays used | `Billing` |
| Tenancy (`tenancy`) | `Tenant`, `TenantHostname` | activate, settings; hostname resolution; overview | a store opens only when it has been paid for | `Billing` |
| Platform and customer administration | the same `Tenant` and `User` rows | block and unblock | a block is a whole-row save beside others | `Billing`, `Accounts` |
| Accounts (`accounts`) | `User`, outstanding and blacklisted tokens | sign up, verify, log in, refresh, log out, reset, profile, password | verified means proven; a link works once; a password change ends sessions | `Accounts`, `ShopBrowser` |
| Mail outbox (`accounts/emails`) and supervisor (`run_services.py`) | `OutboundEmail` rows; two processes | queue, deliver on commit, worker passes, restart | every mail queued in a committed transaction is sent or expires; what the provider took is handed over again only when that could not be recorded | `Outbox` |
| Customer's tab (`client/src`) | customer store, session query, cart caches | refresh, log in and out, claim, change the cart, check out | one order for one checkout page; a late answer does not revive a session; another account's cart goes | `ShopBrowser` |

Components meet in the database.  The orders app reads and writes the
catalogue's `Product` rows, reads `Tenant` and the subscription to let a request
in, and queues mail in the transaction that places an order.  Billing decides
whether tenancy may activate a store.  Platform and customer administration and
the settings form save rows that accounts and tenancy read without locks.  The
client meets the server in requests that can be lost, late, or answered after
the page that sent them is gone.

The hard behaviour is concurrency.  What PostgreSQL locks, when a waiting
statement re-reads its row, the foreign keys that are checked only at COMMIT,
and the rows Django saves whole from an instance it read earlier decide what two
requests can do to each other; no test in the repository runs two at once.  After
that come lost and repeated calls (a checkout sent again, a webhook delivered
twice), and processes that die between a side effect and the commit that
records it.

## Modules

| Module | What it models |
|---|---|
| `OrderRecord` | the `Order` rows, shared by the next two |
| `OrderLedger` | what the orders app promises: placing, cancelling and advancing orders as single steps on stock and orders |
| `Storefront` | the requests of `orders/views.py` and `orders/services.py`, and the product form, statement by statement |
| `OrderDesk` | a tab of the merchant's order pages; EXTENDS `Storefront` |
| `ShopBrowser` | a shopper's tab and the server as it sees it |
| `ProductImages` | the images of one product, the form that uploads them, a second tab and the clean-up command |
| `Billing` | the subscription of one store: tabs, server, Stripe, the platform administrator |
| `Accounts` | one customer account and its mailed links |
| `Outbox` | queued mail, its deliverers, and the processes they run in |
| `MC*` | instances for TLC; `MCStorefront` and `MCOrderDesk` name the operations of each run |
| `StorefrontProofs` | theorems about `Storefront`: locks, refinement of `OrderLedger`, units, waiting |
| `CartProofs` | theorems about its carts; EXTENDS `StorefrontProofs` |
| `DeskProofs` | theorems about `OrderDesk`; EXTENDS `StorefrontProofs` |
| `ShopBrowserProofs`, `ImageProofs`, `BillingProofs`, `AccountsProofs`, `OutboxProofs` | theorems about those modules |

Definitions preceded by "Fault:" are variants of the definition beside them that
no action uses: replacing the one by the other shows that a property notices.

### Storefront

The tables are variables: `stock` and `active` (columns of `Product`), `cart`
(the id of an owner's cart, 0 for none; `carts` counts the ids given out), `item`
(the quantities of the cart items), `orders` (the `Order` rows in commit order).
An owner is a customer or a guest session; a cart has one owner by its unique
constraints, so `cart` is a function.  `tx[t]` is a request in progress: its
operation, the statement that comes next (`pc`), the instances it has read
(`mine`, `seen`, `stk`, `row`) and what it has written and not yet committed
(`put`).  `held[t]` and `shared[t]` are its row locks.

One action is one statement that can wait or see another transaction's effect.
A statement waits while another transaction holds a lock it needs (`Blockers`),
then reads the rows as committed, which is what READ COMMITTED gives a
`SELECT ... FOR UPDATE` that waited.  Statements between which nothing can
happen to the rows they use are one action; writes reach the tables in the
action that commits.  The unique keys a transaction inserts are locks of their
own (`KeyRow`, and `CartRow` for the owner's cart): a second INSERT waits, and
fails or finds the row when the first has committed.  Django creates foreign
keys `DEFERRABLE INITIALLY DEFERRED`: an inserted cart item locks its cart and
product `FOR KEY SHARE` only at COMMIT (`CheckForeignKey`), and the commit
fails when a checkout has deleted the cart.

Requests can be rolled back at every statement: by validation, by a constraint,
as a deadlock victim, or because the worker dies.

| Request | Actions |
|---|---|
| `CartItemCreateView.post` | `AddLockProduct`, `ReadCart`, `AddLockItem`, `MakeCart`, `PutItem`, `CheckForeignKey`, `CommitCart` |
| `CartItemDetailView.patch`, `.delete` | `ReadCart`, `PatchLockItem`, `PatchLockProduct`, `CommitCart`; `ReadCart`, `DeleteItem` |
| `CartClaimView.post` | `MakeCart`, `ClaimLockGuest`, per item `ClaimLockItem` and `PutItem`, `ClaimDropGuest`, `CheckForeignKey`, `CommitCart` |
| `OrderCreateView.post`, `create_order_from_cart` | `FindOrder`, `ReadCart`, `CheckoutLockCart`, `CheckoutLockItem`, `LockNextProduct`, `InsertOrder`, `CommitOrder` |
| `cancel_order` | `CancelLockOrder`, `LockNextProduct`, `CommitCancel` |
| `AdminOrderStatusView.patch` | `StatusLockOrder`, `CommitStatus` |
| `AdminProductDetailView.patch` | `EditReadProduct`, `EditSaveProduct` |

`Product \subseteq Nat` stands for the position in `Product.Meta.ordering`
(newest first), in which `SELECT ... FOR UPDATE` locks products; two products
created at the same instant are taken to have a fixed order.  Cart items are
locked by their creation time, which the model leaves open: any order.
Prices, totals and addresses are left out; nothing here depends on them.

### OrderDesk

The tab's state is the open page (`page`), the cached `list` and `details`, and
its calls in progress (`call`); everything behind the API is `Storefront`.  A
mutation is sent (`MarkNext`, `CancelOrder`), given to a transaction (`Serve`),
runs statement by statement (`Work`, `Break`), is read again by the view for its
answer (`ReadAgain`) and reaches the cache (`Answer`, with `updateOrderCache`);
`Lose` drops the request or its answer, and a request given up may still be
served later.  `View` cancels the query of the page left behind, while a
mutation goes on; the buttons are disabled only while a mutation of the mounted
page is pending, so two can be on their way.  `Others` are the requests of
everybody else.

### ShopBrowser

One tab with a refresh cookie (`jar`), the customer store (`store`), the session
query (`session`), the cart query under its two keys (`cache`), the page, and
the requests in flight (`net`).  The server side keeps carts of one product,
orders by key and owner, and the live and honoured tokens; each request is served
in one step (`Serve`), since `Storefront` has what happens inside.  An answer is
a step of its own (`Answer`: `OnRefresh`, `UseTenantLogin`, `UseLogout`, `OnCart`,
`OnRemove`, `OnClaim`, `UseCreateOrder`, `OnQueryError`, `OnMessage`), so answers
come in any order and after the page that asked has gone.  Faults are a lost
request or answer (`Lose`), an access token that runs out (`AccessExpires`) and a
cache that gets old (`MinutePasses`).

### ProductImages

`product`, `row` and `file` are the database; `form` is the page that creates or
updates the product, one call after another (`CreateProduct` or `UpdateProduct`,
then per file `CreateImageUploadIntent`, `UploadToCloudinary`,
`CompleteImageUpload`, on failure `RemoveFailedUpload`, and at the end the
product is shown).  Each call is served and answered, served with its answer
lost, or never served (`Call`).  An intent is two steps, as its transaction is:
`CountImages` reads the product `FOR UPDATE` and compares the number of its
images with the limit, `InsertImage` adds the row and commits; `inserting` says
who is in between and so holds the product's row, for which whoever writes the
product or inserts a row that refers to it waits (`ProductFree`).  A second tab
uploads images of its own (`IntentInTab`, `InsertInTab`, `CompleteInTab`), deletes
an image or the product, and the clean-up command deletes stale uploads, both asking the provider first
and deleting the row after (`Destroy`, `DeleteRow`); `ReadForAltText` and
`SaveAltText` are the save that writes every column back and so can insert a row
deleted meanwhile.

### Billing

`sub`, `payment`, `processed` and `tenant` are rows; `stripe`, `events` and `due`
are Stripe, known only through the code that calls it and the events it sends.
A checkout request locks the row and reaches Stripe
(`StartSubscriptionCheckout`), then commits (`SaveCheckoutSession`) or is lost,
leaving a session nobody was shown (`orphan`).  An event is received
(`ReceiveEvent`: the event row is inserted and the subscription read without a
lock), then processed and committed, with the answer lost or not
(`ProcessStripeEvent`), or fails (`EventFails`); events are delivered in any
order, beside each other, and again until acknowledged.  The status form of the
platform administrator and the activation by the owner both write
`Tenant.status`.

### Accounts

`user` is the row, `link` the links sent with the columns their tokens are made
of, `request` what the server does for each tab.  Using a link looks the account
up among the active ones (`AccountEmailForm`), locks its row and checks the token
(`OpenLink`), then verifies or resets (`VerifyEmail`, `ResetPassword`).  The
lookup is a step of its own because it is a subquery on the statement's snapshot
(`scoped_users`): while the statement waits for the row, the account can be
blocked, and the row it then gets is the blocked one.  The profile form and the owner's block act on the row their
authentication or lookup read, and write all of it (`ProfileForm` then
`UpdateProfile`, `CustomersPage` then `SetCustomerActive`).  Passwords are
numbered by their choice.  How a message gets to the mailbox is `Outbox`; here
it arrives or not (`LinkArrives`).

### Outbox

`row` holds the messages in the order of their creation.  `QueueEmail` is the
commit of the transaction that has a message; the request then delivers it, and
the worker delivers the batch it listed (`DeliverPending`).  `DeliverEmail` locks
the row and looks at it again; `Accepted` and `Refused` are the provider's
answer and the commit.  `email.send()` raises the same when the provider refuses
and when it takes the message and the answer times out or is broken, and the row
is backed off either way: that is `AnswerLost`.  `DeliveryFails`, `ProcessExits` and `Supervise` stop
deliveries in between, after the provider took the message or before.

## Runs

| Run | Instance | Checked | Shows |
|---|---|---|---|
| `checkout_race` | `Storefront`: checkouts of two customers, a second key, cancellations; 3 transactions, 6 requests | `TypeOK`, `LockDiscipline`, `StockConserved`, `NoOrderDeadlock`, `ImplementsLedger` | no unit is sold or restocked twice, these requests never wait in a circle, and every interleaving is a behaviour of the ledger |
| `cart_tabs` | a customer's adds, changes, removals, claims and checkouts, a guest's add, change and checkout; 3 transactions, 5 requests | `ItemsHaveCart`, `OneOrderPerKey`, `OnlyAddsAndClaimsDeadlock`, `WholeCartOrdered`, `GuestCartMergedOnce` | an order is exactly the cart it ends, a guest cart is merged once or ordered, no item outlives its cart; adds and claims can wait in a circle with others, the others never among themselves (cancellations and product edits join them in the theorem) |
| `order_desk` | cancellations, all stages, product edits, a checkout; 3 transactions, 5 requests | `CancelledNeverShipped`, `ImplementsLedger` | cancelling and shipping exclude each other |
| `order_pages` | `OrderDesk`: a tab with two calls and two buttons pressed, other requests; 2 transactions, 3 requests | `ShownIsCommitted`, `ChangedAsPressed` | a stale tab shows only what happened, and an order changes for it only as its button said |
| `shop_tab` | `ShopBrowser`: two accounts, 3 clicks, 2 requests in flight, one fault | `TypeOK`, `OneOrderPerVisit`, `RevivedOnlyByLogin`, `SessionDecided`, `OwnCartComesBack` | one order per checkout page; within one load of the page no revival after a log out; another account's cart goes |
| `image_uploads` | `ProductImages`: 2 files, limit 2, 3 rows, 2 submissions, one fault, 2 acts of a second tab | `TypeOK`, `HiddenUntilUploaded`, `SuccessMeansUploaded`, `IntentsKeepTheLimit` | nothing half uploaded is shown, success is true, and racing intents keep the limit |
| `reselect_images` | the same with 3 submissions and no second tab | `OneImagePerFile`, violated | see Findings |
| `cleanup_race` | one submission, one fault, no second tab | `CleanupSparesReady`, violated | see Findings |
| `subscription` | `Billing`: 2 tabs, 2 sessions, 3 events | `TypeOK`, `EventsAppliedOnce`, `OneOpenCheckout`, `OpenStorePaid`, `TrialStaysUsed`, `EveryEventProcessed`, `WaitingTabNotices` | duplicated, late and reordered events take effect once and are all processed |
| `mail_worker` | `Outbox`: 3 messages, a batch of one, one fault | `TypeOK`, `HandedOverAgainIfLost`, `QueuedMailResolved` | a message is handed over once, and once more when the process or the answer that would have recorded it is lost, and none stays queued |
| `account_links` | `Accounts`: 2 tabs, 2 addresses, 2 links, 3 passwords | `TypeOK`, `VerifiedMeansProven`, `ResetUsedOnce` | only a proven address counts as verified; a reset link works once unless a row is written back |
| `reset_undone` | the same | `NewPasswordStays`, violated | see Findings |

Why the bounds are enough.  In `Storefront` three transactions are the least
with which a third request can meet two that already interact (a cancellation
between two checkouts, an add between a claim and a checkout); two products are
the least that can be locked in two orders or leave a cart partly empty.
`MaxRequests` exceeds the number of transactions, so finished requests are
followed by others.  `order_pages` has two transactions because the tab brings
two calls of its own that can be served at once, and older answers than that add
nothing: an answer is a snapshot, and two are enough for the wrong order.
`MaxUnits = 2` in `shop_tab` is the least at which a quantity changes and a
claim is capped; two slots let a cart read meet a change, a claim or a refresh.
In `image_uploads` two files are the least of which one fails and one succeeds,
and the limit equals them, so a retry or the second tab meets it.  Three events
let a checkout, its subscription event and one later change be delivered in any
order, and two sessions let an open one be replaced.  A batch of one makes the
worker come back for the next message.  Two links suffice for an older link to
stay valid beside a newer one; three passwords for a sign-up, a reset and
another change.

Transactions, clients and addresses are interchangeable, so the safety runs use
symmetry; runs with a liveness property do not.  Deadlock checking is off: when
all requests are finished, all messages sent or all bounds used up, there is
nothing to do.

### Fairness

- `mail_worker`: the worker loop and the supervisor run and a delivery in
  progress goes on (weak fairness), and the provider does not refuse a message
  for ever (`<>[][~Refused(d)]_vars`).  The code retries without a limit and
  relies on the last; the number of crashes and lost answers is bounded by
  `MaxFaults`.  That a
  link expires is not assumed.
- `subscription`: Stripe repeats what is not acknowledged, an event's transaction
  that gets its turn again and again is processed (strong fairness: the lock on
  the row comes and goes), and its deliveries do not fail for ever; a checkout
  request commits, and an open page polls every two seconds.  Nothing makes the
  owner, the administrator or Stripe's subscription do anything.
- `shop_tab`: the first refresh is sent when the tab opens, an invalidated cart
  query that is shown is read again, and the network answers with a result or a
  failure.

`Storefront`, `ProductImages` and `Accounts` have no fairness.  That every request
on the storefront ends would rest on PostgreSQL's deadlock detector alone, and that
abandoned uploads go on a schedule of the clean-up command that the repository does
not contain (`start.sh` and `run_services.py` start Gunicorn and the mail worker;
the comment at `client/src/app/admin/products/product.service.ts:241` assumes one);
neither would say anything of this code.

### Findings

- `reset_undone` (`NewPasswordStays`): the profile form and the customer block
  save every column of a row read earlier
  (`server/accounts/serializers/customer.py:88`, `server/customers/views.py:37`);
  a password reset in between is undone although its page said the password was
  reset.  The token of a reset link is made of the password hash, so the link that
  was used is then valid a second time, against its mail ("can only be used once",
  `server/accounts/emails/actions.py:79`) and `README.md:165` ("cannot be reused");
  `ResetUsedOnce` excepts exactly the links older than a row written back.
- `reselect_images` (`OneImagePerFile`): after some uploads failed the page asks
  to reselect *those* images and try again, but the form kept every file and
  sends all of them, so images that had gone up appear twice.
- `cleanup_race` (`CleanupSparesReady`): the clean-up command deletes "uploads that
  remained pending past their expiry" from a list it read once; an upload that is
  completed before its turn is a ready image by then, and is deleted with its asset
  (`cleanup_pending_product_images.py:35`, `services.py:100`).

### Behaviour the code allows and no property forbids

The models contain these; nothing in the repository promises otherwise, or the
property above them is stated so as to exclude exactly them.

- Carts: a guest's change to an item after the claim has read it is deleted with
  the guest cart; two tabs that add and claim the same product at once can
  overwrite each other's quantity; a product form that saves another field writes
  back the stock it read, undoing a checkout committed in between
  (`StockConserved` is therefore checked without product edits).
- Order pages: a list fetched before a change and answered after it overwrites
  the newer row; the button then asks for a stage the server refuses.
- Shopper's tab: a log out whose request is lost leaves the refresh token alive:
  a refresh that had already left signs the tab in again, and so does the first
  refresh of a later load of the page (`RevivedOnlyByLogin` is about one load).  A
  cart query of the same account, served before a claim and answered after it, hides
  the claim's answer until the next read.
- Images: a save of the alternative text inserts a row deleted meanwhile, over
  the limit if need be; pending uploads stay and count against the limit until
  somebody runs the clean-up; assets whose row is gone stay at the provider.
- Billing: an old status overwrites a newer one when events change places; a
  failed invoice after the paid one overwrites it, and one that arrives before
  the ids are known is dropped; between a completed checkout and its events a
  second session, with a second trial, can be opened; an activation can undo a
  block committed since it read the status.
- Mail: a message whose answer was lost is handed over again; the
  `Idempotency-Key` (`backend.py:51`) lets the provider drop the repetition, which is
  outside the repository.
- Accounts: the minute's cooldown also swallows the verification mail of an
  address changed again within it; blocks and profile edits undo each other.

## Theorems

`tlapm <module>.tla` checks the proofs of a module.  They hold for all constants
that satisfy the modules' named assumptions: `StorefrontAssumption` (the
constants have their types, a claim's guest is not its customer, and the orders
table of the initial state is one the application can have built),
`DeskAssumption` (what others do is among the operations), `OutboxBounds`,
`BillingBounds`, `AccountBounds` and `Bounds` of `ShopBrowser` and of
`ProductImages` (bounds are numbers, and the values that stand for nobody are not
members).  A theorem that needs more says so in its statement, and the table
below in parentheses.

| Module | Theorem | States |
|---|---|---|
| `StorefrontProofs` | `TypeCorrect` | `Spec => []TypeOK`; in particular no checkout takes a stock below zero |
| | `LocksProtect` | `Spec => []LockDiscipline` |
| | `Refinement` | `Spec => ImplementsLedger` |
| | `KeysIdempotent` | `Spec => []OneOrderPerKey` |
| | `CancelledStaysInStore` | `Spec => []CancelledNeverShipped` |
| | `OnlySavesChangeUnits` | no step but the save of a product form changes the units in stock and in confirmed orders |
| | `UnitsConserved` | `Spec => []StockConserved` (`Ops` has no product edit) |
| | `CirclesNeedAddsOrClaims` | `Spec => []OnlyAddsAndClaimsDeadlock` |
| | `OrderRequestsNeverDeadlock` | `Spec => []NoOrderDeadlock` (`Ops` has no add and no claim) |
| | `OrderRequestsRun` | while a request is in progress, one waits for nobody (`Txn` is finite and `Ops` has no add and no claim) |
| `CartProofs` | `NoOrphanItems` | `Spec => []ItemsHaveCart` |
| | `OrderedWhole` | `Spec => WholeCartOrdered` |
| | `MergedOnce` | `Spec => GuestCartMergedOnce` |
| `DeskProofs` | `DeskRunsStorefront` | `DeskSpec => Spec`, the storefront's |
| | `ShownHasHappened` | `DeskSpec => []ShownIsCommitted` |
| | `PressedIsDone` | `DeskSpec => ChangedAsPressed` |
| `ShopBrowserProofs` | `TabTypes` | `Spec => []TypeOK` |
| | `OneOrder` | `Spec => []OneOrderPerVisit` |
| | `Revival` | `Spec => RevivedOnlyByLogin` |
| `ImageProofs` | `ImageTypes` | `Spec => []TypeOK` |
| | `HiddenUntilAllAreUp` | `Spec => []HiddenUntilUploaded` |
| | `SuccessIsTrue` | `Spec => []SuccessMeansUploaded` |
| | `LimitKept` | `Spec => []IntentsKeepTheLimit` |
| `OutboxProofs` | `OutboxTypes` | `Spec => []TypeOK` |
| | `HandedOverOnce` | `Spec => []HandedOverAgainIfLost` |
| | `SentIsFinal` | a message is handed over only while its row is committed and not sent, and a sent row stays sent |
| `BillingProofs` | `BillingTypes` | `Spec => []TypeOK` |
| | `AppliedOnce` | `Spec => []EventsAppliedOnce` |
| | `OneCheckoutShown` | `Spec => []OneOpenCheckout` |
| | `OpenAfterCheckout` | `Spec => []OpenStorePaid` |
| | `TrialRecordKept` | `Spec => TrialStaysUsed` |
| `AccountsProofs` | `AccountTypes` | `Spec => []TypeOK` |
| | `VerifiedOnlyIfProven` | `Spec => []VerifiedMeansProven` |
| | `ResetOnce` | `Spec => []ResetUsedOnce` |

**Storefront.**  The inductive invariant is `IInv == TypeOK /\ LockDiscipline`.
Types alone are not inductive: that a checkout leaves a stock in `Nat` needs the
stock it read to be the stock there is.  `LockDiscipline` says so: no row is
locked by two transactions, and for each transaction `TxSound` states what it has
established on rows it has locked (the stock it read, the lines it will order,
the state of the order it cancels or advances, the key no order has).  A
statement that goes on (`ProceedSafe`) changes only its own record and takes only
free locks; a rollback or commit (`EndSafe`) gives them up; a commit changes only
rows its transaction has locked, so the records of the others stay sound
(`OthersSound`).  With that, a commit is the ledger's step: what it decided on is
still so.  `OneOrderPerKey` and `CancelledNeverShipped` then follow by induction
on the steps of the orders table.

**Units.**  `StockConserved` adds a stock to the units in confirmed orders.  The
model counts those as the cardinality of a finite set, one element for each unit
of each confirmed order (`OrderedUnits`), so no induction over the orders table
is needed.  `PlacedUnits`: an order that is placed adds as many units as its line
has, all of them new; `CancelledUnits`: an order that is cancelled takes away
exactly its own; `SameUnits`: a stage changes none.  What the stock loses or gets
back at the same commit is the same number only because the line and the stock
were read under locks still held, which is `LockDiscipline`; the product form
reads without one, so its save is the one step that is excepted.

**Waiting.**  `LocksOrdered` says for each request but adds and claims which rows it can
have locked when it stands where it stands: a checkout its cart before its items,
a PATCH its one item before the product, everybody items before products, of the
products only the ones before those still to lock, and the key of the order last.
In a circle of such requests nobody waits for a key, since who has one commits.
Nobody is at its items, since whoever waits for such a checkout is at the
items of the same cart, which both would have locked.  So nobody waits for an item, and
a PATCH, which has nothing else locked, is waited for by nobody.  What is left waits
for products: the request that waits for the least of these has locked only
products before it, yet somebody waits for one of those.  An add locks a product
before its item, and so the argument, like the code, needs it left out; a claim
locks items and takes their cart only at COMMIT.  Without the two,
`OrderRequestsRun`: of the requests in progress that all wait, the fewest that
still do so would be a circle (`FewestCircle`).

**Carts.**  Carts need more than exclusive locks: an item is inserted without
locking its cart, and only the COMMIT takes the cart's row FOR KEY SHARE.
`CartInv` adds to `IInv` that every item belongs to its owner's cart
(`ItemsHaveCart`), that nobody has locked a cart another transaction's item refers
to (`SharesSafe`), and for each transaction (`CartSound`) which cart and item
rows it has locked (`CartLocked`), that the ids it read are still the cart's while
it has it locked (`HasId`, `Fresh`), and what it has written, checked and will
merge or order (`Written`, `Checked`, `Patches`, `Orders`, `Merges`).  The proof
goes statement by statement; a checkout that ends a cart disturbs another's
record only if that one has the cart locked or shared, which the two lock
conditions exclude.  Each of the three theorems reads off what the transaction
that commits has established.

**Order pages.**  Every step of the tab is a step of `Storefront` or leaves its
variables alone (`DeskRunsStorefront`), so `IInv` holds behind the pages.
`DeskInv` adds what the browser has: rows in the caches and in answers on their way are `Behind`
the orders table, whose orders are only added and only move forward
(`OrdersForward`); a call is about an order there is, its button was `Offered` for
the row it was pressed on, and the transaction that serves it does what the call
says (`Serves`) and, once it is about to commit, writes the stage it was asked for
(`Asked`).  Stages follow one another in one order (`StagesInOrder`): a
stage that follows both the row shown and the row locked makes them the same
row, which is why a request that is late or made from a stale page changes
nothing but what the merchant saw.

**Shopper's tab.**  `IInv` has a part for each side.  `ServerSound`: an order has
the key of the opening of the checkout page it was sent from, and no two orders
share a key.  `NetSound`: what each request and answer on its way may be, for any
number of them; a request for an order came from an opened checkout page, and no
refresh left after a log out, for the session is decided by then (`TabSound`).
`OneOrder` is then that two orders of one opening have one key.  `Revival` looks at the
step that gives a logged out tab a token: no answer but a log in, which ends the logged out
state, and a refresh carries one, and the refresh was sent before.

**Images.**  `ImageInv`: the files the form has gone past, `form.sent` of them,
are images that were completed (`SentUp`); an image the form is working on was
made for the next file (`Working`); while the create page is uploading, the files of
the hidden product are those of the form (`HiddenChosen`); a
row that was completed is never made again (`RowsOnce`).  For the limit, `InsertsAlone`: at most one intent is
between its count and its INSERT, and while it is, the images that were not
inserted anew by a save are still fewer than the limit.  Deletions only lower their
number, and every step that could raise it is another intent's, which waits for the
product; without the lock both conjuncts fail.

**Outbox.**  `Counted`: the provider has taken a message once for each hand-over
whose record was lost, with the process or with the answer, and once if its row says so; `HeldQueued`: a message being delivered is not
sent yet; `Exclusive`: nobody else holds it.  The second look under the lock is
what makes `HeldQueued` hold.  `SentIsFinal` follows: every hand-over, also
one whose delivery stops before its commit, is of a message that is held.

**Billing.**  `Once`: an event takes effect once, and while a delivery of it is in
progress it is not processed; `Started`: only a completed checkout has a
subscription, an event or an access; `TrialKnown`: a session without a trial was created after the trial was
recorded, so a delivery that read the flag before that is about a session with
a trial; `Locked` and `OneOpen`: an open session is the one the row names, or the
one a request that holds the row's lock is about to save in place of one that is
not open.

**Accounts.**  `Opened`: a request that waits for the row is about a link there is.  `Rows`: the row, and every row a request will write back, is one the database
has held, with a proven address if it is verified; `Locked`: the link a tab is
using has the address and the password of the row it has locked; `Links`: a link
that was used is of an older password than the row's, unless a row was written
back.

Every safety property the passing runs check, invariant or action property, is
the subject of a theorem.  Only model-checked is liveness under fairness
(`QueuedMailResolved`, `EveryEventProcessed`, `WaitingTabNotices`, `SessionDecided`,
`OwnCartComesBack`), which is beyond the prover, and the three properties the code
violates (see Findings).

## Not modelled

- Categories, prices, totals, addresses, slugs and settings: data no property
  depends on.  Deleting a product or a session while carts refer to it.
- The primary image and the order of images; the public lists.
- Hostname resolution, the sales overview, the platform's dashboards and lists:
  functions of one request and one query, without an order of steps.
- Throttles and permissions: they only refuse, and a refused request is one of the
  lost requests of `ShopBrowser`, `Billing` and `ProductImages`.
- The owner's and the platform administrator's sign-in: the same client code as the
  customer's without a guest cart.
- Asking for a second verification link (`RequestVerificationView`): no page calls
  it.  Running the mail command by hand beside the worker: it is one more worker.
- What TanStack Query does inside (`client/package-lock.json` has its version, `src` not
  its source): the session query of a tab is taken to be fetched once and then only
  written by the code; a version that marks a query invalidated after a failed
  background fetch could send another refresh.
- Rendering, configuration and deployment.
