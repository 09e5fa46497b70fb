------------------------------ MODULE DeskProofs ------------------------------
(* Proofs about a tab of the order pages: for any number of orders, calls     *)
(* and transactions of others, however stale its caches are and however late  *)
(* its requests are served.                                                   *)
EXTENDS OrderDesk, StorefrontProofs

-------------------------------------------------------------------------------
(* What the transactions do to the orders.                                 *)

Seen == [status : Status, fulfil : Fulfilment]

\* Orders are only added, and each goes only forward.
Forward(before, after) ==
  /\ Len(before) <= Len(after)
  /\ \A i \in 1..Len(before) :
       /\ before[i].status = "cancelled" => after[i].status = "cancelled"
       /\ Reached(before[i].fulfil) <= Reached(after[i].fulfil)

LEMMA StagesInOrder ==
  /\ \A f \in Fulfilment : Reached(f) \in Nat
  /\ \A f \in Fulfilment : NextStage(f) \in Fulfilment => Reached(f) <= Reached(NextStage(f))
  /\ \A f, g \in Fulfilment : NextStage(f) \in Fulfilment /\ NextStage(f) = NextStage(g) => f = g
  /\ "none" \notin Fulfilment
<1>1. /\ Reached("unfulfilled") = 0 /\ Reached("processing") = 1
      /\ Reached("shipped") = 2 /\ Reached("delivered") = 3
  BY DEF Reached
<1>2. /\ NextStage("unfulfilled") = "processing" /\ NextStage("processing") = "shipped"
      /\ NextStage("shipped") = "delivered" /\ NextStage("delivered") = "none"
  BY DEF NextStage
<1> QED
  BY <1>1, <1>2 DEF Fulfilment

LEMMA OrdersTyped ==
  ASSUME IInv
  PROVE  /\ orders \in Seq(Order) /\ Len(orders) \in Nat
         /\ \A i \in 1..Len(orders) :
              /\ orders[i] \in Order /\ orders[i].status \in Status
              /\ orders[i].fulfil \in Fulfilment /\ Reached(orders[i].fulfil) \in Nat
<1>1. orders \in Seq(Order)
  BY DEF IInv, TypeOK
<1>2. \A i \in 1..Len(orders) : orders[i] \in Order
  BY <1>1
<1> QED
  BY <1>1, <1>2, StagesInOrder DEF Order

LEMMA RewriteForward ==
  ASSUME IInv, NEW i \in 1..Len(orders), NEW r \in Order, orders' = [orders EXCEPT ![i] = r],
         orders[i].status = "cancelled" => r.status = "cancelled",
         Reached(orders[i].fulfil) <= Reached(r.fulfil)
  PROVE  Forward(orders, orders')
<1>1. /\ Len(orders') = Len(orders) /\ orders'[i] = r
      /\ \A j \in 1..Len(orders) : j # i => orders'[j] = orders[j]
  BY RewrittenOrder
<1>2. ASSUME NEW j \in 1..Len(orders)
      PROVE  /\ orders[j].status = "cancelled" => orders'[j].status = "cancelled"
             /\ Reached(orders[j].fulfil) <= Reached(orders'[j].fulfil)
  <2>1. CASE j = i
    BY <1>1, <2>1
  <2>2. CASE j # i
    <3>1. Reached(orders[j].fulfil) \in Nat
      BY OrdersTyped
    <3> QED
      BY <1>1, <2>2, <3>1
  <2> QED
    BY <2>1, <2>2
<1> QED
  BY <1>1, <1>2, OrdersTyped DEF Forward

LEMMA OrdersForward ==
  ASSUME IInv, [Next]_vars
  PROVE  Forward(orders, orders')
<1>1. CASE UNCHANGED orders
  BY <1>1, OrdersTyped DEF Forward
<1>2. ASSUME NEW t \in Txn, CommitOrder(t) PROVE Forward(orders, orders')
  <2> DEFINE r == NewOrder(tx[t].op.key, tx[t].op.who, tx[t].seen)
  <2>1. orders' = Append(orders, r)
    BY <1>2 DEF CommitOrder
  <2> HIDE DEF r
  <2>2. Len(orders') = Len(orders) + 1 /\ \A i \in 1..Len(orders) : orders'[i] = orders[i]
    BY <2>1, OrdersTyped
  <2> QED
    BY <2>2, OrdersTyped DEF Forward
<1>3. ASSUME NEW t \in Txn, CommitCancel(t) PROVE Forward(orders, orders')
  <2> DEFINE i == tx[t].op.order
             r == [orders[i] EXCEPT !.status = "cancelled"]
  <2>1. i \in 1..Len(orders) /\ orders[i] \in Order
    BY <1>3, CommitCancelFacts
  <2>2. r \in Order /\ r.status = "cancelled" /\ r.fulfil = orders[i].fulfil
    BY <2>1 DEF Order, Status
  <2>3. orders' = [orders EXCEPT ![i] = r]
    BY <1>3 DEF CommitCancel
  <2>4. Reached(orders[i].fulfil) <= Reached(r.fulfil)
    BY <2>1, <2>2, OrdersTyped
  <2> HIDE DEF r, i
  <2> QED
    BY <2>1, <2>2, <2>3, <2>4, RewriteForward
<1>4. ASSUME NEW t \in Txn, CommitStatus(t) PROVE Forward(orders, orders')
  <2> DEFINE i == tx[t].op.order
             f == tx[t].row.fulfil
             r == [orders[i] EXCEPT !.fulfil = f]
  <2>1. /\ i \in 1..Len(orders) /\ orders[i] \in Order /\ f \in Fulfilment
        /\ orders' = [orders EXCEPT ![i] = r]
        /\ f = orders[i].fulfil \/ f = NextStage(orders[i].fulfil)
    BY <1>4, CommitStatusFacts
  <2> HIDE DEF i, f
  <2>2. r \in Order /\ r.status = orders[i].status /\ r.fulfil = f
    BY <2>1 DEF Order
  <2>3. Reached(orders[i].fulfil) <= Reached(f)
    BY <2>1, OrdersTyped, StagesInOrder
  <2> HIDE DEF r
  <2> QED
    BY <2>1, <2>2, <2>3, RewriteForward
<1> QED
  BY FourCommits, <1>1, <1>2, <1>3, <1>4 DEF EditSaveProduct

-------------------------------------------------------------------------------
(* The inductive invariant.                                                *)

\* Rows, by position, that stand on orders of the table tbl which got as far.
Behind(rows, tbl) ==
  \A i \in DOMAIN rows :
    /\ i \in 1..Len(tbl) /\ rows[i] \in Seen
    /\ rows[i].status = "cancelled" => tbl[i].status = "cancelled"
    /\ Reached(rows[i].fulfil) <= Reached(tbl[i].fulfil)

Answers == UNION {[S -> Seen] : S \in SUBSET Nat}

CallType ==
  [kind : {"none", "get"} \cup Written, order : Nat, to : Fulfilment, was : Seen,
   pc : {"free", "sent", "running", "committed", "failed", "answered"}, txn : SUBSET Txn,
   answer : Answers, mounted : BOOLEAN, heard : BOOLEAN]

\* The button that was pressed was offered for the row that was shown.
Offered(c) ==
  /\ c.kind = "status" => c.to = NextFulfillmentStatus(c.was)
  /\ c.kind = "cancel" => CanCancel(c.was)

\* The request x is the one the call is about.
Serves(x, c) ==
  /\ x.pc # "idle" /\ x.op.kind = c.kind /\ x.op.order = c.order
  /\ c.kind = "status" => x.op.to = c.to

\* A call is about an order there is, carries an answer that was true, and while it is
\* served its transaction does what the button asked.
CallSound(c, tbl, txs) ==
  /\ c.order <= Len(tbl)
  /\ c.kind \in Written => c.order > 0
  /\ Behind(c.answer, tbl)
  /\ c.pc = "answered" /\ c.kind \in Written => c.order \in DOMAIN c.answer
  /\ c.pc = "committed" => c.kind \in Written
  /\ Offered(c)
  /\ \A t \in c.txn : c.kind \in Written /\ c.pc = "running" /\ Serves(txs[t], c)

PagesSound ==
  /\ page \in 0..Len(orders)
  /\ Behind(list, orders) /\ Behind(details, orders)

CallsSound ==
  /\ call \in [Call -> CallType]
  /\ \A s \in Call : CallSound(call[s], orders, tx)

DeskInv ==
  /\ PagesSound
  /\ CallsSound
  /\ \A t \in Txn : Asked(tx[t])

-------------------------------------------------------------------------------
(* Steps of the browser and of reads: the orders and the transactions stay. *)

LEMMA NothingBehind == \A tbl : Behind(Nothing, tbl) /\ Nothing \in Answers
<1>1. DOMAIN Nothing = {}
  BY DEF Nothing
<1>2. Nothing \in [{} -> Seen]
  BY DEF Nothing
<1> QED
  BY <1>1, <1>2 DEF Behind, Answers

LEMMA ShownBehind ==
  ASSUME IInv, NEW S \in SUBSET (1..Len(orders))
  PROVE  [i \in S |-> Shown(i)] \in Answers /\ Behind([i \in S |-> Shown(i)], orders)
<1>1. \A i \in S : Shown(i) \in Seen /\ i \in Nat
  BY OrdersTyped DEF Shown, Seen
<1>2. [i \in S |-> Shown(i)] \in [S -> Seen]
  BY <1>1
<1>3. [i \in S |-> Shown(i)] \in Answers
  BY <1>1, <1>2 DEF Answers
<1>4. \A i \in S : i \in 1..Len(orders) /\ Reached(Shown(i).fulfil) <= Reached(orders[i].fulfil)
  BY OrdersTyped DEF Shown
<1> QED
  BY <1>1, <1>3, <1>4 DEF Behind, Shown

LEMMA FreeSound == Free \in CallType /\ \A tbl, txs : Len(tbl) \in Nat => CallSound(Free, tbl, txs)
<1>1. Free \in CallType
  BY NothingBehind DEF Free, CallType, Seen, Status, Fulfilment
<1> QED
  BY <1>1, NothingBehind DEF Free, CallSound, Offered, Written

\* One call changes and the orders stay.
LEMMA PutSound ==
  ASSUME CallsSound, NEW s \in Call, NEW c \in CallType, CallSound(c, orders, tx), Put(s, c),
         UNCHANGED <<orders, tx>>
  PROVE  CallsSound'
<1>1. call' = [call EXCEPT ![s] = c] /\ orders' = orders /\ tx' = tx
  BY DEF Put
<1>2. call' \in [Call -> CallType]
  BY <1>1 DEF CallsSound
<1>3. ASSUME NEW u \in Call PROVE CallSound(call'[u], orders', tx')
  <2>1. CASE u = s
    BY <1>1, <2>1 DEF CallsSound
  <2>2. CASE u # s
    <3>1. call'[u] = call[u]
      BY <1>1, <2>2 DEF CallsSound
    <3> QED
      BY <1>1, <3>1 DEF CallsSound
  <2> QED
    BY <2>1, <2>2
<1> QED
  BY <1>2, <1>3 DEF CallsSound

\* A change of a call that keeps what it is about, its answer and its transaction.
LEMMA SameCall ==
  ASSUME NEW c, NEW d, NEW tbl, NEW txs, CallSound(c, tbl, txs),
         d.kind = c.kind, d.order = c.order, d.to = c.to, d.was = c.was, d.pc = c.pc,
         d.txn = c.txn, d.answer = c.answer
  PROVE  CallSound(d, tbl, txs)
BY DEF CallSound, Offered, Serves

LEMMA CallFacts ==
  ASSUME CallsSound, NEW s \in Call
  PROVE  call[s] \in CallType /\ CallSound(call[s], orders, tx)
BY DEF CallsSound

LEMMA FetchInv ==
  ASSUME IInv, DeskInv, NEW s \in Call, Fetch(s)
  PROVE  DeskInv'
<1> DEFINE c == Sent("get", page)
<1>1. c \in CallType /\ c.kind = "get" /\ c.order = page /\ c.pc = "sent" /\ c.txn = {}
      /\ c.answer = Nothing
  <2>1. Free \in CallType
    BY FreeSound
  <2>2. page \in Nat
    BY OrdersTyped DEF DeskInv, PagesSound
  <2> QED
    BY <2>1, <2>2 DEF Sent, CallType, Free
<1>2. CallSound(c, orders, tx)
  BY <1>1, NothingBehind, OrdersTyped DEF CallSound, Offered, Written, DeskInv, PagesSound
<1> HIDE DEF c
<1>3. Put(s, c) /\ UNCHANGED <<orders, tx, page, list, details>>
  BY DEF Fetch, vars, tables, pages, c
<1>4. CallsSound'
  BY <1>1, <1>2, <1>3, PutSound DEF DeskInv
<1> QED
  BY <1>3, <1>4 DEF DeskInv, PagesSound

LEMMA ViewInv ==
  ASSUME IInv, DeskInv, NEW i \in 0..Len(orders), View(i)
  PROVE  DeskInv'
<1>1. UNCHANGED <<orders, tx, list, details>> /\ page' = i
  BY DEF View, vars, tables
<1>2. ASSUME NEW s \in Call
      PROVE  call'[s] \in CallType /\ CallSound(call'[s], orders', tx')
  <2>1. call[s] \in CallType /\ CallSound(call[s], orders, tx)
    BY CallFacts DEF DeskInv
  <2>2. call'[s] \in {Free, call[s], [call[s] EXCEPT !.mounted = FALSE]}
    BY DEF View
  <2> DEFINE d == [call[s] EXCEPT !.mounted = FALSE]
  <2>3. /\ d \in CallType /\ d.kind = call[s].kind /\ d.order = call[s].order /\ d.to = call[s].to
        /\ d.was = call[s].was /\ d.pc = call[s].pc /\ d.txn = call[s].txn
        /\ d.answer = call[s].answer
    BY <2>1 DEF CallType
  <2> HIDE DEF d
  <2>4. CallSound(d, orders, tx)
    BY <2>1, <2>3, SameCall
  <2> QED
    BY <1>1, <2>1, <2>2, <2>3, <2>4, FreeSound, OrdersTyped DEF d
<1>3. call' \in [Call -> CallType]
  <2>1. call' = [s \in Call |-> call'[s]]
    BY DEF View
  <2> QED
    BY <1>2, <2>1
<1> QED
  BY <1>1, <1>2, <1>3 DEF DeskInv, PagesSound, CallsSound

\* A row of the page that is open.
LEMMA RowFacts ==
  ASSUME DeskInv, NEW i \in DOMAIN Rows
  PROVE  Rows[i] \in Seen /\ i \in 1..Len(orders)
<1>1. CASE page = 0
  BY <1>1 DEF Rows, DeskInv, PagesSound, Behind
<1>2. CASE page # 0
  BY <1>2 DEF Rows, DeskInv, PagesSound, Behind
<1> QED
  BY <1>1, <1>2

LEMMA PressInv ==
  ASSUME IInv, DeskInv, NEW s \in Call, NEW i \in DOMAIN Rows, NEW to \in Fulfilment,
         NEW c, Press(s, i, c),
         \/ c = [Sent("status", i) EXCEPT !.to = to] /\ to = NextFulfillmentStatus(Rows[i])
         \/ c = Sent("cancel", i) /\ CanCancel(Rows[i])
  PROVE  DeskInv'
<1> DEFINE d == [c EXCEPT !.was = Rows[i]]
<1>1. Rows[i] \in Seen /\ i \in 1..Len(orders) /\ i \in Nat /\ i > 0 /\ i <= Len(orders)
  BY RowFacts, OrdersTyped
<1>2. /\ d \in CallType /\ d.kind \in Written /\ d.order = i /\ d.was = Rows[i] /\ d.pc = "sent"
      /\ d.txn = {} /\ d.answer = Nothing
      /\ d.kind = "status" => d.to = NextFulfillmentStatus(Rows[i])
      /\ d.kind = "cancel" => CanCancel(Rows[i])
  <2>1. Free \in CallType
    BY FreeSound
  <2>2. CASE c = [Sent("status", i) EXCEPT !.to = to] /\ to = NextFulfillmentStatus(Rows[i])
    BY <1>1, <2>1, <2>2 DEF Sent, CallType, Free, Written
  <2>3. CASE c = Sent("cancel", i) /\ CanCancel(Rows[i])
    BY <1>1, <2>1, <2>3 DEF Sent, CallType, Free, Written
  <2> QED
    BY <2>2, <2>3
<1>3. Put(s, d) /\ UNCHANGED <<orders, tx, page, list, details>>
  BY DEF Press, vars, tables, pages
<1> HIDE DEF d
<1>4. CallSound(d, orders, tx)
  BY <1>1, <1>2, NothingBehind DEF CallSound, Offered
<1>5. CallsSound'
  BY <1>2, <1>3, <1>4, PutSound DEF DeskInv
<1> QED
  BY <1>3, <1>5 DEF DeskInv, PagesSound

LEMMA MarkNextInv ==
  ASSUME IInv, DeskInv, NEW s \in Call, NEW i \in DOMAIN Rows, MarkNext(s, i)
  PROVE  DeskInv'
BY PressInv DEF MarkNext

LEMMA CancelOrderInv ==
  ASSUME IInv, DeskInv, NEW s \in Call, NEW i \in DOMAIN Rows, CancelOrder(s, i)
  PROVE  DeskInv'
<1>1. "unfulfilled" \in Fulfilment
  BY DEF Fulfilment
<1> QED
  BY <1>1, PressInv DEF CancelOrder

LEMMA ReadInv ==
  ASSUME IInv, DeskInv, NEW s \in Call, Read(s)
  PROVE  DeskInv'
<1> DEFINE c == call[s]
           asked == IF c.order = 0 THEN 1..Len(orders) ELSE {c.order}
           d == [c EXCEPT !.pc = "answered", !.answer = [i \in asked |-> Shown(i)]]
<1>1. c \in CallType /\ CallSound(c, orders, tx) /\ c.kind = "get" /\ c.pc = "sent"
  BY CallFacts DEF DeskInv, Read
<1>2. asked \in SUBSET (1..Len(orders))
  BY <1>1, OrdersTyped DEF CallSound, CallType
<1>3. Put(s, d) /\ UNCHANGED <<orders, tx, page, list, details>>
  BY DEF Read, vars, tables, pages
<1> HIDE DEF asked
<1>4. [i \in asked |-> Shown(i)] \in Answers /\ Behind([i \in asked |-> Shown(i)], orders)
  BY <1>2, ShownBehind
<1>5. /\ d \in CallType /\ d.kind = "get" /\ d.order = c.order /\ d.pc = "answered"
      /\ d.txn = c.txn /\ d.answer = [i \in asked |-> Shown(i)]
  BY <1>1, <1>4 DEF CallType
<1> HIDE DEF d
<1>6. CallSound(d, orders, tx)
  BY <1>1, <1>4, <1>5 DEF CallSound, Offered, Written
<1>7. CallsSound'
  BY <1>3, <1>5, <1>6, PutSound DEF DeskInv
<1> QED
  BY <1>3, <1>7 DEF DeskInv, PagesSound

LEMMA ReadAgainInv ==
  ASSUME IInv, DeskInv, NEW s \in Call, ReadAgain(s)
  PROVE  DeskInv'
<1> DEFINE c == call[s]
           row == [i \in {c.order} |-> Shown(i)]
           d == [c EXCEPT !.pc = "answered", !.answer = row]
<1>1. c \in CallType /\ CallSound(c, orders, tx) /\ c.kind \in Written /\ c.pc = "committed"
  BY CallFacts DEF DeskInv, ReadAgain, CallSound
<1>2. {c.order} \in SUBSET (1..Len(orders))
  BY <1>1, OrdersTyped DEF CallSound, CallType
<1>3. Put(s, d) /\ UNCHANGED <<orders, tx, page, list, details>>
  BY DEF ReadAgain, vars, tables, pages
<1>5. row \in Answers /\ Behind(row, orders) /\ c.order \in DOMAIN row
  BY <1>2, ShownBehind
<1> HIDE DEF row
<1>6. /\ d \in CallType /\ d.kind = c.kind /\ d.order = c.order /\ d.to = c.to /\ d.was = c.was
      /\ d.pc = "answered" /\ d.txn = c.txn /\ d.answer = row
  BY <1>1, <1>5 DEF CallType
<1> HIDE DEF d
<1>7. CallSound(d, orders, tx)
  BY <1>1, <1>5, <1>6 DEF CallSound, Offered
<1>8. CallsSound'
  BY <1>3, <1>6, <1>7, PutSound DEF DeskInv
<1> QED
  BY <1>3, <1>8 DEF DeskInv, PagesSound

LEMMA LoseInv ==
  ASSUME IInv, DeskInv, NEW s \in Call, Lose(s)
  PROVE  DeskInv'
<1>1. UNCHANGED <<orders, tx, page, list, details>>
  BY DEF Lose, vars, tables, pages
<1> DEFINE c == call[s]
           d == [c EXCEPT !.heard = FALSE]
<1>2. c \in CallType /\ CallSound(c, orders, tx)
  BY CallFacts DEF DeskInv
<1>3. /\ d \in CallType /\ d.kind = c.kind /\ d.order = c.order /\ d.to = c.to /\ d.was = c.was
      /\ d.pc = c.pc /\ d.txn = c.txn /\ d.answer = c.answer
  BY <1>2 DEF CallType
<1>4. Put(s, d) \/ Put(s, Free)
  BY DEF Lose
<1> HIDE DEF d
<1>5. CallSound(d, orders, tx) /\ CallSound(Free, orders, tx) /\ Free \in CallType
  BY <1>2, <1>3, SameCall, FreeSound, OrdersTyped
<1>6. CallsSound'
  BY <1>1, <1>3, <1>4, <1>5, PutSound DEF DeskInv
<1> QED
  BY <1>1, <1>6 DEF DeskInv, PagesSound

\* What an answer leaves in the caches was true when it was given.
LEMMA AnswerInv ==
  ASSUME IInv, DeskInv, NEW s \in Call, Answer(s)
  PROVE  DeskInv'
<1> DEFINE c == call[s]
<1>1. c \in CallType /\ CallSound(c, orders, tx)
  BY CallFacts DEF DeskInv
<1>2. Put(s, Free) /\ UNCHANGED <<orders, tx, page>>
  BY DEF Answer, vars, tables
<1>3. CallsSound'
  BY <1>2, PutSound, FreeSound, OrdersTyped DEF DeskInv
<1>4. Behind(list, orders) /\ Behind(details, orders) /\ Behind(c.answer, orders)
  BY <1>1 DEF DeskInv, PagesSound, CallSound
<1>5. Behind(list', orders) /\ Behind(details', orders)
  <2>1. CASE Fetched(c)
    BY <1>4, <2>1 DEF Fetched, SetQueryData, Behind
  <2>2. CASE /\ c.pc = "answered" /\ c.kind \in Written
             /\ UpdateOrderCache(c.order, c.answer[c.order])
    <3>1. c.order \in DOMAIN c.answer
      BY <1>1, <2>2 DEF CallSound
    <3> QED
      BY <1>4, <2>2, <3>1 DEF UpdateOrderCache, SetQueryData, Behind
  <2>3. CASE UNCHANGED <<list, details>>
    BY <1>4, <2>3
  <2> QED
    BY <2>1, <2>2, <2>3 DEF Answer
<1> QED
  BY <1>2, <1>3, <1>5 DEF DeskInv, PagesSound

-------------------------------------------------------------------------------
(* Steps of the transactions.                                              *)

\* Rows that are behind stay behind.
LEMMA StayBehind ==
  ASSUME NEW before, NEW after, Forward(before, after), NEW rows, Behind(rows, before),
         Len(before) \in Nat, Len(after) \in Nat,
         \A i \in 1..Len(before) : Reached(before[i].fulfil) \in Nat,
         \A i \in 1..Len(after) : Reached(after[i].fulfil) \in Nat
  PROVE  Behind(rows, after)
<1> SUFFICES ASSUME NEW i \in DOMAIN rows
             PROVE  /\ i \in 1..Len(after) /\ rows[i] \in Seen
                    /\ rows[i].status = "cancelled" => after[i].status = "cancelled"
                    /\ Reached(rows[i].fulfil) <= Reached(after[i].fulfil)
  BY DEF Behind
<1>1. /\ i \in 1..Len(before) /\ i \in 1..Len(after) /\ rows[i] \in Seen
      /\ Reached(rows[i].fulfil) \in Nat
  BY StagesInOrder DEF Behind, Forward, Seen
<1>2. /\ rows[i].status = "cancelled" => before[i].status = "cancelled"
      /\ Reached(rows[i].fulfil) <= Reached(before[i].fulfil)
  BY DEF Behind
<1>3. /\ before[i].status = "cancelled" => after[i].status = "cancelled"
      /\ Reached(before[i].fulfil) <= Reached(after[i].fulfil)
  BY <1>1 DEF Forward
<1>4. Reached(before[i].fulfil) \in Nat /\ Reached(after[i].fulfil) \in Nat
  BY <1>1
<1> QED
  BY <1>1, <1>2, <1>3, <1>4

\* The pages while the orders go forward.
LEMMA PagesKept ==
  ASSUME IInv, IInv', [Next]_vars, PagesSound, UNCHANGED pages
  PROVE  /\ PagesSound' /\ Len(orders) <= Len(orders')
         /\ Len(orders) \in Nat /\ Len(orders') \in Nat
         /\ \A rows : Behind(rows, orders) => Behind(rows, orders')
<1>1. Forward(orders, orders') /\ Len(orders) \in Nat
      /\ \A i \in 1..Len(orders) : Reached(orders[i].fulfil) \in Nat
  BY OrdersForward, OrdersTyped
<1>2. Len(orders') \in Nat /\ \A i \in 1..Len(orders') : Reached(orders'[i].fulfil) \in Nat
  <2>1. orders' \in Seq(Order)
    BY DEF IInv, TypeOK
  <2>2. \A i \in 1..Len(orders') : orders'[i] \in Order
    BY <2>1
  <2> QED
    BY <2>1, <2>2, StagesInOrder DEF Order
<1>3. \A rows : Behind(rows, orders) => Behind(rows, orders')
  BY <1>1, <1>2, StayBehind
<1>4. Len(orders) <= Len(orders')
  BY <1>1 DEF Forward
<1> QED
  BY <1>1, <1>2, <1>3, <1>4 DEF PagesSound, pages

\* A call that did not change, when its transaction goes on.
LEMMA CallKept ==
  ASSUME NEW c \in CallType, CallSound(c, orders, tx),
         Len(orders) <= Len(orders'), Len(orders) \in Nat, Len(orders') \in Nat,
         \A rows : Behind(rows, orders) => Behind(rows, orders'),
         \A t \in c.txn : tx'[t].op = tx[t].op /\ tx'[t].pc # "idle"
  PROVE  CallSound(c, orders', tx')
BY DEF CallSound, Serves, CallType

LEMMA ServeOthersInv ==
  ASSUME IInv, IInv', DeskInv, NEW t \in Txn, ServeOthers(t)
  PROVE  DeskInv'
<1>1. [Next]_vars /\ UNCHANGED <<pages, call>> /\ Begin(t)
  BY DEF ServeOthers, Next
<1>2. /\ PagesSound' /\ Len(orders) <= Len(orders')
      /\ Len(orders) \in Nat /\ Len(orders') \in Nat
      /\ \A rows : Behind(rows, orders) => Behind(rows, orders')
  BY <1>1, PagesKept DEF DeskInv
<1>3. /\ \A u \in Txn \ {t} : tx'[u] = tx[u]
      /\ tx[t].pc = "idle" /\ tx'[t].pc \notin {"idle", "commit"}
  BY <1>1, BeginMoves
<1>4. ASSUME NEW s \in Call PROVE CallSound(call'[s], orders', tx')
  <2>1. call[s] \in CallType /\ CallSound(call[s], orders, tx) /\ call'[s] = call[s]
    BY <1>1, CallFacts DEF DeskInv
  <2>2. \A u \in call[s].txn : u \in Txn /\ u # t /\ tx[u].pc # "idle"
    BY <1>3, <2>1 DEF CallSound, Serves, CallType
  <2> QED
    BY <1>2, <1>3, <2>1, <2>2, CallKept
<1>5. \A u \in Txn : Asked(tx'[u])
  BY <1>3 DEF DeskInv, Asked
<1> QED
  BY <1>1, <1>2, <1>4, <1>5 DEF DeskInv, CallsSound

LEMMA ServeInv ==
  ASSUME IInv, IInv', DeskInv, NEW s \in Call, NEW t \in Txn, Serve(s, t)
  PROVE  DeskInv'
<1> DEFINE c == call[s]
           d == [c EXCEPT !.pc = "running", !.txn = {t}]
<1>1. /\ [Next]_vars /\ UNCHANGED pages /\ Begin(t) /\ Put(s, d)
      /\ c.kind \in Written /\ c.pc = "sent"
      /\ tx'[t].op.kind = c.kind /\ tx'[t].op.order = c.order
      /\ c.kind = "status" => tx'[t].op.to = c.to
  BY DEF Serve, Next
<1>2. /\ PagesSound' /\ Len(orders) <= Len(orders')
      /\ Len(orders) \in Nat /\ Len(orders') \in Nat
      /\ \A rows : Behind(rows, orders) => Behind(rows, orders')
  BY <1>1, PagesKept DEF DeskInv
<1>3. /\ \A u \in Txn \ {t} : tx'[u] = tx[u]
      /\ tx[t].pc = "idle" /\ tx'[t].pc \notin {"idle", "commit"}
  BY <1>1, BeginMoves
<1>4. c \in CallType /\ CallSound(c, orders, tx)
  BY CallFacts DEF DeskInv
<1>5. /\ d \in CallType /\ d.kind = c.kind /\ d.order = c.order /\ d.to = c.to /\ d.was = c.was
      /\ d.pc = "running" /\ d.txn = {t} /\ d.answer = c.answer
  BY <1>4 DEF CallType
<1>6. call' = [call EXCEPT ![s] = d]
  BY <1>1 DEF Put
<1> HIDE DEF d
<1>7. CallSound(d, orders', tx')
  BY <1>1, <1>2, <1>3, <1>4, <1>5 DEF CallSound, Offered, Serves, CallType
<1>8. ASSUME NEW r \in Call, r # s PROVE CallSound(call'[r], orders', tx')
  <2>1. call[r] \in CallType /\ CallSound(call[r], orders, tx) /\ call'[r] = call[r]
    BY <1>6, <1>8, CallFacts DEF DeskInv, CallsSound
  <2>2. \A u \in call[r].txn : u \in Txn /\ u # t /\ tx[u].pc # "idle"
    BY <1>3, <2>1 DEF CallSound, Serves, CallType
  <2> QED
    BY <1>2, <1>3, <2>1, <2>2, CallKept
<1>9. CallsSound'
  BY <1>5, <1>6, <1>7, <1>8 DEF DeskInv, CallsSound
<1>10. \A u \in Txn : Asked(tx'[u])
  BY <1>3 DEF DeskInv, Asked
<1> QED
  BY <1>2, <1>9, <1>10 DEF DeskInv

\* A statement or a rollback, and what becomes of the call whose transaction ends.
LEMMA SettleInv ==
  ASSUME IInv, IInv', [Next]_vars, DeskInv, UNCHANGED pages, NEW t \in Txn, Moves(t),
         NEW well \in BOOLEAN, Settle(t, well)
  PROVE  DeskInv'
<1>1. /\ PagesSound' /\ Len(orders) <= Len(orders')
      /\ Len(orders) \in Nat /\ Len(orders') \in Nat
      /\ \A rows : Behind(rows, orders) => Behind(rows, orders')
  BY PagesKept DEF DeskInv
<1>2. ASSUME NEW s \in Call
      PROVE  call'[s] \in CallType /\ CallSound(call'[s], orders', tx')
  <2> DEFINE c == call[s]
             d == [c EXCEPT !.txn = {}, !.pc = IF well THEN "committed" ELSE "failed"]
  <2>1. c \in CallType /\ CallSound(c, orders, tx)
    BY CallFacts DEF DeskInv
  <2>2. CASE t \in c.txn /\ tx'[t].pc = "idle"
    <3>1. call'[s] = d
      BY <2>2 DEF Settle
    <3>2. /\ d \in CallType /\ d.kind = c.kind /\ d.order = c.order /\ d.to = c.to
          /\ d.was = c.was /\ d.pc \in {"committed", "failed"} /\ d.txn = {}
          /\ d.answer = c.answer
      BY <2>1 DEF CallType
    <3>3. c.kind \in Written
      BY <2>1, <2>2 DEF CallSound
    <3> HIDE DEF d
    <3> QED
      BY <1>1, <2>1, <3>1, <3>2, <3>3 DEF CallSound, Offered, CallType
  <2>3. CASE ~ (t \in c.txn /\ tx'[t].pc = "idle")
    <3>1. call'[s] = c
      BY <2>3 DEF Settle
    <3>2. \A u \in c.txn : u \in Txn /\ tx'[u].op = tx[u].op /\ tx'[u].pc # "idle"
      <4>1. \A u \in c.txn : u \in Txn /\ tx[u].pc # "idle"
        BY <2>1 DEF CallSound, Serves, CallType
      <4> QED
        BY <2>3, <4>1 DEF Moves, Idle
    <3> QED
      BY <1>1, <2>1, <3>1, <3>2, CallKept
  <2> QED
    BY <2>2, <2>3
<1>3. call' \in [Call -> CallType]
  <2>1. call' = [s \in Call |-> call'[s]]
    BY DEF Settle
  <2> QED
    BY <1>2, <2>1
<1>4. \A u \in Txn : Asked(tx'[u])
  BY DEF Moves, DeskInv, Asked, Idle
<1> QED
  BY <1>1, <1>2, <1>3, <1>4 DEF DeskInv, CallsSound

-------------------------------------------------------------------------------
(* The invariant and the theorems.                                         *)

LEMMA WorkInv ==
  ASSUME IInv, IInv', DeskInv, NEW t \in Txn, Work(t) \/ Break(t)
  PROVE  DeskInv'
<1>1. CASE Work(t)
  <2> DEFINE well == tx[t].op.kind \in Written /\ Succeeds(t)
  <2>1. [Next]_vars /\ UNCHANGED pages /\ Moves(t) /\ Settle(t, well) /\ well \in BOOLEAN
    BY <1>1, StatementMoves DEF Work, Next
  <2> HIDE DEF well
  <2> QED
    BY <2>1, SettleInv
<1>2. CASE Break(t)
  <2>1. [Next]_vars /\ UNCHANGED pages /\ Moves(t) /\ Settle(t, FALSE)
    BY <1>2, AbortMoves DEF Break, Next, DeadlockVictim, WorkerDies
  <2> QED
    BY <2>1, SettleInv
<1> QED
  BY <1>1, <1>2

LEMMA DeskStep ==
  ASSUME IInv, IInv', DeskInv, [DeskNext]_deskVars
  PROVE  DeskInv'
<1>1. CASE UNCHANGED deskVars
  BY <1>1 DEF deskVars, pages, vars, tables, DeskInv, PagesSound, CallsSound
<1>2. ASSUME NEW s \in Call,
             \/ Fetch(s) \/ Read(s) \/ ReadAgain(s) \/ Answer(s) \/ Lose(s)
             \/ \E i \in DOMAIN Rows : MarkNext(s, i) \/ CancelOrder(s, i)
             \/ \E t \in Txn : Serve(s, t)
      PROVE  DeskInv'
  BY <1>2, FetchInv, ReadInv, ReadAgainInv, AnswerInv, LoseInv, MarkNextInv, CancelOrderInv,
     ServeInv
<1>3. ASSUME NEW t \in Txn, ServeOthers(t) \/ Work(t) \/ Break(t) PROVE DeskInv'
  BY <1>3, ServeOthersInv, WorkInv
<1> QED
  BY <1>1, <1>2, <1>3, ViewInv DEF DeskNext

LEMMA DeskStart == DeskInit => DeskInv
<1> SUFFICES ASSUME DeskInit PROVE DeskInv
  OBVIOUS
<1>1. orders \in Seq(Order) /\ tx = [t \in Txn |-> Idle]
  BY StorefrontAssumption DEF DeskInit, Init, OrderTables
<1>2. Len(orders) \in Nat
  BY <1>1
<1>3. PagesSound
  BY <1>2, NothingBehind DEF DeskInit, PagesSound
<1>4. CallsSound
  BY <1>2, FreeSound DEF DeskInit, CallsSound
<1>5. \A t \in Txn : Asked(tx[t])
  BY <1>1 DEF Asked, Idle
<1> QED
  BY <1>3, <1>4, <1>5 DEF DeskInv

\* A step of the tab is a step of the storefront, or none.
LEMMA DeskStepIsStep == [DeskNext]_deskVars => [Next]_vars
<1>1. UNCHANGED deskVars => UNCHANGED vars
  BY DEF deskVars
<1>2. ASSUME NEW s \in Call,
             \/ Fetch(s) \/ Read(s) \/ ReadAgain(s) \/ Answer(s) \/ Lose(s)
             \/ \E i \in DOMAIN Rows : MarkNext(s, i) \/ CancelOrder(s, i)
      PROVE  UNCHANGED vars
  BY <1>2 DEF Fetch, Read, ReadAgain, Answer, Lose, MarkNext, CancelOrder, Press
<1>3. ASSUME NEW i \in 0..Len(orders), View(i) PROVE UNCHANGED vars
  BY <1>3 DEF View
<1>4. ASSUME NEW s \in Call, NEW t \in Txn, Serve(s, t) PROVE Next
  BY <1>4 DEF Serve, Next
<1>5. ASSUME NEW t \in Txn, ServeOthers(t) \/ Work(t) \/ Break(t) PROVE Next
  BY <1>5 DEF ServeOthers, Work, Break, Next
<1> QED
  BY <1>1, <1>2, <1>3, <1>4, <1>5 DEF DeskNext

\* Behind the pages runs the storefront and nothing else: a tab that is stale, presses twice
\* or loses answers causes only behaviours of orders/views.py, so what StorefrontProofs and
\* CartProofs state of those holds beside every tab.
THEOREM DeskRunsStorefront == DeskSpec => Spec
<1>1. DeskInit => Init
  BY DEF DeskInit
<1> QED
  BY <1>1, DeskStepIsStep, PTL DEF DeskSpec, Spec

LEMMA DeskInvariance == DeskSpec => [](IInv /\ DeskInv)
<1>1. IInv /\ IInv' /\ DeskInv /\ [DeskNext]_deskVars => DeskInv'
  BY DeskStep
<1> QED
  BY <1>1, DeskStart, DeskRunsStorefront, Invariance, PTL DEF DeskSpec

\* Whatever a tab shows of an order is true of it by now: it was cancelled if it is shown
\* cancelled, and reached the stage that is shown, for any order of the answers.
THEOREM ShownHasHappened == DeskSpec => []ShownIsCommitted
<1>1. IInv /\ DeskInv => ShownIsCommitted
  BY DEF DeskInv, PagesSound, Behind, ShownIsCommitted, NotAhead
<1> QED
  BY <1>1, DeskInvariance, PTL

\* A call ends well only by the commit of its transaction, and only two kinds of commit a
\* page can ask for write the orders.
LEMMA CommitOfCall ==
  ASSUME IInv, DeskInv, [DeskNext]_deskVars, NEW s \in Call, call[s].txn # {},
         orders' # orders, call'[s].pc = "committed"
  PROVE  /\ call'[s].order = call[s].order
         /\ \E t \in call[s].txn : t \in Txn /\ (CommitCancel(t) \/ CommitStatus(t))
<1>1. /\ call[s] \in CallType /\ CallSound(call[s], orders, tx) /\ call[s].pc = "running"
      /\ call[s].kind \in Written
  BY CallFacts DEF DeskInv, CallSound
<1>2. PICK t \in Txn : ServeOthers(t) \/ Work(t) \/ Break(t) \/ \E r \in Call : Serve(r, t)
  <2>1. ~ UNCHANGED vars
    BY DEF vars, tables
  <2>2. ASSUME NEW r \in Call,
               \/ Fetch(r) \/ Read(r) \/ ReadAgain(r) \/ Answer(r) \/ Lose(r)
               \/ \E i \in DOMAIN Rows : MarkNext(r, i) \/ CancelOrder(r, i)
        PROVE  FALSE
    BY <2>1, <2>2 DEF Fetch, Read, ReadAgain, Answer, Lose, MarkNext, CancelOrder, Press
  <2>3. ASSUME NEW i \in 0..Len(orders), View(i) PROVE FALSE
    BY <2>1, <2>3 DEF View
  <2>4. ~ UNCHANGED deskVars
    BY <2>1 DEF deskVars
  <2> QED
    BY <2>2, <2>3, <2>4 DEF DeskNext
<1>3. ~ Begin(t) /\ ~ DeadlockVictim(t) /\ ~ WorkerDies(t)
  BY DEF Begin, DeadlockVictim, WorkerDies, Abort, tables
<1>4. Work(t)
  BY <1>2, <1>3 DEF ServeOthers, Serve, Break
<1>5. CommitOrder(t) \/ CommitCancel(t) \/ CommitStatus(t)
  BY <1>4, CartStepsKeep, OrderReadsKeep DEF Work, Statement, EditSaveProduct
<1>6. t \in call[s].txn
  BY <1>1, <1>4 DEF Work, Settle
<1>7. ~ CommitOrder(t)
  BY <1>1, <1>6 DEF CommitOrder, At, CallSound, Serves, Written
<1>8. call'[s].order = call[s].order
  BY <1>1, <1>4 DEF Work, Settle, CallType
<1> QED
  BY <1>5, <1>6, <1>7, <1>8

\* The order i as the pages know it after the step.
ShownThen(i) == [status |-> orders'[i].status, fulfil |-> orders'[i].fulfil]

LEMMA StatusAsPressed ==
  ASSUME IInv, DeskInv, NEW s \in Call, NEW t \in call[s].txn, t \in Txn, CommitStatus(t),
         orders' # orders
  PROVE  LET c == call[s]
         IN /\ c.kind = "status" /\ c.was = Shown(c.order)
            /\ c.order \in 1..Len(orders)
            /\ ShownThen(c.order) = [c.was EXCEPT !.fulfil = c.to]
<1> DEFINE c == call[s]
           i == c.order
           o == orders[i]
           f == tx[t].row.fulfil
           r == [o EXCEPT !.fulfil = f]
<1>1. /\ c \in CallType /\ c.kind = "status" /\ tx[t].op.order = i
      /\ f = c.to /\ c.to = NextFulfillmentStatus(c.was)
  BY CallFacts DEF DeskInv, CallSound, Offered, Serves, Asked, CommitStatus, At
<1>2. /\ i \in 1..Len(orders) /\ o \in Order /\ f \in Fulfilment
      /\ orders' = [orders EXCEPT ![i] = r]
      /\ \/ f = o.fulfil
         \/ o.status = "confirmed" /\ f = NextStage(o.fulfil)
  BY <1>1, CommitStatusFacts
<1>3. f # o.fulfil
  <2> SUFFICES ASSUME f = o.fulfil PROVE orders' = orders
    OBVIOUS
  <2>1. r = o
    BY <1>2 DEF Order
  <2>2. orders \in Seq(Order)
    BY OrdersTyped
  <2> HIDE DEF r
  <2> QED
    BY <1>2, <2>1, <2>2
<1>4. c.was \in Seen /\ c.was.status = "confirmed" /\ NextStage(c.was.fulfil) = f
  BY <1>1, <1>2, StagesInOrder DEF NextFulfillmentStatus, CallType, Seen, Status
<1>5. o.status = "confirmed" /\ o.fulfil = c.was.fulfil
  BY <1>2, <1>3, <1>4, StagesInOrder DEF Seen, Order
<1>6. c.was = Shown(i)
  BY <1>4, <1>5 DEF Shown, Seen
<1>7. r \in Order /\ r.status = o.status /\ r.fulfil = f
  BY <1>2 DEF Order
<1>8. orders'[i] = r
  <2> HIDE DEF r, i
  <2> QED
    BY <1>2, <1>7, RewrittenOrder
<1>9. ShownThen(i) = [status |-> o.status, fulfil |-> f]
  BY <1>7, <1>8 DEF ShownThen
<1> QED
  BY <1>1, <1>2, <1>4, <1>5, <1>6, <1>9 DEF Seen

LEMMA CancelAsPressed ==
  ASSUME IInv, DeskInv, NEW s \in Call, NEW t \in call[s].txn, t \in Txn, CommitCancel(t)
  PROVE  LET c == call[s]
         IN /\ c.kind = "cancel" /\ CanCancel(c.was) /\ CanCancel(Shown(c.order))
            /\ c.order \in 1..Len(orders)
            /\ ShownThen(c.order) = [Shown(c.order) EXCEPT !.status = "cancelled"]
<1> DEFINE c == call[s]
           i == c.order
           o == orders[i]
           r == [o EXCEPT !.status = "cancelled"]
<1>1. c \in CallType /\ c.kind = "cancel" /\ tx[t].op.order = i /\ CanCancel(c.was)
  BY CallFacts DEF DeskInv, CallSound, Offered, Serves, CommitCancel, At
<1>2. i \in 1..Len(orders) /\ o \in Order /\ o.status = "confirmed" /\ o.fulfil \in InStore
  BY <1>1, CommitCancelFacts
<1>3. orders' = [orders EXCEPT ![i] = r]
  BY <1>1 DEF CommitCancel
<1>4. r \in Order /\ r.status = "cancelled" /\ r.fulfil = o.fulfil
  BY <1>2 DEF Order, Status
<1>5. orders'[i] = r
  <2> HIDE DEF r, i
  <2> QED
    BY <1>2, <1>3, <1>4, RewrittenOrder
<1>6. ShownThen(i) = [Shown(i) EXCEPT !.status = "cancelled"]
  BY <1>4, <1>5 DEF ShownThen, Shown
<1>7. CanCancel(Shown(i))
  BY <1>2 DEF CanCancel, Shown
<1> QED
  BY <1>1, <1>2, <1>6, <1>7

\* The server does for a tab only what its button asked, on the order as the tab showed it,
\* for any staleness of the pages and any delay of the requests.
THEOREM PressedIsDone == DeskSpec => ChangedAsPressed
<1> DEFINE AsPressed ==
      \A s \in Call :
         LET c == call[s]
             i == c.order
         IN (c.txn # {} /\ orders' # orders /\ call'[s].pc = "committed") =>
              \/ c.kind = "status" /\ c.was = Shown(i) /\ Shown(i)' = [c.was EXCEPT !.fulfil = c.to]
              \/ /\ c.kind = "cancel" /\ CanCancel(c.was) /\ CanCancel(Shown(i))
                 /\ Shown(i)' = [Shown(i) EXCEPT !.status = "cancelled"]
<1>1. ASSUME IInv, DeskInv, [DeskNext]_deskVars PROVE AsPressed
  <2> SUFFICES ASSUME NEW s \in Call, call[s].txn # {}, orders' # orders,
                      call'[s].pc = "committed"
               PROVE  LET c == call[s]
                          i == c.order
                      IN \/ /\ c.kind = "status" /\ c.was = Shown(i)
                            /\ Shown(i)' = [c.was EXCEPT !.fulfil = c.to]
                         \/ /\ c.kind = "cancel" /\ CanCancel(c.was) /\ CanCancel(Shown(i))
                            /\ Shown(i)' = [Shown(i) EXCEPT !.status = "cancelled"]
    OBVIOUS
  <2>1. PICK t \in call[s].txn : t \in Txn /\ (CommitCancel(t) \/ CommitStatus(t))
    BY <1>1, CommitOfCall
  <2>2. Shown(call[s].order)' = ShownThen(call[s].order)
    BY <1>1, CommitOfCall DEF Shown, ShownThen
  <2> QED
    BY <1>1, <2>1, <2>2, CancelAsPressed, StatusAsPressed
<1>2. IInv /\ DeskInv /\ [DeskNext]_deskVars => [AsPressed]_deskVars
  BY <1>1
<1> QED
  BY <1>2, DeskInvariance, PTL DEF DeskSpec, ChangedAsPressed
===============================================================================
