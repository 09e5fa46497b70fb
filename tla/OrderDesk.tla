------------------------------ MODULE OrderDesk ------------------------------
(***************************************************************************)
(* A tab of the merchant's order pages (client/src/app/admin/orders) on    *)
(* top of the transactions of Storefront.  A page shows what the tab has   *)
(* cached of the orders; a button asks for the stage that follows the one  *)
(* shown, which other tabs and earlier calls may have left behind.  The    *)
(* requests of everybody else, other tabs of the merchant included, are    *)
(* those of Storefront.                                                    *)
(*                                                                         *)
(* The minute after which a cached query counts as stale may pass between  *)
(* any two steps: a page may fetch its query again at any time.            *)
(***************************************************************************)
EXTENDS Storefront

CONSTANTS
  Others,      \* the operations everybody else issues
  Call,        \* the calls of the tab that can be in progress at once
  MaxPressed   \* bound: buttons pressed

\* Ops has the cancellations and the status changes the pages may send.
ASSUME DeskAssumption == Others \subseteq Ops /\ MaxPressed \in Nat

VARIABLES
  page,     \* the order whose details the tab shows, 0 for the list
  list,     \* the cached list, an order's row by its position
  details,  \* the cached single orders
  call,     \* call[s]: the call in s
  pressed   \* buttons pressed so far (bound)

pages == <<page, list, details>>
deskVars == <<vars, pages, call, pressed>>

Written == {"status", "cancel"}

\* An order as the pages know it.
Shown(i) == [status |-> orders[i].status, fulfil |-> orders[i].fulfil]

Nothing == <<>>

Free == [kind    |-> "none",
         order   |-> 0,                \* 0: the list
         to      |-> "unfulfilled",
         was     |-> [status |-> "confirmed", fulfil |-> "unfulfilled"],  \* the row pressed on
         pc      |-> "free",           \* sent, running, committed, failed, answered
         txn     |-> {},               \* the transaction that serves it
         answer  |-> Nothing,          \* rows by position
         mounted |-> TRUE,             \* the page that started it is still open
         heard   |-> TRUE]             \* the browser still waits for it

\* A call of a page.
Sent(kind, i) ==
  [Free EXCEPT !.kind = kind, !.order = i, !.pc = "sent"]

DeskInit ==
  /\ Init
  /\ page = 0
  /\ list = Nothing
  /\ details = Nothing
  /\ call = [s \in Call |-> Free]
  /\ pressed = 0

Put(s, c) == call' = [call EXCEPT ![s] = c]

-------------------------------------------------------------------------------
(* The pages.                                                              *)

\* The rows a page shows: all of the list, or the order of the details page.
Rows ==
  IF page = 0 THEN list ELSE [i \in DOMAIN details \cap {page} |-> details[i]]

\* The next stage a page offers for a row.
NextFulfillmentStatus(row) ==
  IF row.status = "cancelled" THEN "none" ELSE NextStage(row.fulfil)

CanCancel(row) == row.status = "confirmed" /\ row.fulfil \in InStore

Fetching == \E s \in Call : call[s].kind = "get"

\* The page's buttons are disabled while a mutation it started is pending.
IsUpdating ==
  \E s \in Call : call[s].kind \in Written /\ call[s].mounted /\ call[s].heard

\* useAdminOrders, useAdminOrder: the query of the page that is open.
Fetch(s) ==
  /\ call[s] = Free
  /\ ~ Fetching
  /\ Put(s, Sent("get", page))
  /\ UNCHANGED <<vars, pages, pressed>>

\* "View" on the list and "Back to orders" on an order.  The query left without
\* a page is cancelled; a mutation goes on without one.
View(i) ==
  /\ page # i
  /\ page # 0 => i = 0
  /\ i # 0 => i \in DOMAIN list
  /\ page' = i
  /\ call' = [s \in Call |->
                CASE call[s].kind = "get" -> Free
                  [] call[s].kind \in Written -> [call[s] EXCEPT !.mounted = FALSE]
                  [] OTHER -> call[s]]
  /\ UNCHANGED <<vars, list, details, pressed>>

\* A button on row i of the page starts the mutation c.
Press(s, i, c) ==
  /\ call[s] = Free
  /\ pressed < MaxPressed
  /\ ~ IsUpdating
  /\ Put(s, [c EXCEPT !.was = Rows[i]])
  /\ pressed' = pressed + 1
  /\ UNCHANGED <<vars, pages>>

\* Fault: the row takes its new stage before the server has answered.
MarkOptimistically(s, i) ==
  LET to == NextFulfillmentStatus(Rows[i])
  IN /\ to \in Fulfilment
     /\ call[s] = Free
     /\ pressed < MaxPressed
     /\ ~ IsUpdating
     /\ Put(s, [Sent("status", i) EXCEPT !.to = to, !.was = Rows[i]])
     /\ pressed' = pressed + 1
     /\ list' = [j \in DOMAIN list |-> IF j = i THEN [list[j] EXCEPT !.fulfil = to] ELSE list[j]]
     /\ UNCHANGED <<vars, page, details>>

\* "Mark as ...", on the list and on the details page.
MarkNext(s, i) ==
  LET to == NextFulfillmentStatus(Rows[i])
  IN /\ to \in Fulfilment
     /\ Press(s, i, [Sent("status", i) EXCEPT !.to = to])

\* "Cancel order", on the details page only.
CancelOrder(s, i) ==
  /\ page = i
  /\ CanCancel(Rows[i])
  /\ Press(s, i, Sent("cancel", i))

-------------------------------------------------------------------------------
(* The server: AdminOrderListView, AdminOrderDetailView, and the           *)
(* transactions of Storefront for the two views that write.                *)

\* A GET reads the committed rows.
Read(s) ==
  LET c == call[s]
      asked == IF c.order = 0 THEN 1..Len(orders) ELSE {c.order}
  IN /\ c.kind = "get" /\ c.pc = "sent"
     /\ Put(s, [c EXCEPT !.pc = "answered", !.answer = [i \in asked |-> Shown(i)]])
     /\ UNCHANGED <<vars, pages, pressed>>

\* A worker takes the request of a mutation ...
Serve(s, t) ==
  LET c == call[s]
  IN /\ c.kind \in Written /\ c.pc = "sent"
     /\ Begin(t)
     /\ tx'[t].op.kind = c.kind /\ tx'[t].op.order = c.order
     /\ c.kind = "status" => tx'[t].op.to = c.to
     /\ Put(s, [c EXCEPT !.pc = "running", !.txn = {t}])
     /\ UNCHANGED <<pages, pressed>>

\* ... or a request of somebody else.
ServeOthers(t) ==
  /\ Begin(t)
  /\ tx'[t].op \in Others
  /\ UNCHANGED <<pages, call, pressed>>

\* The transaction of a call ends, well or not.
Settle(t, well) ==
  call' = [s \in Call |->
             IF t \in call[s].txn /\ tx'[t].pc = "idle"
             THEN [call[s] EXCEPT !.txn = {}, !.pc = IF well THEN "committed" ELSE "failed"]
             ELSE call[s]]

\* What ends without an error: a commit, and cancelling a cancelled order.
Succeeds(t) ==
  \/ tx[t].pc = "commit"
  \/ tx[t].op.kind = "cancel" /\ orders[tx[t].op.order].status = "cancelled"

Work(t) ==
  /\ Statement(t)
  /\ Settle(t, tx[t].op.kind \in Written /\ Succeeds(t))
  /\ UNCHANGED <<pages, pressed>>

Break(t) ==
  /\ DeadlockVictim(t) \/ WorkerDies(t)
  /\ Settle(t, FALSE)
  /\ UNCHANGED <<pages, pressed>>

\* After its transaction the view reads the order again for its answer.
ReadAgain(s) ==
  LET c == call[s]
  IN /\ c.pc = "committed"
     /\ Put(s, [c EXCEPT !.pc = "answered", !.answer = [i \in {c.order} |-> Shown(i)]])
     /\ UNCHANGED <<vars, pages, pressed>>

-------------------------------------------------------------------------------
(* The browser gets an answer, or gives up.                                *)

\* The single orders of rows replace those in the cache.
SetQueryData(rows) ==
  details' = [j \in DOMAIN details \cup DOMAIN rows |->
                IF j \in DOMAIN rows THEN rows[j] ELSE details[j]]

\* updateOrderCache: the row of a list that is loaded, and the single order.
UpdateOrderCache(i, row) ==
  /\ list' = [j \in DOMAIN list |-> IF j = i THEN row ELSE list[j]]
  /\ SetQueryData([j \in {i} |-> row])

Fetched(c) ==
  IF c.order = 0
  THEN list' = c.answer /\ UNCHANGED details
  ELSE SetQueryData(c.answer) /\ UNCHANGED list

Answer(s) ==
  LET c == call[s]
  IN /\ c.pc \in {"answered", "failed"}
     /\ Put(s, Free)
     /\ \/ c.pc = "answered" /\ c.kind = "get" /\ Fetched(c)
        \/ /\ c.pc = "answered" /\ c.kind \in Written /\ c.heard
           /\ UpdateOrderCache(c.order, c.answer[c.order])
        \/ (c.pc = "failed" \/ ~ c.heard) /\ UNCHANGED <<list, details>>
     /\ UNCHANGED <<vars, page, pressed>>

\* The connection breaks.  A mutation may still reach the server, and late.
Lose(s) ==
  /\ call[s] # Free
  /\ \/ call[s].heard /\ call[s].kind \in Written /\ Put(s, [call[s] EXCEPT !.heard = FALSE])
     \/ call[s].pc = "sent" /\ Put(s, Free)
  /\ UNCHANGED <<vars, pages, pressed>>

DeskNext ==
  \/ \E i \in 0..Len(orders) : View(i)
  \/ \E s \in Call :
       \/ Fetch(s)
       \/ \E i \in DOMAIN Rows : MarkNext(s, i) \/ CancelOrder(s, i)
       \/ Read(s) \/ ReadAgain(s) \/ Answer(s) \/ Lose(s)
       \/ \E t \in Txn : Serve(s, t)
  \/ \E t \in Txn : ServeOthers(t) \/ Work(t) \/ Break(t)

DeskSpec == DeskInit /\ [][DeskNext]_deskVars

-------------------------------------------------------------------------------
(* Properties.                                                             *)

Reached(f) ==
  CASE f = "unfulfilled" -> 0 [] f = "processing" -> 1 [] f = "shipped" -> 2 [] OTHER -> 3

NotAhead(row, i) ==
  /\ row.status = "cancelled" => orders[i].status = "cancelled"
  /\ Reached(row.fulfil) <= Reached(orders[i].fulfil)

\* What a tab shows has happened: "This order was cancelled. Its reserved
\* inventory has been restored." and a stage stand on an order that was cancelled
\* or did reach that stage, however old the answers are that fill the cache.
ShownIsCommitted ==
  /\ \A i \in DOMAIN list : NotAhead(list[i], i)
  /\ \A i \in DOMAIN details : NotAhead(details[i], i)

\* AdminOrderStatusView and cancel_order do for a tab only what was pressed, on
\* the order as it was shown: the stage that follows is the one the merchant saw
\* follow, and a cancellation was offered, whatever other tabs, lost answers and
\* requests that arrive late have done since.
ChangedAsPressed ==
  [][\A s \in Call :
       LET c == call[s]
           i == c.order
       IN (c.txn # {} /\ orders' # orders /\ call'[s].pc = "committed") =>
            \/ c.kind = "status" /\ c.was = Shown(i) /\ Shown(i)' = [c.was EXCEPT !.fulfil = c.to]
            \/ /\ c.kind = "cancel" /\ CanCancel(c.was) /\ CanCancel(Shown(i))
               /\ Shown(i)' = [Shown(i) EXCEPT !.status = "cancelled"]]_deskVars
===============================================================================
