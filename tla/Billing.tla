-------------------------------- MODULE Billing --------------------------------
(***************************************************************************)
(* The subscription of one store: browser tabs of its owner open Stripe    *)
(* checkouts and the billing portal, Stripe reports what becomes of them   *)
(* by events that it repeats until they are acknowledged and delivers in   *)
(* any order, and the store opens once a subscription gives it access.     *)
(***************************************************************************)
EXTENDS Integers, Sequences, FiniteSets

CONSTANTS
  Tab,           \* browser tabs of the owner
  MaxSessions,   \* bound on the checkout sessions created at Stripe
  MaxEvents      \* bound on the events Stripe emits

ASSUME BillingBounds == {MaxSessions, MaxEvents} \subseteq Nat /\ 0 \notin Tab

Session == 1..MaxSessions     \* a checkout session, its subscription and its invoice
EventId == 1..MaxEvents
None == 0

SubscriptionStatus ==
  {"not_started", "incomplete", "trialing", "active", "past_due", "canceled"}
\* create_checkout_session refuses a subscription in one of these states.
AlreadyStarted == {"trialing", "active", "past_due"}
CanStartCheckout == {"not_started", "incomplete", "canceled"}
BillingAccess == {"trialing", "active"}

Row == [status: SubscriptionStatus, customer: 0..MaxSessions, subscription: 0..MaxSessions,
        session: 0..MaxSessions, trialUsed: BOOLEAN]
NewRow == [status |-> "not_started", customer |-> None, subscription |-> None,
           session |-> None, trialUsed |-> FALSE]

VARIABLES
  sub,        \* the TenantSubscription row
  payment,    \* SubscriptionPayment.status of each session's invoice
  processed,  \* the StripeWebhookEvent rows
  tenant,     \* Tenant.status
  work,       \* deliveries being processed: what they read of the row
  request,    \* what the server does for each tab
  rowLock,    \* the tab whose checkout request locked the row
  stripe,     \* Stripe: each session, its subscription, and who pays for it
  events,     \* Stripe: the events emitted
  due,        \* Stripe: the events not acknowledged
  tab,        \* each tab's page and what it knows
  applied,    \* history: how often each event took effect
  orphan      \* history: sessions whose request died before it was answered

server == <<sub, payment, processed, tenant, work, rowLock>>
outside == <<stripe, events, due>>
vars == <<server, request, outside, tab, applied, orphan>>

NewTab == [page |-> "dashboard", shows |-> "nothing", wait |-> FALSE, at |-> None]
Idle == [step |-> "idle", session |-> None]

Init ==
  /\ sub = NewRow /\ payment = [s \in Session |-> "none"]
  /\ processed = {} /\ tenant = "provisioning"
  /\ work = [e \in {} |-> FALSE]
  /\ request = [t \in Tab |-> Idle] /\ rowLock = None
  /\ stripe = [s \in Session |-> [state |-> "none", trial |-> FALSE, live |-> "not_started",
                                  customer |-> None]]
  /\ events = <<>> /\ due = {}
  /\ tab = [t \in Tab |-> NewTab]
  /\ applied = [e \in EventId |-> 0] /\ orphan = {}

\* Fault: any subscription that was not cancelled gives access.
AccessUnlessCanceled == sub.status # "canceled"

HasAccess == sub.status \in BillingAccess
Pending(t) == request[t] # Idle

-------------------------------------------------------------------------------
(* The owner's tabs.                                                       *)

\* The billing page shows the subscription as it was when the page read it, ...
BillingPanel == CASE sub.status \in CanStartCheckout -> "checkout"
                  [] HasAccess -> "access"
                  [] OTHER -> "started"
Returned(t, success) ==
  [tab EXCEPT ![t] = [page |-> "billing", shows |-> BillingPanel, wait |-> success /\ ~HasAccess,
                      at |-> None]]

\* Fault: a page that shows no subscription stops reading it.
StopsPolling(t) ==
  /\ tab[t].wait /\ tab[t].shows # "checkout" /\ tab[t] # Returned(t, TRUE)[t]
  /\ tab' = Returned(t, TRUE)
  /\ UNCHANGED <<server, request, outside, applied, orphan>>

\* ... and after a checkout reads it again every two seconds, until it gives access.
UseSubscription(t) ==
  /\ tab[t].wait /\ tab[t] # Returned(t, TRUE)[t]
  /\ tab' = Returned(t, TRUE)
  /\ UNCHANGED <<server, request, outside, applied, orphan>>

\* A store that is not open sends its owner without access to the billing page.
AuthenticatedOnly(t) ==
  /\ tab[t].page = "dashboard" /\ ~Pending(t) /\ ~HasAccess /\ tenant = "provisioning"
  /\ tab' = Returned(t, FALSE)
  /\ UNCHANGED <<server, request, outside, applied, orphan>>

GoToDashboard(t) ==
  /\ tab[t].page = "billing" /\ ~Pending(t) /\ tab[t].shows = "access"
  /\ tab' = [tab EXCEPT ![t] = NewTab]
  /\ UNCHANGED <<server, request, outside, applied, orphan>>

Done(t) == request' = [request EXCEPT ![t] = Idle]

\* The portal is left for a billing page that reads the subscription again.
OpenBillingPortal(t) ==
  /\ tab[t].page = "billing" /\ ~Pending(t) /\ sub.customer # None
  /\ tab' = Returned(t, FALSE)
  /\ UNCHANGED <<server, request, outside, applied, orphan>>

-------------------------------------------------------------------------------
(* The owner's requests; until the server has read the database and reached *)
(* Stripe they change nothing.                                             *)

\* Fault: get_or_create without select_for_update.
NeverLocked == TRUE

RowFree == rowLock = None

\* An open session is used again; without one the next session is created.
SessionFor(s) ==
  IF sub.session # None /\ stripe[sub.session].state = "open"
  THEN s = sub.session
  ELSE stripe[s].state = "none" /\ \A r \in 1..s - 1 : stripe[r].state # "none"

CreateSession(s) ==
  stripe' = [stripe EXCEPT ![s] =
    [@ EXCEPT !.state = "open", !.trial = ~sub.trialUsed,
              !.customer = IF sub.customer # None THEN sub.customer ELSE s]]

\* The row is locked and read; a started subscription is refused.
StartSubscriptionCheckout(t) ==
  /\ tab[t].page = "billing" /\ ~Pending(t) /\ tab[t].shows = "checkout"
  /\ RowFree /\ sub.status \notin AlreadyStarted
  /\ \E s \in Session :
       /\ SessionFor(s)
       /\ IF stripe[s].state = "none" THEN CreateSession(s) ELSE UNCHANGED stripe
       /\ request' = [request EXCEPT ![t] = [Idle EXCEPT !.step = "save", !.session = s]]
  /\ rowLock' = t
  /\ UNCHANGED <<sub, payment, processed, tenant, work, events, due, tab, applied, orphan>>

SaveCheckoutSession(t) ==
  /\ request[t].step = "save"
  /\ sub' = [sub EXCEPT !.session = request[t].session]
  /\ rowLock' = None /\ Done(t)
  /\ tab' = [tab EXCEPT ![t] = [NewTab EXCEPT !.page = "stripe", !.at = request[t].session]]
  /\ UNCHANGED <<payment, processed, tenant, work, outside, applied, orphan>>

\* activate_tenant reads the access and the status without a lock; the owner of a store
\* that it refuses is sent to the billing page.
ActivateStore(t) ==
  /\ tab[t].page = "dashboard" /\ ~Pending(t) /\ tenant # "active"
  /\ IF HasAccess /\ tenant = "provisioning"
     THEN request' = [request EXCEPT ![t] = [Idle EXCEPT !.step = "open"]] /\ UNCHANGED tab
     ELSE UNCHANGED request /\ tab' = Returned(t, FALSE)
  /\ UNCHANGED <<server, outside, applied, orphan>>

\* Fault: the store gets the status of its subscription.
OpenStoreAsSubscribed(t) ==
  /\ request[t].step = "open"
  /\ tenant' = sub.status
  /\ Done(t)
  /\ UNCHANGED <<sub, payment, processed, work, rowLock, outside, tab, applied, orphan>>

\* The status it decided on is written.
OpenStore(t) ==
  /\ request[t].step = "open"
  /\ tenant' = "active"
  /\ Done(t)
  /\ UNCHANGED <<sub, payment, processed, work, rowLock, outside, tab, applied, orphan>>

\* The request or its worker is lost: its transaction is rolled back.
RequestLost(t) ==
  /\ Pending(t) /\ Done(t)
  /\ rowLock' = IF rowLock = t THEN None ELSE rowLock
  /\ orphan' = IF request[t].step = "save" /\ request[t].session # sub.session
               THEN orphan \cup {request[t].session} ELSE orphan
  /\ UNCHANGED <<sub, payment, processed, tenant, work, outside, tab, applied>>

-------------------------------------------------------------------------------
(* Stripe, as the code sees it.                                            *)

\* An event holds the object as it was when Stripe emitted it.
Event(type, s, status) == [type |-> type, session |-> s, status |-> status]
SubscriptionEvent(s, status) == Event("subscription", s, status)
Emit(new) ==
  /\ Len(events) + Len(new) <= MaxEvents
  /\ events' = events \o new
  /\ due' = due \cup (Len(events) + 1)..(Len(events) + Len(new))

\* The owner completes the checkout: a subscription starts, with its trial or paid.
CompleteCheckout(t) ==
  /\ tab[t].page = "stripe"
  /\ LET s == tab[t].at
         status == IF stripe[s].trial THEN "trialing" ELSE "active"
     IN /\ stripe[s].state = "open"
        /\ stripe' = [stripe EXCEPT ![s].state = "complete", ![s].live = status]
        /\ Emit(<<Event("checkout", s, status), SubscriptionEvent(s, status)>>)
  /\ tab' = Returned(t, TRUE)
  /\ UNCHANGED <<server, request, applied, orphan>>

\* The owner leaves Stripe's pages; a checkout that another tab completed succeeded.
LeaveStripe(t) ==
  /\ tab[t].page = "stripe"
  /\ tab' = Returned(t, stripe[tab[t].at].state = "complete")
  /\ UNCHANGED <<server, request, outside, applied, orphan>>

SessionExpires(s) ==
  /\ stripe[s].state = "open"
  /\ stripe' = [stripe EXCEPT ![s].state = "expired"]
  /\ UNCHANGED <<server, request, events, due, tab, applied, orphan>>

\* The subscription changes: a payment is late or made, or it ends.
SubscriptionChanges(s, status) ==
  /\ stripe[s].live \in AlreadyStarted /\ status \in {"active", "past_due", "canceled"}
  /\ status # stripe[s].live
  /\ stripe' = [stripe EXCEPT ![s].live = status]
  /\ Emit(<<SubscriptionEvent(s, status)>>)
  /\ UNCHANGED <<server, request, tab, applied, orphan>>

\* Its invoice is paid or not.
InvoiceDue(s, status) ==
  /\ stripe[s].live \in AlreadyStarted /\ status \in {"paid", "failed"}
  /\ Emit(<<Event("invoice", s, status)>>)
  /\ UNCHANGED <<server, request, stripe, tab, applied, orphan>>

-------------------------------------------------------------------------------
(* The webhook: one transaction for an event.                              *)

\* Fault: the answer of get_or_create is ignored.
NeverReceived(e) == FALSE

\* The primary key of StripeWebhookEvent makes deliveries of one event wait for each other.
Received(e) == e \in processed
Acknowledged(e) == due' = due \ {e}

\* What an event reads: whether the trial was used, or whose invoice it is.
Read(event) ==
  \/ event.type = "subscription" /\ sub.trialUsed
  \/ /\ event.type = "invoice"
     /\ sub.customer = stripe[event.session].customer \/ sub.subscription = event.session

\* The event row is inserted and the subscription row read without a lock.
ReceiveEvent(e) ==
  /\ e \in due /\ e \notin DOMAIN work
  /\ IF Received(e)
     THEN Acknowledged(e) /\ UNCHANGED work
     ELSE /\ work' = [d \in DOMAIN work \cup {e} |-> IF d = e THEN Read(events[e]) ELSE work[d]]
          /\ UNCHANGED due
  /\ UNCHANGED <<sub, payment, processed, tenant, rowLock, request, stripe, events, tab, applied, orphan>>

WithoutWork(e) == [d \in DOMAIN work \ {e} |-> work[d]]

SyncCheckoutSession(s) ==
  sub' = [sub EXCEPT !.session = s, !.customer = stripe[s].customer, !.subscription = s]

\* Fault: the flag follows the status.
SyncTrialOfEvent(s, status, trialUsed) ==
  sub' = [sub EXCEPT !.subscription = s, !.customer = stripe[s].customer, !.status = status,
                     !.trialUsed = status = "trialing"]

\* The columns of the event are written, and the trial flag that was read.
SyncSubscription(s, status, trialUsed) ==
  sub' = [sub EXCEPT !.subscription = s, !.customer = stripe[s].customer, !.status = status,
                     !.trialUsed = trialUsed \/ status = "trialing" \/ stripe[s].trial]

\* An invoice of a customer and a subscription that are not known yet is ignored.
SyncInvoicePayment(s, status, known) ==
  /\ payment' = IF known THEN [payment EXCEPT ![s] = status] ELSE payment
  /\ UNCHANGED sub

Commit(e) ==
  /\ processed' = processed \cup {e}
  /\ applied' = [applied EXCEPT ![e] = @ + 1]
  /\ work' = WithoutWork(e)

ProcessStripeEvent(e) ==
  /\ e \in DOMAIN work
  /\ LET event == events[e] IN
     \/ event.type = "invoice" /\ SyncInvoicePayment(event.session, event.status, work[e])
     \/ event.type = "checkout" /\ RowFree /\ SyncCheckoutSession(event.session)
        /\ UNCHANGED payment
     \/ event.type = "subscription" /\ RowFree
        /\ SyncSubscription(event.session, event.status, work[e]) /\ UNCHANGED payment
  /\ Commit(e)
  /\ \/ Acknowledged(e)
     \/ UNCHANGED due                             \* the answer is lost
  /\ UNCHANGED <<tenant, rowLock, request, stripe, events, tab, orphan>>

\* Fault: an error is answered as a success.
FailureAcknowledged(e) ==
  /\ e \in DOMAIN work
  /\ work' = WithoutWork(e) /\ Acknowledged(e)
  /\ UNCHANGED <<sub, payment, processed, tenant, rowLock, request, stripe, events, tab, applied,
                 orphan>>

\* An error before the commit: nothing is kept, and the event is not acknowledged.
EventFails(e) ==
  /\ e \in DOMAIN work
  /\ work' = WithoutWork(e)
  /\ UNCHANGED <<sub, payment, processed, tenant, rowLock, request, outside, tab, applied, orphan>>

-------------------------------------------------------------------------------
(* The platform administrator's list of stores.                            *)

\* "Block" or "Unblock", as the list shows the store: it may show an older status, but
\* never sends a store back to provisioning or lists an action for one that is there.
SetPlatformTenantStatus(status) ==
  /\ tenant # "provisioning" /\ status # tenant
  /\ tenant' = status
  /\ UNCHANGED <<sub, payment, processed, work, rowLock, request, outside, tab, applied, orphan>>

Next ==
  \/ \E t \in Tab :
       \/ UseSubscription(t) \/ AuthenticatedOnly(t) \/ GoToDashboard(t)
       \/ StartSubscriptionCheckout(t) \/ SaveCheckoutSession(t) \/ OpenBillingPortal(t)
       \/ ActivateStore(t) \/ OpenStore(t) \/ RequestLost(t)
       \/ CompleteCheckout(t) \/ LeaveStripe(t)
  \/ \E s \in Session :
       \/ SessionExpires(s)
       \/ \E status \in SubscriptionStatus : SubscriptionChanges(s, status)
       \/ \E status \in {"paid", "failed"} : InvoiceDue(s, status)
  \/ \E e \in 1..Len(events) : ReceiveEvent(e) \/ ProcessStripeEvent(e) \/ EventFails(e)
  \/ \E status \in {"active", "suspended"} : SetPlatformTenantStatus(status)

\* Stripe repeats an event until it is acknowledged and the deliveries do not fail for
\* ever, requests end, and an open page goes on polling; nothing makes the owner or the
\* administrator act.
Fairness ==
  /\ \A e \in EventId :
       /\ WF_vars(e <= Len(events) /\ ReceiveEvent(e))
       /\ SF_vars(e <= Len(events) /\ ProcessStripeEvent(e))
       /\ <>[][~(e <= Len(events) /\ EventFails(e))]_vars
  /\ \A t \in Tab :
       WF_vars(SaveCheckoutSession(t)) /\ WF_vars(UseSubscription(t))

Spec == Init /\ [][Next]_vars /\ Fairness

-------------------------------------------------------------------------------
(* Properties.                                                             *)

\* The variables keep their types.
TypeOK ==
  /\ sub \in Row /\ payment \in [Session -> {"none", "paid", "failed"}]
  /\ processed \subseteq EventId /\ tenant \in {"provisioning", "active", "suspended"}
  /\ DOMAIN work \subseteq EventId /\ \A e \in DOMAIN work : work[e] \in BOOLEAN
  /\ request \in [Tab -> [step: {"idle", "save", "open"},
                          session: 0..MaxSessions]]
  /\ rowLock \in Tab \cup {None}
  /\ stripe \in [Session -> [state: {"none", "open", "complete", "expired"}, trial: BOOLEAN,
                             live: SubscriptionStatus, customer: 0..MaxSessions]]
  /\ Len(events) \in 0..MaxEvents /\ due \subseteq 1..Len(events)
  /\ tab \in [Tab -> [page: {"dashboard", "billing", "stripe"},
                      shows: {"nothing", "checkout", "started", "access"}, wait: BOOLEAN,
                      at: 0..MaxSessions]]
  /\ applied \in [EventId -> Nat] /\ orphan \subseteq Session

\* However often and however late Stripe repeats an event, it takes effect once: an old
\* status does not come back with a repeated delivery.
EventsAppliedOnce == \A e \in EventId : applied[e] <= 1

\* Tabs that press the button together are sent to one checkout, and not each to its own,
\* until one is completed; the sessions of requests that died are not shown to anybody.
OneOpenCheckout ==
  (\A s \in Session : stripe[s].state # "complete") =>
    Cardinality({s \in Session \ orphan : stripe[s].state = "open"}) <= 1

\* A store opens only after Stripe started a subscription for it, whatever order the
\* checkout, its events, the activation and the administrator come in.
OpenStorePaid == tenant # "provisioning" => \E s \in Session : stripe[s].state = "complete"

\* Once a trial is recorded the page never offers another: no event, however late, takes
\* the record back, though each delivery writes the flag it read without a lock.
TrialStaysUsed == [][sub.trialUsed => sub'.trialUsed]_vars

\* Whichever deliveries fail, are late or are repeated, the events Stripe has emitted are
\* all processed in the end (the bound makes Stripe stop emitting).
EveryEventProcessed == []<>(\A e \in 1..Len(events) : e \in processed)

\* "Stripe is confirming your subscription status": the tabs that wait for it notice the
\* subscription, while it gives access.
WaitingTabNotices ==
  ((\E t \in Tab : tab[t].wait) /\ HasAccess) ~> ((\A t \in Tab : ~tab[t].wait) \/ ~HasAccess)
================================================================================
