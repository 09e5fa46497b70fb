----------------------------- MODULE BillingProofs -----------------------------
(* Proofs about the subscription of a store: for any number of tabs, sessions *)
(* and events, whatever is repeated, lost or overlaps.                        *)
EXTENDS Billing, FiniteSetTheorems, TLAPS

StripeEvent ==
  {event \in [type : {"checkout", "subscription", "invoice"}, session : Session,
              status : SubscriptionStatus \cup {"paid", "failed"}] :
     event.type = "invoice" <=> event.status \in {"paid", "failed"}}
StripeSession ==
  [state : {"none", "open", "complete", "expired"}, trial : BOOLEAN,
   live : SubscriptionStatus, customer : 0..MaxSessions]
Request == [step : {"idle", "save", "open"}, session : 0..MaxSessions]
Page ==
  [page : {"dashboard", "billing", "stripe"},
   shows : {"nothing", "checkout", "started", "access"}, wait : BOOLEAN, at : 0..MaxSessions]

\* The types, and that only sessions that exist are saved or shown.
ServerTypes ==
  /\ sub \in Row
  /\ payment \in [Session -> {"none", "paid", "failed"}]
  /\ tenant \in {"provisioning", "active", "suspended"}
  /\ rowLock \in Tab \cup {None}
  /\ request \in [Tab -> Request]
  /\ \A t \in Tab : request[t].step = "save" => request[t].session \in Session
StripeTypes ==
  /\ stripe \in [Session -> StripeSession]
  /\ events \in Seq(StripeEvent)
  /\ Len(events) <= MaxEvents
  /\ due \in SUBSET (1..Len(events))
  /\ orphan \in SUBSET Session
TabTypes ==
  /\ tab \in [Tab -> Page]
  /\ \A t \in Tab : tab[t].page = "stripe" => tab[t].at \in Session

\* An event took effect exactly if its row is there, and then it is not being processed.
Once ==
  /\ processed \in SUBSET EventId
  /\ DOMAIN work \in SUBSET (1..Len(events))
  /\ \A e \in DOMAIN work : work[e] \in BOOLEAN
  /\ applied \in [EventId -> Nat]
  /\ \A e \in EventId : applied[e] = IF e \in processed THEN 1 ELSE 0
  /\ \A e \in DOMAIN work : e \notin processed

Completed(s) == stripe[s].state = "complete"
SomeCompleted == \E s \in Session : Completed(s)

\* Nothing tells of a subscription before its checkout was completed.
Started ==
  /\ \A i \in 1..Len(events) : Completed(events[i].session)
  /\ \A s \in Session : stripe[s].live # "not_started" => Completed(s)
  /\ sub.status # "not_started" => SomeCompleted
  /\ \A t \in Tab : request[t].step = "open" => SomeCompleted
  /\ tenant # "provisioning" => SomeCompleted

\* A session without a trial was created after the trial was recorded: a delivery that
\* read the flag before that is about a session with a trial.
TrialKnown ==
  /\ \A s \in Session : stripe[s].state # "none" => stripe[s].trial \/ sub.trialUsed
  /\ \A e \in DOMAIN work :
       events[e].type = "subscription" => work[e] \/ stripe[events[e].session].trial

\* A request that saves its session holds the lock on the row.
Locked == \A t \in Tab : request[t].step = "save" <=> rowLock = t

IsOpen(s) == s \in Session /\ stripe[s].state = "open"

\* Until a checkout is completed an open session is the one the row names or the one a
\* request is about to save, in place of one that is not open.
OneOpen ==
  ~SomeCompleted =>
    /\ \A s \in Session \ orphan :
         IsOpen(s) => s = sub.session \/ \E t \in Tab : rowLock = t /\ request[t].session = s
    /\ \A t \in Tab :
         rowLock = t /\ request[t].session # sub.session => ~IsOpen(sub.session)

Types == ServerTypes /\ StripeTypes /\ TabTypes
Inv == Types /\ Once /\ Started /\ TrialKnown /\ Locked /\ OneOpen

-------------------------------------------------------------------------------

LEMMA Bounds ==
  /\ MaxSessions \in Nat /\ MaxEvents \in Nat
  /\ Session \in SUBSET (0..MaxSessions) /\ None \in 0..MaxSessions
  /\ None \notin Session /\ None \notin Tab
  BY BillingBounds DEF Session, None

LEMMA InitInv == Init => Inv
  <1> SUFFICES ASSUME Init PROVE Inv
    OBVIOUS
  <1>1. ServerTypes
    BY Bounds DEF Init, ServerTypes, Row, NewRow, SubscriptionStatus, Request, Idle
  <1>2. StripeTypes
    BY Bounds DEF Init, StripeTypes, StripeSession, SubscriptionStatus
  <1>3. TabTypes
    BY Bounds DEF Init, TabTypes, Page, NewTab
  <1>4. Once
    BY DEF Init, Once, EventId
  <1>5. Started /\ TrialKnown
    BY DEF Init, Started, TrialKnown, NewRow, Idle
  <1>6. Locked /\ OneOpen
    BY Bounds DEF Init, Locked, OneOpen, IsOpen, Idle
  <1> QED BY <1>1, <1>2, <1>3, <1>4, <1>5, <1>6 DEF Inv, Types

\* A session keeps what it told: it neither reopens nor loses its completion.
Keeps(s) ==
  /\ Completed(s) => stripe'[s].state = "complete"
  /\ stripe'[s].state # "none" => stripe[s].state # "none"
  /\ stripe'[s].state = "open" => stripe[s].state = "open"
  /\ stripe'[s].trial = stripe[s].trial
  /\ stripe'[s].live # "not_started" => stripe'[s].state = "complete"

\* What the owner's pages and Stripe do while the server does nothing.
LEMMA OutsideInv ==
  ASSUME Inv, StripeTypes', TabTypes', UNCHANGED <<server, request, applied, orphan>>,
         \A s \in Session : Keeps(s),
         Len(events) <= Len(events'),
         \A i \in 1..Len(events) : events'[i] = events[i],
         \A i \in 1..Len(events') : i > Len(events) => stripe'[events'[i].session].state = "complete"
  PROVE  Inv'
  <1>1. ServerTypes'
    BY DEF Inv, Types, ServerTypes, server
  <1>2. Len(events) \in Nat /\ Len(events') \in Nat
    BY DEF Inv, Types, StripeTypes
  <1>3. \A i \in 1..Len(events) : events[i].session \in Session
    <2>1. \A i \in 1..Len(events) : events[i] \in StripeEvent
      BY DEF Inv, Types, StripeTypes
    <2> QED BY <2>1 DEF StripeEvent
  <1>4. Once'
    BY <1>2 DEF Inv, Once, server
  <1>5. Started'
    <2>1. \A i \in 1..Len(events') : stripe'[events'[i].session].state = "complete"
      BY <1>2, <1>3 DEF Inv, Started, Keeps, Completed
    <2>2. SomeCompleted => SomeCompleted'
      BY DEF SomeCompleted, Keeps, Completed
    <2>3. \A s \in Session : stripe'[s].live # "not_started" => stripe'[s].state = "complete"
      BY DEF Keeps
    <2> QED BY <2>1, <2>2, <2>3 DEF Inv, Started, Completed, server
  <1>6. TrialKnown'
    <2>1. \A s \in Session : stripe'[s].state # "none" => stripe'[s].trial \/ sub'.trialUsed
      BY DEF Inv, TrialKnown, Keeps, server
    <2>2. ASSUME NEW e \in DOMAIN work, events'[e].type = "subscription"
          PROVE  work[e] \/ stripe'[events'[e].session].trial
      <3>1. e \in 1..Len(events)
        BY DEF Inv, Once
      <3>2. events'[e] = events[e] /\ events[e].session \in Session
        BY <3>1, <1>3
      <3> QED BY <2>2, <3>2 DEF Inv, TrialKnown, Keeps
    <2> QED BY <2>1, <2>2 DEF TrialKnown, server
  <1>7. Locked'
    BY DEF Inv, Locked, server
  <1>8. OneOpen'
    <2>1. ~SomeCompleted' => ~SomeCompleted
      BY DEF SomeCompleted, Keeps, Completed
    <2>2. \A s : IsOpen(s)' => IsOpen(s)
      BY DEF IsOpen, Keeps
    <2> QED BY <2>1, <2>2 DEF Inv, OneOpen, server, Keeps
  <1> QED BY <1>1, <1>4, <1>5, <1>6, <1>7, <1>8 DEF Inv, Types

\* Only a tab changes.
LEMMA PageInv ==
  ASSUME Inv, TabTypes', UNCHANGED <<server, request, outside, applied, orphan>>
  PROVE  Inv'
  <1>1. StripeTypes'
    BY DEF Inv, Types, StripeTypes, outside
  <1>2. \A s \in Session : Keeps(s)
    BY DEF Inv, Started, Keeps, Completed, outside
  <1>3. Len(events) \in Nat /\ events' = events
    BY DEF Inv, Types, StripeTypes, outside
  <1> QED BY <1>1, <1>2, <1>3, OutsideInv

LEMMA ReturnedTypes ==
  ASSUME TabTypes, NEW t \in Tab, NEW success \in BOOLEAN, tab' = Returned(t, success)
  PROVE  TabTypes'
  <1>1. BillingPanel \in {"nothing", "checkout", "started", "access"}
    BY DEF BillingPanel
  <1>2. (success /\ ~HasAccess) \in BOOLEAN
    OBVIOUS
  <1> QED BY <1>1, <1>2, Bounds DEF TabTypes, Returned, Page

LEMMA Emitted ==
  ASSUME StripeTypes, NEW new \in Seq(StripeEvent), Emit(new)
  PROVE  /\ events' \in Seq(StripeEvent) /\ Len(events') <= MaxEvents
         /\ due' \in SUBSET (1..Len(events'))
         /\ Len(events) <= Len(events')
         /\ \A i \in 1..Len(events) : events'[i] = events[i]
         /\ \A i \in 1..Len(events') : i > Len(events) => \E k \in 1..Len(new) : events'[i] = new[k]
  <1>1. /\ Len(new) \in Nat /\ Len(events) \in Nat
        /\ events' = events \o new /\ Len(events) + Len(new) <= MaxEvents
        /\ due' = due \cup (Len(events) + 1)..(Len(events) + Len(new))
    BY DEF Emit, StripeTypes
  <1>2. Len(events') = Len(events) + Len(new) /\ events' \in Seq(StripeEvent)
    BY <1>1 DEF StripeTypes
  <1>3. \A i \in 1..Len(events) : events'[i] = events[i]
    BY <1>1 DEF StripeTypes
  <1>4. ASSUME NEW i \in 1..Len(events'), i > Len(events)
        PROVE  \E k \in 1..Len(new) : events'[i] = new[k]
    <2>1. i - Len(events) \in 1..Len(new)
      BY <1>1, <1>2, <1>4
    <2>2. events'[i] = new[i - Len(events)]
      BY <1>1, <1>2, <1>4, <2>1 DEF StripeTypes
    <2> QED BY <2>1, <2>2
  <1>5. due' \in SUBSET (1..Len(events'))
    <2>1. \A k \in due : k \in 1..Len(events)
      BY DEF StripeTypes
    <2>2. \A k \in due' : k \in due \/ k \in (Len(events) + 1)..(Len(events) + Len(new))
      BY <1>1
    <2>3. \A k \in 1..Len(events) : k \in 1..Len(events')
      BY <1>1, <1>2
    <2>4. \A k \in (Len(events) + 1)..(Len(events) + Len(new)) : k \in 1..Len(events')
      BY <1>1, <1>2
    <2> QED BY <2>1, <2>2, <2>3, <2>4
  <1>6. Len(events) <= Len(events') /\ Len(events') <= MaxEvents
    BY <1>1, <1>2
  <1> QED BY <1>2, <1>3, <1>4, <1>5, <1>6

-------------------------------------------------------------------------------
(* The owner's pages and Stripe.                                           *)

LEMMA PagesInv ==
  ASSUME Inv, NEW t \in Tab,
         \/ UseSubscription(t) \/ AuthenticatedOnly(t) \/ GoToDashboard(t)
         \/ OpenBillingPortal(t) \/ LeaveStripe(t)
  PROVE  Inv'
  <1>1. UNCHANGED <<server, request, outside, applied, orphan>>
    BY DEF UseSubscription, AuthenticatedOnly, GoToDashboard, OpenBillingPortal, LeaveStripe
  <1>2. TabTypes'
    <2>1. CASE GoToDashboard(t)
      BY <2>1, Bounds DEF GoToDashboard, NewTab, Inv, Types, TabTypes, Page
    <2>2. ASSUME NEW success \in BOOLEAN, tab' = Returned(t, success) PROVE TabTypes'
      BY <2>2, ReturnedTypes DEF Inv, Types
    <2>3. (stripe[tab[t].at].state = "complete") \in BOOLEAN
      OBVIOUS
    <2> QED
      BY <2>1, <2>2, <2>3 DEF UseSubscription, AuthenticatedOnly, OpenBillingPortal, LeaveStripe
  <1> QED BY <1>1, <1>2, PageInv

\* Stripe emits events about a session whose checkout is completed.
LEMMA StripeEmits ==
  ASSUME Inv, TabTypes', UNCHANGED <<server, request, applied, orphan>>,
         stripe' \in [Session -> StripeSession], \A s \in Session : Keeps(s),
         NEW s \in Session, stripe'[s].state = "complete",
         NEW new \in Seq(StripeEvent), \A k \in 1..Len(new) : new[k].session = s, Emit(new)
  PROVE  Inv'
  <1>1. StripeTypes
    BY DEF Inv, Types
  <1>2. /\ events' \in Seq(StripeEvent) /\ Len(events') <= MaxEvents
        /\ due' \in SUBSET (1..Len(events')) /\ Len(events) <= Len(events')
        /\ \A i \in 1..Len(events) : events'[i] = events[i]
        /\ \A i \in 1..Len(events') :
             i > Len(events) => \E k \in 1..Len(new) : events'[i] = new[k]
    BY <1>1, Emitted
  <1>3. StripeTypes'
    BY <1>1, <1>2 DEF StripeTypes
  <1>4. \A i \in 1..Len(events') :
          i > Len(events) => stripe'[events'[i].session].state = "complete"
    BY <1>2
  <1> QED BY <1>2, <1>3, <1>4, OutsideInv

LEMMA EventTypes ==
  ASSUME NEW s \in Session, NEW status \in SubscriptionStatus \cup {"paid", "failed"},
         NEW type \in {"checkout", "subscription", "invoice"},
         type = "invoice" <=> status \in {"paid", "failed"}
  PROVE  Event(type, s, status) \in StripeEvent /\ Event(type, s, status).session = s
  BY DEF Event, StripeEvent

LEMMA CompleteInv ==
  ASSUME Inv, NEW t \in Tab, CompleteCheckout(t)
  PROVE  Inv'
  <1> DEFINE s == tab[t].at
             status == IF stripe[s].trial THEN "trialing" ELSE "active"
             new == <<Event("checkout", s, status), SubscriptionEvent(s, status)>>
  <1>1. /\ s \in Session /\ stripe[s].state = "open"
        /\ stripe' = [stripe EXCEPT ![s].state = "complete", ![s].live = status]
        /\ Emit(new) /\ tab' = Returned(t, TRUE)
        /\ UNCHANGED <<server, request, applied, orphan>>
    BY DEF CompleteCheckout, Inv, Types, TabTypes
  <1>2. status \in {"trialing", "active"}
    OBVIOUS
  <1> HIDE DEF status
  <1>3. new \in Seq(StripeEvent) /\ \A k \in 1..Len(new) : new[k].session = s
    <2>1. status \in SubscriptionStatus /\ status \notin {"paid", "failed"}
      BY <1>2 DEF SubscriptionStatus
    <2>2. /\ Event("checkout", s, status) \in StripeEvent
          /\ SubscriptionEvent(s, status) \in StripeEvent
          /\ Event("checkout", s, status).session = s
          /\ SubscriptionEvent(s, status).session = s
      BY <1>1, <2>1, EventTypes DEF SubscriptionEvent
    <2> QED BY <2>2
  <1> HIDE DEF s, new
  <1>4. TabTypes'
    BY <1>1, ReturnedTypes DEF Inv, Types
  <1>5. stripe' \in [Session -> StripeSession]
    BY <1>1, <1>2 DEF Inv, Types, StripeTypes, StripeSession, SubscriptionStatus
  <1>6. \A r \in Session : r # s => stripe'[r] = stripe[r]
    BY <1>1 DEF Inv, Types, StripeTypes
  <1>7. stripe'[s].state = "complete" /\ stripe'[s].trial = stripe[s].trial
    BY <1>1 DEF Inv, Types, StripeTypes, StripeSession
  <1>8. \A r \in Session : Keeps(r)
    BY <1>1, <1>6, <1>7 DEF Inv, Started, Keeps, Completed
  <1> QED BY <1>1, <1>3, <1>4, <1>5, <1>7, <1>8, StripeEmits

LEMMA ChangesInv ==
  ASSUME Inv, NEW s \in Session, NEW status, SubscriptionChanges(s, status)
  PROVE  Inv'
  <1>1. /\ stripe[s].live \in AlreadyStarted /\ status \in {"active", "past_due", "canceled"}
        /\ stripe' = [stripe EXCEPT ![s].live = status]
        /\ Emit(<<SubscriptionEvent(s, status)>>)
        /\ UNCHANGED <<server, request, tab, applied, orphan>>
    BY DEF SubscriptionChanges
  <1>2. stripe[s].state = "complete"
    BY <1>1 DEF Inv, Started, AlreadyStarted, Completed
  <1>3. SubscriptionEvent(s, status) \in StripeEvent /\ SubscriptionEvent(s, status).session = s
    BY <1>1, EventTypes DEF SubscriptionEvent, SubscriptionStatus
  <1>4. TabTypes'
    BY <1>1 DEF Inv, Types, TabTypes
  <1>5. stripe' \in [Session -> StripeSession]
    BY <1>1 DEF Inv, Types, StripeTypes, StripeSession, SubscriptionStatus
  <1>6. \A r \in Session : r # s => stripe'[r] = stripe[r]
    BY <1>1 DEF Inv, Types, StripeTypes
  <1>7. stripe'[s].state = stripe[s].state /\ stripe'[s].trial = stripe[s].trial
    BY <1>1 DEF Inv, Types, StripeTypes, StripeSession
  <1>8. \A r \in Session : Keeps(r)
    BY <1>2, <1>6, <1>7 DEF Inv, Started, Keeps, Completed
  <1>9. /\ <<SubscriptionEvent(s, status)>> \in Seq(StripeEvent)
        /\ \A k \in 1..Len(<<SubscriptionEvent(s, status)>>) :
             <<SubscriptionEvent(s, status)>>[k].session = s
    BY <1>3
  <1> QED BY <1>1, <1>2, <1>4, <1>5, <1>7, <1>8, <1>9, StripeEmits

LEMMA InvoiceInv ==
  ASSUME Inv, NEW s \in Session, NEW status, InvoiceDue(s, status)
  PROVE  Inv'
  <1>1. /\ stripe[s].live \in AlreadyStarted /\ status \in {"paid", "failed"}
        /\ Emit(<<Event("invoice", s, status)>>)
        /\ UNCHANGED <<server, request, stripe, tab, applied, orphan>>
    BY DEF InvoiceDue
  <1>2. stripe[s].state = "complete"
    BY <1>1 DEF Inv, Started, AlreadyStarted, Completed
  <1>3. Event("invoice", s, status) \in StripeEvent /\ Event("invoice", s, status).session = s
    BY <1>1, EventTypes
  <1>4. TabTypes' /\ stripe' \in [Session -> StripeSession]
    BY <1>1 DEF Inv, Types, TabTypes, StripeTypes
  <1>5. \A r \in Session : Keeps(r)
    BY <1>1 DEF Inv, Started, Keeps, Completed
  <1>6. /\ <<Event("invoice", s, status)>> \in Seq(StripeEvent)
        /\ \A k \in 1..Len(<<Event("invoice", s, status)>>) :
             <<Event("invoice", s, status)>>[k].session = s
    BY <1>3
  <1> QED BY <1>1, <1>2, <1>4, <1>5, <1>6, StripeEmits

LEMMA ExpiresInv ==
  ASSUME Inv, NEW s \in Session, SessionExpires(s)
  PROVE  Inv'
  <1>1. /\ stripe[s].state = "open" /\ stripe' = [stripe EXCEPT ![s].state = "expired"]
        /\ UNCHANGED <<server, request, events, due, tab, applied, orphan>>
    BY DEF SessionExpires
  <1>2. StripeTypes' /\ TabTypes'
    BY <1>1 DEF Inv, Types, StripeTypes, TabTypes, StripeSession
  <1>3. \A r \in Session : r # s => stripe'[r] = stripe[r]
    BY <1>1 DEF Inv, Types, StripeTypes
  <1>4. /\ stripe'[s].state = "expired" /\ stripe'[s].trial = stripe[s].trial
        /\ stripe'[s].live = stripe[s].live
    BY <1>1 DEF Inv, Types, StripeTypes, StripeSession
  <1>5. \A r \in Session : Keeps(r)
    BY <1>1, <1>3, <1>4 DEF Inv, Started, Keeps, Completed
  <1>6. Len(events) \in Nat
    BY DEF Inv, Types, StripeTypes
  <1> QED BY <1>1, <1>2, <1>5, <1>6, OutsideInv

-------------------------------------------------------------------------------
(* The owner's requests and the administrator.                             *)

LEMMA CheckoutInv ==
  ASSUME Inv, NEW t \in Tab, StartSubscriptionCheckout(t)
  PROVE  Inv'
  <1>1. PICK s \in Session :
          /\ SessionFor(s)
          /\ IF stripe[s].state = "none" THEN CreateSession(s) ELSE UNCHANGED stripe
          /\ request' = [request EXCEPT ![t] = [Idle EXCEPT !.step = "save", !.session = s]]
    BY DEF StartSubscriptionCheckout
  <1>2. /\ rowLock = None /\ rowLock' = t
        /\ UNCHANGED <<sub, payment, processed, tenant, work, events, due, tab, applied, orphan>>
    BY DEF StartSubscriptionCheckout, RowFree
  <1>3. request'[t] = [step |-> "save", session |-> s]
    BY <1>1 DEF Inv, Types, ServerTypes, Request, Idle
  <1>4. \A u \in Tab : u # t => request'[u] = request[u]
    BY <1>1 DEF Inv, Types, ServerTypes
  <1>5. ServerTypes'
    <2>1. request' \in [Tab -> Request]
      BY <1>1, Bounds DEF Inv, Types, ServerTypes, Request, Idle
    <2> QED BY <1>2, <1>3, <1>4, <2>1 DEF Inv, Types, ServerTypes
  <1> DEFINE payer == IF sub.customer # None THEN sub.customer ELSE s
             offered == ~sub.trialUsed
             created == [stripe[s] EXCEPT !.state = "open", !.trial = offered,
                                          !.customer = payer]
  <1>0. stripe[s].state = "none" => stripe' = [stripe EXCEPT ![s] = created]
    BY <1>1 DEF CreateSession
  <1>6. /\ created \in StripeSession /\ created.state = "open"
        /\ created.trial = offered /\ created.live = stripe[s].live
    <2>1. offered \in BOOLEAN /\ payer \in 0..MaxSessions /\ stripe[s] \in StripeSession
      BY Bounds DEF Inv, Types, ServerTypes, StripeTypes, Row
    <2> HIDE DEF payer, offered
    <2>2. created = [stripe[s] EXCEPT !.state = "open", !.trial = offered, !.customer = payer]
      OBVIOUS
    <2> HIDE DEF created
    <2>3. created \in StripeSession
      BY <2>1, <2>2 DEF StripeSession
    <2>4. created.state = "open"
      BY <2>1, <2>2 DEF StripeSession
    <2>5. created.trial = offered
      BY <2>1, <2>2 DEF StripeSession
    <2>6. created.live = stripe[s].live
      BY <2>1, <2>2 DEF StripeSession
    <2> QED BY <2>3, <2>4, <2>5, <2>6
  <1> HIDE DEF created
  <1>7. \A r \in Session : r # s => stripe'[r] = stripe[r]
    BY <1>1 DEF CreateSession, Inv, Types, StripeTypes
  <1>8. /\ stripe[s].state # "none" => stripe'[s] = stripe[s]
        /\ stripe[s].state = "none" =>
             /\ stripe'[s].state = "open" /\ stripe'[s].trial = ~sub.trialUsed
             /\ stripe'[s].live = stripe[s].live
    <2>1. stripe[s].state = "none" => stripe'[s] = created
      BY <1>0 DEF Inv, Types, StripeTypes
    <2>2. stripe[s].state = "none" =>
            stripe'[s].state = "open" /\ stripe'[s].live = stripe[s].live
      BY <1>6, <2>1, Zenon
    <2>3. stripe[s].state = "none" => stripe'[s].trial = ~sub.trialUsed
      BY <1>6, <2>1, Zenon DEF offered
    <2>4. stripe[s].state # "none" => stripe'[s] = stripe[s]
      BY <1>1
    <2> QED BY <2>2, <2>3, <2>4, Zenon
  <1>9. \A r \in Session : Completed(r) <=> stripe'[r].state = "complete"
    BY <1>7, <1>8 DEF Completed
  <1>10. StripeTypes' /\ TabTypes' /\ Once'
    <2>1. stripe' \in [Session -> StripeSession]
      BY <1>0, <1>1, <1>6 DEF Inv, Types, StripeTypes
    <2> QED BY <1>2, <2>1 DEF Inv, Types, StripeTypes, TabTypes, Once
  <1>11. \A i \in 1..Len(events) : events[i].session \in Session
    <2>1. \A i \in 1..Len(events) : events[i] \in StripeEvent
      BY DEF Inv, Types, StripeTypes
    <2> QED BY <2>1 DEF StripeEvent
  <1>12. Started'
    <2>1. SomeCompleted => SomeCompleted'
      BY <1>9 DEF SomeCompleted, Completed
    <2>2. \A r \in Session : stripe'[r].live # "not_started" => stripe'[r].state = "complete"
      BY <1>7, <1>8, <1>9 DEF Inv, Started, Completed
    <2>3. \A i \in 1..Len(events') : stripe'[events'[i].session].state = "complete"
      BY <1>2, <1>9, <1>11 DEF Inv, Started
    <2>4. \A u \in Tab : request'[u].step = "open" => SomeCompleted
      BY <1>3, <1>4 DEF Inv, Started
    <2> QED BY <1>2, <2>1, <2>2, <2>3, <2>4 DEF Inv, Started, Completed
  <1>13. TrialKnown'
    <2>1. \A r \in Session : stripe'[r].state # "none" => stripe'[r].trial \/ sub.trialUsed
      BY <1>7, <1>8 DEF Inv, TrialKnown
    <2>2. ASSUME NEW e \in DOMAIN work, events[e].type = "subscription"
          PROVE  work[e] \/ stripe'[events[e].session].trial
      <3>1. e \in 1..Len(events)
        BY DEF Inv, Once
      <3>2. events[e].session \in Session /\ stripe[events[e].session].state = "complete"
        BY <3>1, <1>11 DEF Inv, Started, Completed
      <3>3. stripe'[events[e].session] = stripe[events[e].session]
        BY <3>2, <1>7, <1>8
      <3> QED BY <2>2, <3>3 DEF Inv, TrialKnown
    <2> QED BY <1>2, <2>1, <2>2 DEF TrialKnown
  <1>14. Locked'
    BY <1>2, <1>3, <1>4, Bounds DEF Inv, Locked
  <1>15. OneOpen'
    <2> SUFFICES ASSUME ~SomeCompleted PROVE OneOpen'
      BY <1>9 DEF OneOpen, SomeCompleted, Completed
    <2>1. s # sub.session => ~IsOpen(sub.session) /\ ~IsOpen(sub.session)'
      BY <1>1, <1>2, <1>7, Bounds DEF SessionFor, IsOpen
    <2>2. ASSUME NEW r \in Session \ orphan, IsOpen(r)' PROVE r = sub.session \/ r = s
      BY <2>2, <1>2, <1>7, Bounds DEF Inv, OneOpen, IsOpen
    <2> QED BY <1>2, <1>3, <2>1, <2>2 DEF OneOpen
  <1> QED BY <1>5, <1>10, <1>12, <1>13, <1>14, <1>15 DEF Inv, Types

LEMMA SaveInv ==
  ASSUME Inv, NEW t \in Tab, SaveCheckoutSession(t)
  PROVE  Inv'
  <1> DEFINE s == request[t].session
  <1>1. /\ request[t].step = "save" /\ s \in Session
        /\ sub' = [sub EXCEPT !.session = s]
        /\ rowLock' = None /\ request' = [request EXCEPT ![t] = Idle]
        /\ tab' = [tab EXCEPT ![t] = [NewTab EXCEPT !.page = "stripe", !.at = s]]
        /\ UNCHANGED <<payment, processed, tenant, work, outside, applied, orphan>>
    BY DEF SaveCheckoutSession, Done, Inv, Types, ServerTypes
  <1>2. rowLock = t
    BY <1>1 DEF Inv, Locked
  <1> HIDE DEF s
  <1>3. /\ \A u \in Tab : request'[u] = IF u = t THEN Idle ELSE request[u]
        /\ request' \in [Tab -> Request]
    BY <1>1, Bounds DEF Inv, Types, ServerTypes, Request, Idle
  <1>4. /\ sub' \in Row /\ sub'.session = s /\ sub'.status = sub.status
        /\ sub'.trialUsed = sub.trialUsed
    BY <1>1, Bounds DEF Inv, Types, ServerTypes, Row
  <1>5. ServerTypes'
    BY <1>1, <1>3, <1>4 DEF Inv, Types, ServerTypes, Idle
  <1>6. StripeTypes' /\ Once'
    BY <1>1 DEF Inv, Types, StripeTypes, Once, outside
  <1>7. TabTypes'
    BY <1>1, Bounds DEF Inv, Types, TabTypes, Page, NewTab
  <1>8. Started'
    BY <1>1, <1>3, <1>4 DEF Inv, Started, SomeCompleted, Completed, Idle, outside
  <1>9. TrialKnown'
    BY <1>1, <1>4 DEF Inv, TrialKnown, outside
  <1>10. Locked'
    BY <1>1, <1>2, <1>3, Bounds DEF Inv, Locked, Idle
  <1>11. OneOpen'
    <2>1. \A r : IsOpen(r)' <=> IsOpen(r)
      BY <1>1 DEF IsOpen, outside
    <2>2. SomeCompleted' <=> SomeCompleted
      BY <1>1 DEF SomeCompleted, Completed, outside
    <2>3. ASSUME ~SomeCompleted, NEW r \in Session \ orphan, IsOpen(r) PROVE r = s
      BY <1>2, <2>3 DEF Inv, OneOpen, s
    <2> QED BY <1>1, <1>4, <2>1, <2>2, <2>3, Bounds DEF OneOpen
  <1> QED BY <1>5, <1>6, <1>7, <1>8, <1>9, <1>10, <1>11 DEF Inv, Types

LEMMA LostInv ==
  ASSUME Inv, NEW t \in Tab, RequestLost(t)
  PROVE  Inv'
  <1>1. /\ request' = [request EXCEPT ![t] = Idle]
        /\ rowLock' = IF rowLock = t THEN None ELSE rowLock
        /\ orphan' = IF request[t].step = "save" /\ request[t].session # sub.session
                     THEN orphan \cup {request[t].session} ELSE orphan
        /\ UNCHANGED <<sub, payment, processed, tenant, work, outside, tab, applied>>
    BY DEF RequestLost, Done
  <1>2. /\ \A u \in Tab : request'[u] = IF u = t THEN Idle ELSE request[u]
        /\ request' \in [Tab -> Request]
    BY <1>1, Bounds DEF Inv, Types, ServerTypes, Request, Idle
  <1>3. ServerTypes'
    BY <1>1, <1>2 DEF Inv, Types, ServerTypes, Idle
  <1>4. StripeTypes' /\ TabTypes' /\ Once'
    BY <1>1 DEF Inv, Types, ServerTypes, StripeTypes, TabTypes, Once, outside
  <1>5. Started'
    BY <1>1, <1>2 DEF Inv, Started, SomeCompleted, Completed, Idle, outside
  <1>6. TrialKnown'
    BY <1>1 DEF Inv, TrialKnown, outside
  <1>7. Locked'
    BY <1>1, <1>2, Bounds DEF Inv, Locked, Idle
  <1>8. OneOpen'
    <2>1. \A r : IsOpen(r)' <=> IsOpen(r)
      BY <1>1 DEF IsOpen, outside
    <2>2. SomeCompleted' <=> SomeCompleted
      BY <1>1 DEF SomeCompleted, Completed, outside
    <2>3. ASSUME ~SomeCompleted, NEW r \in Session \ orphan', IsOpen(r)
          PROVE  r = sub.session \/ \E u \in Tab : rowLock' = u /\ request'[u].session = r
      <3>1. r \in Session \ orphan
        BY <1>1
      <3>2. CASE r = sub.session
        BY <3>2
      <3>3. ASSUME NEW u \in Tab, rowLock = u, request[u].session = r, r # sub.session
            PROVE  rowLock' = u /\ request'[u].session = r
        <4>1. request[u].step = "save"
          BY <3>3 DEF Inv, Locked
        <4>2. u # t
          BY <1>1, <3>3, <4>1
        <4> QED BY <1>1, <1>2, <3>3, <4>2
      <3> QED BY <2>3, <3>1, <3>2, <3>3 DEF Inv, OneOpen
    <2>4. ASSUME ~SomeCompleted, NEW u \in Tab, rowLock' = u, request'[u].session # sub.session
          PROVE  ~IsOpen(sub.session)
      BY <1>1, <1>2, <2>4, Bounds DEF Inv, OneOpen
    <2> QED BY <1>1, <2>1, <2>2, <2>3, <2>4 DEF OneOpen
  <1> QED BY <1>3, <1>4, <1>5, <1>6, <1>7, <1>8 DEF Inv, Types

\* An activation and the administrator change requests and the store's status, no lock.
LEMMA StoreInv ==
  ASSUME Inv, tenant' \in {"provisioning", "active", "suspended"},
         tenant' # "provisioning" => SomeCompleted,
         request' \in [Tab -> Request],
         \A t \in Tab : request'[t] # request[t] =>
           /\ request[t].step # "save" /\ request'[t].step # "save"
           /\ request'[t].step = "open" => SomeCompleted,
         UNCHANGED <<sub, payment, processed, work, rowLock, outside, tab, applied, orphan>>
  PROVE  Inv'
  <1>1. \A t \in Tab : request'[t].step = "save" => request'[t] = request[t]
    OBVIOUS
  <1>2. ServerTypes' /\ StripeTypes' /\ TabTypes' /\ Once' /\ TrialKnown'
    BY <1>1 DEF Inv, Types, ServerTypes, StripeTypes, TabTypes, Once, TrialKnown, outside
  <1>3. Started'
    <2>1. SomeCompleted' <=> SomeCompleted
      BY DEF SomeCompleted, Completed, outside
    <2> QED BY <2>1 DEF Inv, Started, Completed, outside
  <1>4. Locked'
    BY DEF Inv, Locked
  <1>5. \A t \in Tab : rowLock = t => request'[t] = request[t]
    BY DEF Inv, Locked
  <1>6. OneOpen'
    BY <1>5 DEF Inv, OneOpen, IsOpen, SomeCompleted, Completed, outside
  <1> QED BY <1>2, <1>3, <1>4, <1>6 DEF Inv, Types

LEMMA ActivateInv ==
  ASSUME Inv, NEW t \in Tab, ActivateStore(t)
  PROVE  Inv'
  <1>1. CASE tab' = Returned(t, FALSE) /\ UNCHANGED request
    <2>1. TabTypes'
      BY <1>1, ReturnedTypes DEF Inv, Types
    <2> QED BY <1>1, <2>1, PageInv DEF ActivateStore
  <1>2. CASE HasAccess /\ request' = [request EXCEPT ![t] = [Idle EXCEPT !.step = "open"]]
             /\ UNCHANGED tab
    <2>1. SomeCompleted
      BY <1>2 DEF HasAccess, BillingAccess, Inv, Started
    <2>2. /\ request' \in [Tab -> Request] /\ request[t] = Idle
          /\ \A u \in Tab : request'[u] =
               IF u = t THEN [step |-> "open", session |-> None] ELSE request[u]
      BY <1>2, Bounds DEF ActivateStore, Pending, Inv, Types, ServerTypes, Request, Idle
    <2>3. \A u \in Tab : request'[u] # request[u] =>
            /\ request[u].step # "save" /\ request'[u].step # "save"
            /\ request'[u].step = "open" => SomeCompleted
      BY <2>1, <2>2 DEF Idle
    <2>4. /\ tenant' \in {"provisioning", "active", "suspended"}
          /\ tenant' # "provisioning" => SomeCompleted
          /\ UNCHANGED <<sub, payment, processed, work, rowLock, outside, tab, applied, orphan>>
      BY <1>2, <2>1 DEF ActivateStore, server, Inv, Types, ServerTypes
    <2> QED BY <2>2, <2>3, <2>4, StoreInv
  <1> QED BY <1>1, <1>2 DEF ActivateStore

LEMMA OpenInv ==
  ASSUME Inv, NEW t \in Tab, OpenStore(t)
  PROVE  Inv'
  <1>1. SomeCompleted
    BY DEF OpenStore, Inv, Started
  <1>2. /\ request' \in [Tab -> Request] /\ request[t].step = "open"
        /\ \A u \in Tab : request'[u] = IF u = t THEN Idle ELSE request[u]
    BY Bounds DEF OpenStore, Done, Inv, Types, ServerTypes, Request, Idle
  <1>3. \A u \in Tab : request'[u] # request[u] =>
          /\ request[u].step # "save" /\ request'[u].step # "save"
          /\ request'[u].step = "open" => SomeCompleted
    BY <1>1, <1>2 DEF Idle
  <1> QED BY <1>1, <1>2, <1>3, StoreInv DEF OpenStore

LEMMA AdminInv ==
  ASSUME Inv, NEW status \in {"active", "suspended"}, SetPlatformTenantStatus(status)
  PROVE  Inv'
  <1>1. SomeCompleted
    BY DEF SetPlatformTenantStatus, Inv, Started
  <1>2. request' = request /\ request' \in [Tab -> Request]
    BY DEF SetPlatformTenantStatus, Inv, Types, ServerTypes
  <1> QED BY <1>1, <1>2, StoreInv DEF SetPlatformTenantStatus

-------------------------------------------------------------------------------
(* The webhook.                                                            *)

LEMMA EventKnown ==
  ASSUME Inv, NEW e \in 1..Len(events)
  PROVE  /\ events[e] \in StripeEvent /\ events[e].session \in Session
         /\ Completed(events[e].session) /\ e \in EventId
  <1>1. events[e] \in StripeEvent
    BY DEF Inv, Types, StripeTypes
  <1>2. Len(events) \in Nat /\ Len(events) <= MaxEvents
    BY DEF Inv, Types, StripeTypes
  <1> QED BY <1>1, <1>2, Bounds DEF StripeEvent, EventId, Inv, Started

LEMMA ReceiveInv ==
  ASSUME Inv, NEW e \in 1..Len(events), ReceiveEvent(e)
  PROVE  Inv'
  <1>1. UNCHANGED <<sub, payment, processed, tenant, rowLock, request, stripe, events, tab,
                    applied, orphan>>
    BY DEF ReceiveEvent
  <1>2. ServerTypes' /\ TabTypes' /\ Started' /\ Locked' /\ OneOpen'
    BY <1>1 DEF Inv, Types, ServerTypes, TabTypes, Started, SomeCompleted, Completed, Locked,
                OneOpen, IsOpen
  <1>3. StripeTypes'
    <2>1. due' \in SUBSET due
      BY DEF ReceiveEvent, Acknowledged
    <2> QED BY <1>1, <2>1 DEF Inv, Types, StripeTypes
  <1>4. CASE UNCHANGED work
    <2>1. Once' /\ TrialKnown'
      BY <1>1, <1>4 DEF Inv, Once, TrialKnown
    <2> QED BY <1>2, <1>3, <2>1 DEF Inv, Types
  <1>5. CASE /\ e \notin processed /\ e \notin DOMAIN work
             /\ work' = [d \in DOMAIN work \cup {e} |->
                           IF d = e THEN Read(events[e]) ELSE work[d]]
    <2>1. DOMAIN work' = DOMAIN work \cup {e} /\ \A d \in DOMAIN work : work'[d] = work[d]
      BY <1>5
    <2>2. work'[e] = Read(events[e]) /\ Read(events[e]) \in BOOLEAN
      BY <1>5 DEF Read
    <2>3. Once'
      BY <1>1, <1>5, <2>1, <2>2 DEF Inv, Once
    <2>4. events[e].session \in Session /\ stripe[events[e].session].state # "none"
      BY EventKnown DEF Completed
    <2>5. stripe[events[e].session].trial \/ sub.trialUsed
      BY <2>4 DEF Inv, TrialKnown
    <2>6. ASSUME events[e].type = "subscription"
          PROVE  Read(events[e]) \/ stripe[events[e].session].trial
      BY <2>5, <2>6 DEF Read
    <2>7. ASSUME NEW d \in DOMAIN work', events'[d].type = "subscription"
          PROVE  work'[d] \/ stripe'[events'[d].session].trial
      <3>1. CASE d = e
        BY <1>1, <2>2, <2>6, <2>7, <3>1
      <3>2. CASE d # e
        BY <1>1, <2>1, <2>7, <3>2 DEF Inv, TrialKnown
      <3> QED BY <3>1, <3>2
    <2>8. TrialKnown'
      BY <1>1, <2>7 DEF Inv, TrialKnown
    <2> QED BY <1>2, <1>3, <2>3, <2>8 DEF Inv, Types
  <1> QED BY <1>4, <1>5 DEF ReceiveEvent, Received

LEMMA WorkEnds ==
  ASSUME NEW e, work' = WithoutWork(e)
  PROVE  DOMAIN work' = DOMAIN work \ {e} /\ \A d \in DOMAIN work' : work'[d] = work[d]
  BY DEF WithoutWork

LEMMA FailsInv ==
  ASSUME Inv, NEW e \in 1..Len(events), EventFails(e)
  PROVE  Inv'
  <1>1. UNCHANGED <<sub, payment, processed, tenant, rowLock, request, outside, tab, applied,
                    orphan>>
    BY DEF EventFails
  <1>2. DOMAIN work' = DOMAIN work \ {e} /\ \A d \in DOMAIN work' : work'[d] = work[d]
    BY WorkEnds DEF EventFails
  <1>3. Types' /\ Started' /\ Locked' /\ OneOpen'
    BY <1>1 DEF Inv, Types, ServerTypes, StripeTypes, TabTypes, Started, SomeCompleted,
                Completed, Locked, OneOpen, IsOpen, outside
  <1>4. Once'
    BY <1>1, <1>2 DEF Inv, Once, outside
  <1>5. TrialKnown'
    BY <1>1, <1>2 DEF Inv, TrialKnown, outside
  <1> QED BY <1>3, <1>4, <1>5 DEF Inv

\* The row of an event is inserted by the first delivery that commits.
LEMMA CommitOnce ==
  ASSUME Inv, NEW e \in DOMAIN work, Commit(e), UNCHANGED events
  PROVE  Once'
  <1>1. /\ processed' = processed \cup {e}
        /\ applied' = [applied EXCEPT ![e] = applied[e] + 1]
        /\ work' = WithoutWork(e)
    BY DEF Commit
  <1>2. DOMAIN work' = DOMAIN work \ {e} /\ \A d \in DOMAIN work' : work'[d] = work[d]
    BY <1>1, WorkEnds
  <1>3. e \in EventId /\ e \notin processed
    BY EventKnown DEF Inv, Once
  <1>4. applied[e] = 0
    BY <1>3 DEF Inv, Once
  <1>5. applied' \in [EventId -> Nat]
    BY <1>1, <1>3, <1>4 DEF Inv, Once
  <1>6. \A d \in EventId : applied'[d] = IF d \in processed' THEN 1 ELSE 0
    BY <1>1, <1>3, <1>4 DEF Inv, Once
  <1>7. \A d \in DOMAIN work' : d \notin processed'
    BY <1>1, <1>2 DEF Inv, Once
  <1> QED BY <1>1, <1>2, <1>3, <1>5, <1>6, <1>7 DEF Inv, Once

\* An event is applied: every event is about a completed checkout, and one about a
\* subscription records the trial.
LEMMA ProcessInv ==
  ASSUME Inv, NEW e \in 1..Len(events), ProcessStripeEvent(e)
  PROVE  Inv' /\ (sub.trialUsed => sub'.trialUsed)
  <1> DEFINE event == events[e]
             s == event.session
  <1>1. /\ e \in DOMAIN work /\ Commit(e)
        /\ UNCHANGED <<tenant, rowLock, request, stripe, events, tab, orphan>>
    BY DEF ProcessStripeEvent
  <1>2. event \in StripeEvent /\ s \in Session /\ stripe[s].state = "complete"
    BY EventKnown DEF Completed
  <1>3. SomeCompleted /\ SomeCompleted'
    BY <1>1, <1>2 DEF SomeCompleted, Completed
  <1>4. stripe[s].customer \in 0..MaxSessions
    BY <1>2 DEF Inv, Types, StripeTypes, StripeSession
  <1>5. Once'
    BY <1>1, CommitOnce
  <1>6. StripeTypes' /\ TabTypes'
    <2>1. due' \in SUBSET due
      BY DEF ProcessStripeEvent, Acknowledged
    <2> QED BY <1>1, <2>1 DEF Inv, Types, StripeTypes, TabTypes
  <1>7. Started' /\ Locked' /\ OneOpen'
    BY <1>1, <1>3 DEF Inv, Started, Completed, Locked, OneOpen
  <1>8. \A d \in DOMAIN work' : d \in DOMAIN work /\ work'[d] = work[d]
    BY <1>1, WorkEnds DEF Commit
  <1>9. payment' \in [Session -> {"none", "paid", "failed"}] /\ sub' \in Row
        /\ (sub'.trialUsed = sub.trialUsed \/ sub'.trialUsed = TRUE)
    <2>1. CASE event.type = "invoice" /\ SyncInvoicePayment(s, event.status, work[e])
      <3>1. event.status \in {"paid", "failed"}
        BY <1>2, <2>1 DEF StripeEvent
      <3>2. payment' \in {payment, [payment EXCEPT ![s] = event.status]} /\ sub' = sub
        BY <2>1 DEF SyncInvoicePayment
      <3> HIDE DEF s, event
      <3> QED BY <1>2, <3>1, <3>2 DEF Inv, Types, ServerTypes
    <2>2. CASE SyncCheckoutSession(s) /\ UNCHANGED payment
      <3>1. sub' = [sub EXCEPT !.session = s, !.customer = stripe[s].customer,
                               !.subscription = s]
        BY <2>2 DEF SyncCheckoutSession
      <3> HIDE DEF s
      <3>2. sub' \in Row
        BY <1>2, <1>4, <3>1, Bounds DEF Inv, Types, ServerTypes, Row
      <3>3. sub'.trialUsed = sub.trialUsed
        BY <3>1 DEF Inv, Types, ServerTypes, Row
      <3> QED BY <2>2, <3>2, <3>3 DEF Inv, Types, ServerTypes
    <2>3. CASE event.type = "subscription" /\ SyncSubscription(s, event.status, work[e])
               /\ UNCHANGED payment
      <3> DEFINE used == work[e] \/ event.status = "trialing" \/ stripe[s].trial
      <3>1. used = TRUE
        BY <1>1, <2>3 DEF Inv, TrialKnown
      <3>2. event.status \in SubscriptionStatus
        BY <1>2, <2>3 DEF StripeEvent
      <3>3. sub' = [sub EXCEPT !.subscription = s, !.customer = stripe[s].customer,
                               !.status = event.status, !.trialUsed = used]
        BY <2>3 DEF SyncSubscription
      <3> HIDE DEF s, event, used
      <3>4. sub' \in Row
        BY <1>2, <1>4, <3>1, <3>2, <3>3, Bounds DEF Inv, Types, ServerTypes, Row
      <3>5. sub'.trialUsed = TRUE
        BY <3>1, <3>3 DEF Inv, Types, ServerTypes, Row
      <3> QED BY <2>3, <3>4, <3>5 DEF Inv, Types, ServerTypes
    <2> QED BY <2>1, <2>2, <2>3 DEF ProcessStripeEvent
  <1>10. ServerTypes'
    BY <1>1, <1>9 DEF Inv, Types, ServerTypes
  <1>11. TrialKnown'
    BY <1>1, <1>8, <1>9 DEF Inv, TrialKnown
  <1> QED BY <1>5, <1>6, <1>7, <1>9, <1>10, <1>11 DEF Inv, Types

-------------------------------------------------------------------------------

\* Every step keeps the invariant, and the record of the trial.
LEMMA StepInv ==
  ASSUME Inv, [Next]_vars
  PROVE  Inv' /\ (sub.trialUsed => sub'.trialUsed)
  <1>1. ASSUME NEW e \in 1..Len(events), ProcessStripeEvent(e)
        PROVE  Inv' /\ (sub.trialUsed => sub'.trialUsed)
    BY <1>1, ProcessInv
  <1>2. CASE UNCHANGED vars
    <2>1. Inv'
      BY <1>2 DEF vars, server, outside, Inv, Types, ServerTypes, StripeTypes, TabTypes, Once,
                  Started, SomeCompleted, Completed, TrialKnown, Locked, OneOpen, IsOpen
    <2> QED BY <1>2, <2>1 DEF vars, server
  <1>3. ASSUME NEW t \in Tab,
               \/ UseSubscription(t) \/ AuthenticatedOnly(t) \/ GoToDashboard(t)
               \/ OpenBillingPortal(t) \/ LeaveStripe(t)
        PROVE  Inv' /\ sub' = sub
    BY <1>3, PagesInv DEF UseSubscription, AuthenticatedOnly, GoToDashboard, OpenBillingPortal,
                          LeaveStripe, server
  <1>4. ASSUME NEW t \in Tab, StartSubscriptionCheckout(t) PROVE Inv' /\ sub' = sub
    BY <1>4, CheckoutInv DEF StartSubscriptionCheckout
  <1>5. ASSUME NEW t \in Tab, SaveCheckoutSession(t)
        PROVE  Inv' /\ sub'.trialUsed = sub.trialUsed
    <2>1. sub' = [sub EXCEPT !.session = request[t].session]
      BY <1>5 DEF SaveCheckoutSession
    <2>2. sub'.trialUsed = sub.trialUsed
      BY <2>1 DEF Inv, Types, ServerTypes, Row
    <2> QED BY <1>5, <2>2, SaveInv
  <1>6. ASSUME NEW t \in Tab, ActivateStore(t) PROVE Inv' /\ sub' = sub
    BY <1>6, ActivateInv DEF ActivateStore, server
  <1>7. ASSUME NEW t \in Tab, OpenStore(t) PROVE Inv' /\ sub' = sub
    BY <1>7, OpenInv DEF OpenStore
  <1>8. ASSUME NEW t \in Tab, RequestLost(t) PROVE Inv' /\ sub' = sub
    BY <1>8, LostInv DEF RequestLost
  <1>9. ASSUME NEW t \in Tab, CompleteCheckout(t) PROVE Inv' /\ sub' = sub
    BY <1>9, CompleteInv DEF CompleteCheckout, server
  <1>10. ASSUME NEW s \in Session, SessionExpires(s) PROVE Inv' /\ sub' = sub
    BY <1>10, ExpiresInv DEF SessionExpires, server
  <1>11. ASSUME NEW s \in Session, NEW status, SubscriptionChanges(s, status)
         PROVE  Inv' /\ sub' = sub
    BY <1>11, ChangesInv DEF SubscriptionChanges, server
  <1>12. ASSUME NEW s \in Session, NEW status, InvoiceDue(s, status) PROVE Inv' /\ sub' = sub
    BY <1>12, InvoiceInv DEF InvoiceDue, server
  <1>13. ASSUME NEW e \in 1..Len(events), ReceiveEvent(e) PROVE Inv' /\ sub' = sub
    BY <1>13, ReceiveInv DEF ReceiveEvent
  <1>14. ASSUME NEW e \in 1..Len(events), EventFails(e) PROVE Inv' /\ sub' = sub
    BY <1>14, FailsInv DEF EventFails
  <1>15. ASSUME NEW status \in {"active", "suspended"}, SetPlatformTenantStatus(status)
         PROVE  Inv' /\ sub' = sub
    BY <1>15, AdminInv DEF SetPlatformTenantStatus
  <1>16. CASE Next
    BY <1>16, <1>1, <1>3, <1>4, <1>5, <1>6, <1>7, <1>8, <1>9, <1>10, <1>11, <1>12, <1>13,
       <1>14, <1>15 DEF Next
  <1> QED BY <1>2, <1>16

LEMMA AlwaysInv == Spec => []Inv
  <1>1. Inv /\ [Next]_vars => Inv'
    BY StepInv
  <1> QED BY <1>1, InitInv, PTL DEF Spec

\* The types hold for any number of tabs, sessions and events.
THEOREM BillingTypes == Spec => []TypeOK
  <1>1. Inv => TypeOK
    <2> SUFFICES ASSUME Inv PROVE TypeOK
      OBVIOUS
    <2>1. \A e \in DOMAIN work : e \in EventId
      BY EventKnown DEF Inv, Once
    <2>2. Len(events) \in 0..MaxEvents
      BY Bounds DEF Inv, Types, StripeTypes
    <2>3. \A t \in Tab : request[t] \in Request
      BY DEF Inv, Types, ServerTypes
    <2> QED BY <2>1, <2>2, <2>3 DEF TypeOK, Inv, Types, ServerTypes, StripeTypes, TabTypes, Once,
                                    Request, StripeSession, Page
  <1> QED BY <1>1, AlwaysInv, PTL

\* However often Stripe repeats an event and deliveries of it overlap or fail, it takes
\* effect once (process_event).
THEOREM AppliedOnce == Spec => []EventsAppliedOnce
  <1>1. Inv => EventsAppliedOnce
    BY DEF Inv, Once, EventsAppliedOnce
  <1> QED BY <1>1, AlwaysInv, PTL

\* A store is open only after a checkout was completed (activate_tenant).
THEOREM OpenAfterCheckout == Spec => []OpenStorePaid
  <1>1. Inv => OpenStorePaid
    BY DEF Inv, Started, SomeCompleted, Completed, OpenStorePaid
  <1> QED BY <1>1, AlwaysInv, PTL

\* Until a checkout is completed at most one that was shown is open, however many tabs
\* press the button (create_checkout_session).
THEOREM OneCheckoutShown == Spec => []OneOpenCheckout
  <1>1. Inv => OneOpenCheckout
    <2> SUFFICES ASSUME Inv, \A s \in Session : stripe[s].state # "complete"
                 PROVE  Cardinality({s \in Session \ orphan : stripe[s].state = "open"}) <= 1
      BY DEF OneOpenCheckout
    <2> DEFINE shown == {s \in Session \ orphan : stripe[s].state = "open"}
    <2>1. ~SomeCompleted
      BY DEF SomeCompleted, Completed
    <2>2. \A s \in shown : IsOpen(s) /\ s \in Session \ orphan
      BY DEF IsOpen
    <2>3. \A r, s \in shown : r = s
      BY <2>1, <2>2 DEF Inv, OneOpen
    <2> HIDE DEF shown
    <2>4. shown = {} \/ \E s : shown = {s}
      BY <2>3
    <2>5. Cardinality({}) = 0 /\ \A s : Cardinality({s}) = 1
      BY FS_EmptySet, FS_Singleton
    <2>6. Cardinality(shown) <= 1
      BY <2>4, <2>5
    <2> QED BY <2>6 DEF shown
  <1> QED BY <1>1, AlwaysInv, PTL

\* No event takes the record of the trial back, though deliveries that overlap write the
\* flag as they read it (_sync_subscription).
THEOREM TrialRecordKept == Spec => TrialStaysUsed
  <1>1. Inv /\ [Next]_vars => [sub.trialUsed => sub'.trialUsed]_vars
    BY StepInv
  <1> QED BY <1>1, AlwaysInv, PTL DEF Spec, TrialStaysUsed

===============================================================================
