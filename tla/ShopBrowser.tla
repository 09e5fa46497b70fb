------------------------------ MODULE ShopBrowser ------------------------------
(***************************************************************************)
(* One browser tab of a shopper on a tenant's storefront, and the server   *)
(* it talks to.  The tab keeps a session (the customer store and the       *)
(* session query) and the two cart caches of the query client; every       *)
(* change goes out as a request that the server serves, or the network     *)
(* loses, before the tab acts on its answer.  A behaviour is one load of   *)
(* the application: it ends when the tab is reloaded or closed.            *)
(***************************************************************************)
EXTENDS Naturals, FiniteSets

CONSTANTS
  Account,       \* customer accounts of the tenant
  Guest,         \* the guest session of this browser
  StartAs,       \* whose refresh cookie the browser holds when the tab opens
  Slot,          \* identifiers of the requests in flight: a bound on their number
  MaxUnits,      \* stock of the one product
  MaxClicks,     \* bound on what the shopper submits
  MaxVisits,     \* bound on how often the checkout page is opened
  MaxFaults      \* bound on requests lost, refused or expired under the tab

ASSUME Bounds ==
  /\ Guest \notin Account /\ StartAs \in Account \cup {Guest}
  /\ Slot # {} /\ Slot \subseteq Nat
  /\ MaxUnits \in Nat \ {0} /\ {MaxClicks, MaxVisits, MaxFaults} \subseteq Nat

VARIABLES
  carts,      \* server: units of the product in each owner's cart
  orders,     \* server: the orders, by idempotency key and owner
  live,       \* server: refresh tokens that are neither blacklisted nor revoked
  honoured,   \* server: access tokens that are neither expired nor revoked
  issued,     \* server: how many token pairs were handed out
  jar,        \* browser: the refresh cookie
  store,      \* tab: status and access token of the customer store
  session,    \* tab: the session query, "unknown", "none" or "signed-in"
  cache,      \* tab: the cart query under each of its two keys
  page,       \* tab: the page shown
  visit,      \* tab: how often the checkout page was mounted
  net,        \* requests in flight
  clicks, faults, loggedOut

server == <<carts, orders, live, honoured, issued>>
tab == <<store, session, cache, page, visit, loggedOut>>
vars == <<server, jar, tab, net, clicks, faults>>

Owner == Account \cup {Guest}
Token == [who: Owner, n: Nat]
NoToken == [who |-> Guest, n |-> 0]
Key == {"customer", "guest"}
Page == {"product", "cart", "checkout", "confirmation", "login", "account"}
Kind == {"refresh", "login", "logout", "claim", "cart", "password", "add", "change",
         "remove", "order"}
Request == [id: Slot, kind: Kind, token: Token, key: Key, whom: Owner, qty: 0..MaxUnits,
            visit: 0..MaxVisits, mine: BOOLEAN, late: BOOLEAN,
            at: {"sent", "done", "failed"}, got: Nat]
Nothing == [owner |-> "nobody", units |-> 0, age |-> "stale"]

Init ==
  /\ carts = [o \in Owner |-> 1] /\ orders = {}
  /\ LET t == IF StartAs = Guest THEN NoToken ELSE [who |-> StartAs, n |-> 1] IN
       /\ jar = t
       /\ live = {t} \ {NoToken}
  /\ honoured = {} /\ issued = 1
  /\ store = [status |-> "loading", token |-> NoToken]
  /\ session = "unknown"
  /\ cache = [k \in Key |-> Nothing]
  /\ page = "product" /\ visit = 0
  /\ net = {} /\ clicks = 0 /\ faults = 0 /\ loggedOut = FALSE

-------------------------------------------------------------------------------
(* Requests.                                                               *)

KeyOf(t) == IF t = NoToken THEN "guest" ELSE "customer"
Now == KeyOf(store.token)

\* A request leaves with the cookie, or with the access token of the store.
ApiRequest(kind, t, whom, qty) ==
  LET free == Slot \ {r.id : r \in net} IN
    /\ free # {}
    /\ net' = net \cup
         {[id |-> CHOOSE i \in free : \A j \in free : i <= j, kind |-> kind, token |-> t,
           key |-> Now, whom |-> whom, qty |-> qty, visit |-> visit, mine |-> TRUE,
           late |-> loggedOut, at |-> "sent", got |-> 0]}

InFlight(kind) == \E r \in net : r.kind = kind

\* The mounted page shows its buttons disabled while a change of its own is pending.
Changes == {"add", "change", "remove", "order", "login", "password"}
Busy == \E r \in net : r.kind \in Changes /\ r.mine

Click == clicks < MaxClicks /\ clicks' = clicks + 1

\* An unobserved query is cancelled: a cart read under another key, or any on a page
\* without the header.
Observed(n, k) == {r \in n : r.kind = "cart" => r.key = k}
Unobserved(n) == {r \in n : r.kind # "cart"}

-------------------------------------------------------------------------------
(* Queries the mounted components keep filled.                             *)

CustomerAuthSession ==
  /\ session = "unknown" /\ ~InFlight("refresh")
  /\ ApiRequest("refresh", jar, Guest, 0)
  /\ UNCHANGED <<server, jar, tab, clicks, faults>>

UseCart ==
  /\ page # "login" /\ store.status # "loading" /\ cache[Now].age # "fresh"
  /\ ~InFlight("cart")
  /\ ApiRequest("cart", store.token, Guest, 0)
  /\ UNCHANGED <<server, jar, tab, clicks, faults>>

\* After sixty seconds what was read is read again at the next focus or mount.
MinutePasses ==
  /\ cache[Now].age = "fresh" /\ cache' = [cache EXCEPT ![Now].age = "stale"]
  /\ faults < MaxFaults /\ faults' = faults + 1
  /\ UNCHANGED <<server, jar, store, session, page, visit, loggedOut, net, clicks>>

-------------------------------------------------------------------------------
(* What the shopper submits.                                               *)

Change(kind, whom, qty) ==
  /\ Click /\ ~Busy
  /\ ApiRequest(kind, store.token, whom, qty)
  /\ UNCHANGED <<server, jar, tab, faults>>

\* A query that failed hides the page's content, whatever it still holds.
Shown(k) == cache[k] # Nothing /\ cache[k].age # "error"
HasItem == cache[Now].units > 0

AddToCart ==
  /\ page = "product" /\ Shown(Now) /\ ~HasItem
  /\ Change("add", Guest, 1)

ChangeCartQuantity(n) ==
  IF n = 0 THEN Change("remove", cache[Now].owner, 0) ELSE Change("change", cache[Now].owner, n)

Neighbours == {n \in 0..MaxUnits : n + 1 = cache[Now].units \/ n = cache[Now].units + 1}

InYourCart ==
  /\ page = "product" /\ HasItem
  /\ \E n \in Neighbours : ChangeCartQuantity(n)

CartContent ==
  /\ page = "cart" /\ Shown(Now) /\ HasItem
  /\ \E n \in {0} \cup Neighbours : ChangeCartQuantity(n)

\* Fault: a key is drawn for every submission.
KeyPerSubmission(r) == r.visit + 10 * clicks

\* The key is drawn once, when the checkout form is mounted.
IdempotencyKey(r) == r.visit

CheckoutForm ==
  /\ page = "checkout" /\ Shown(Now) /\ HasItem
  /\ Change("order", Guest, 0)

LoginForm(a) ==
  /\ page = "login" /\ Click /\ ~Busy
  /\ ApiRequest("login", NoToken, a, 0)
  /\ UNCHANGED <<server, jar, tab, faults>>

PasswordForm ==
  /\ page = "account" /\ store.token # NoToken
  /\ Change("password", Guest, 0)

\* The header menu, on every page that shows it.
Logout ==
  /\ page # "login" /\ store.status = "authenticated" /\ Click
  /\ ApiRequest("logout", jar, Guest, 0)
  /\ UNCHANGED <<server, jar, tab, faults>>

-------------------------------------------------------------------------------
(* Moving between pages.                                                   *)

\* A page left behind keeps its pending changes, with the cart key it last rendered.
Left(n, k) == {[r EXCEPT !.mine = FALSE, !.key = IF r.mine THEN k ELSE @] : r \in n}

Open(p) ==
  /\ page # p /\ page' = p
  /\ visit' = IF p = "checkout" THEN visit + 1 ELSE visit
  /\ net' = IF p = "login" THEN Unobserved(Left(net, Now)) ELSE Left(net, Now)

Links ==
  {"product", "cart"}
    \cup (IF store.status = "authenticated" THEN {"account"} ELSE {})
    \cup (IF store.status = "unauthenticated" THEN {"login"} ELSE {})
    \cup (IF page = "cart" /\ Shown(Now) /\ HasItem /\ visit < MaxVisits THEN {"checkout"} ELSE {})

Header ==
  /\ page # "login" /\ clicks < MaxClicks /\ \E p \in Links : Open(p)
  /\ UNCHANGED <<server, jar, store, session, cache, loggedOut, clicks, faults>>

LeaveLogin ==
  /\ page = "login" /\ clicks < MaxClicks /\ Open("product")
  /\ UNCHANGED <<server, jar, store, session, cache, loggedOut, clicks, faults>>

CustomerOnly ==
  /\ page = "account" /\ store.status = "unauthenticated" /\ Open("login")
  /\ UNCHANGED <<server, jar, store, session, cache, loggedOut, clicks, faults>>

-------------------------------------------------------------------------------
(* The server.                                                             *)

Served(r, got) == net' = (net \ {r}) \cup {[r EXCEPT !.at = "done", !.got = got]}
Refused(r) ==
  /\ net' = (net \ {r}) \cup {[r EXCEPT !.at = "failed"]}
  /\ UNCHANGED server

\* Fault: the units are added whatever the stock.
Uncapped(n) == n

Capped(n) == IF n > MaxUnits THEN MaxUnits ELSE n

IssueTokens(who, spent) ==
  LET t == [who |-> who, n |-> issued + 1] IN
  /\ issued' = issued + 1
  /\ live' = (live \ {spent}) \cup {t}
  /\ honoured' = honoured \cup {t}
  /\ UNCHANGED <<carts, orders>>

CustomerRefreshView(r) ==
  IF r.token \in live
  THEN IssueTokens(r.token.who, r.token) /\ Served(r, issued + 1)
  ELSE Refused(r)

CustomerLoginView(r) == IssueTokens(r.whom, NoToken) /\ Served(r, issued + 1)

CustomerLogoutView(r) ==
  /\ live' = live \ {r.token} /\ Served(r, 0)
  /\ UNCHANGED <<carts, orders, honoured, issued>>

CartDetailView(r) == Served(r, carts[r.token.who]) /\ UNCHANGED server

CustomerPasswordView(r) ==
  /\ live' = {t \in live : t.who # r.token.who}
  /\ honoured' = {t \in honoured : t.who # r.token.who}
  /\ Served(r, 0) /\ UNCHANGED <<carts, orders, issued>>

SetCart(r, units) ==
  /\ carts' = [carts EXCEPT ![r.token.who] = units]
  /\ Served(r, units) /\ UNCHANGED <<orders, live, honoured, issued>>

CartClaimView(r) ==
  LET sum == Capped(carts[r.token.who] + carts[Guest]) IN
  /\ carts' = [carts EXCEPT ![r.token.who] = sum, ![Guest] = 0]
  /\ Served(r, sum) /\ UNCHANGED <<orders, live, honoured, issued>>

CartItemCreateView(r) ==
  IF carts[r.token.who] + r.qty <= MaxUnits
  THEN SetCart(r, carts[r.token.who] + r.qty) ELSE Refused(r)

CartItemDetailView(r) ==
  IF r.whom = r.token.who /\ carts[r.token.who] > 0 THEN SetCart(r, r.qty) ELSE Refused(r)

OrderCreateView(r) ==
  LET me == r.token.who
      Mine == [key |-> IdempotencyKey(r), owner |-> me, visit |-> r.visit] IN
  CASE Mine \in orders -> Served(r, 0) /\ UNCHANGED server
    [] Mine \notin orders /\ (carts[me] = 0 \/ \E o \in orders : o.key = Mine.key) -> Refused(r)
    [] OTHER -> /\ orders' = orders \cup {Mine}
                /\ carts' = [carts EXCEPT ![me] = 0]
                /\ Served(r, 0) /\ UNCHANGED <<live, honoured, issued>>

NeedsCustomer == {"claim", "password"}
ByCookie == {"refresh", "login", "logout"}
Authorised(r) ==
  IF r.token = NoToken THEN r.kind \notin NeedsCustomer ELSE r.token \in honoured

Serve(r) ==
  /\ r.at = "sent" /\ UNCHANGED <<jar, tab, clicks, faults>>
  /\ CASE r.kind = "refresh" -> CustomerRefreshView(r)
       [] r.kind = "login" -> CustomerLoginView(r)
       [] r.kind = "logout" -> CustomerLogoutView(r)
       [] r.kind \notin ByCookie /\ ~Authorised(r) -> Refused(r)
       [] r.kind \notin ByCookie /\ Authorised(r) ->
            CASE r.kind = "cart" -> CartDetailView(r)
              [] r.kind = "password" -> CustomerPasswordView(r)
              [] r.kind = "claim" -> CartClaimView(r)
              [] r.kind = "add" -> CartItemCreateView(r)
              [] r.kind \in {"change", "remove"} -> CartItemDetailView(r)
              [] r.kind = "order" -> OrderCreateView(r)

\* The same customer, or the same guest session, adds from another tab.
Elsewhere(o) ==
  /\ Click /\ carts[o] < MaxUnits
  /\ carts' = [carts EXCEPT ![o] = @ + 1]
  /\ UNCHANGED <<orders, live, honoured, issued, jar, tab, net, faults>>

\* Access tokens last fifteen minutes and the tab never renews one.
AccessExpires ==
  /\ store.token \in honoured /\ honoured' = honoured \ {store.token}
  /\ faults < MaxFaults /\ faults' = faults + 1
  /\ UNCHANGED <<carts, orders, live, issued, jar, tab, net, clicks>>

\* The request or its answer is lost, or the server throttles it.
Lose(r) ==
  /\ faults < MaxFaults /\ r.at # "failed"
  /\ faults' = faults + 1
  /\ net' = (net \ {r}) \cup {[r EXCEPT !.at = "failed"]}
  /\ UNCHANGED <<server, jar, tab, clicks>>

-------------------------------------------------------------------------------
(* The tab acts on an answer.                                              *)

Answered(r) == r.at # "sent"
Ok(r) == Answered(r) /\ r.at = "done"
Tokens(r) == [who |-> IF r.kind = "login" THEN r.whom ELSE r.token.who, n |-> r.got]

\* Set-Cookie takes effect when the answer arrives, whatever became of the page.
SetAuthenticated(t) ==
  /\ jar' = t /\ store' = [status |-> "authenticated", token |-> t] /\ session' = "signed-in"

\* Fault: only a refresh that succeeds decides the session.
RefreshFailureIgnored(r) ==
  /\ Answered(r) /\ r.kind = "refresh"
  /\ IF r.at = "done"
     THEN SetAuthenticated(Tokens(r)) /\ net' = Observed(net \ {r}, "customer")
     ELSE net' = net \ {r} /\ UNCHANGED <<jar, store, session>>
  /\ UNCHANGED <<server, cache, page, visit, loggedOut, clicks, faults>>

OnRefresh(r) ==
  /\ Answered(r) /\ r.kind = "refresh"
  /\ IF r.at = "done"
     THEN /\ SetAuthenticated(Tokens(r))
          /\ net' = Observed(net \ {r}, "customer")
     ELSE /\ net' = IF session = "unknown" THEN Observed(net \ {r}, "guest") ELSE net \ {r}
          /\ store' = IF session = "unknown"
                      THEN [status |-> "unauthenticated", token |-> NoToken] ELSE store
          /\ UNCHANGED <<jar, session>>
  /\ UNCHANGED <<server, cache, page, visit, loggedOut, clicks, faults>>

\* A form whose answer arrives opens its next page even when it was left meanwhile.
Replaced(p, r, k) == IF page = p THEN net \ {r} ELSE Left(net \ {r}, k)

ClaimGuestCart(r, t) ==
  [r EXCEPT !.kind = "claim", !.token = t, !.whom = Guest, !.mine = FALSE, !.at = "sent",
            !.got = 0]

UseTenantLogin(r) ==
  /\ Ok(r) /\ r.kind = "login"
  /\ SetAuthenticated(Tokens(r)) /\ loggedOut' = FALSE
  /\ page' = "account"
  /\ net' = Observed(Replaced("account", r, "customer"), "customer") \cup {ClaimGuestCart(r, Tokens(r))}
  /\ UNCHANGED <<server, cache, visit, clicks, faults>>

\* Fault: the session query is removed and so runs again.
LogoutForgetsSession(r) ==
  /\ Answered(r) /\ r.kind = "logout"
  /\ jar' = IF r.at = "done" THEN NoToken ELSE jar
  /\ store' = [status |-> "unauthenticated", token |-> NoToken] /\ session' = "unknown"
  /\ loggedOut' = TRUE
  /\ net' = Observed(net \ {r}, "guest")
  /\ UNCHANGED <<server, cache, page, visit, clicks, faults>>

UseLogout(r) ==
  /\ Answered(r) /\ r.kind = "logout"
  /\ jar' = IF r.at = "done" THEN NoToken ELSE jar
  /\ store' = [status |-> "unauthenticated", token |-> NoToken] /\ session' = "none"
  /\ loggedOut' = TRUE
  /\ net' = Observed(net \ {r}, "guest")
  /\ UNCHANGED <<server, cache, page, visit, clicks, faults>>

Snapshot(r) == [owner |-> r.token.who, units |-> r.got, age |-> "fresh"]
KeyNow(r) == IF r.mine THEN Now ELSE r.key

OnCart(r) ==
  /\ Ok(r) /\ r.kind \in {"cart", "add", "change"}
  /\ cache' = [cache EXCEPT ![KeyNow(r)] = Snapshot(r)]
  /\ net' = net \ {r}
  /\ UNCHANGED <<server, jar, store, session, page, visit, loggedOut, clicks, faults>>

\* Fault: a change leaves the cached cart as it is.
KeepCached(k) == UNCHANGED cache

Invalidate(k) == cache' = [cache EXCEPT ![k].age = IF Shown(k) THEN "invalid" ELSE @]

OnRemove(r) ==
  /\ Ok(r) /\ r.kind = "remove"
  /\ Invalidate(KeyNow(r))
  /\ net' = {q \in net \ {r} : q.kind = "cart" => q.key # KeyNow(r)}
  /\ UNCHANGED <<server, jar, store, session, page, visit, loggedOut, clicks, faults>>

OnClaim(r) ==
  /\ Answered(r) /\ r.kind = "claim"
  /\ IF r.at = "done"
     THEN cache' = [cache EXCEPT !["customer"] = Snapshot(r)] /\ net' = net \ {r}
     ELSE /\ Invalidate("customer")
          /\ net' = {q \in net \ {r} : q.kind = "cart" => q.key # "customer"}
  /\ UNCHANGED <<server, jar, store, session, page, visit, loggedOut, clicks, faults>>

UseCreateOrder(r) ==
  /\ Ok(r) /\ r.kind = "order"
  /\ cache' = [cache EXCEPT ![KeyNow(r)] = [Snapshot(r) EXCEPT !.units = 0]]
  /\ page' = "confirmation"
  /\ net' = Replaced("confirmation", r, Now)
  /\ UNCHANGED <<server, jar, store, session, visit, loggedOut, clicks, faults>>

OnQueryError(r) ==
  /\ Answered(r) /\ r.at = "failed" /\ r.kind = "cart"
  /\ cache' = [cache EXCEPT ![r.key].age = IF cache[r.key] = Nothing THEN @ ELSE "error"]
  /\ net' = net \ {r}
  /\ UNCHANGED <<server, jar, store, session, page, visit, loggedOut, clicks, faults>>

\* Nothing but the message of a failure, or of a changed password.
OnMessage(r) ==
  /\ r.at # "sent"
  /\ (r.at = "failed" /\ r.kind \in Changes) \/ r.kind = "password"
  /\ net' = net \ {r}
  /\ UNCHANGED <<server, jar, tab, clicks, faults>>

Answer(r) ==
  \/ OnRefresh(r) \/ UseTenantLogin(r) \/ UseLogout(r) \/ OnCart(r) \/ OnRemove(r)
  \/ OnClaim(r) \/ UseCreateOrder(r) \/ OnQueryError(r)
  \/ OnMessage(r)

Next ==
  \/ CustomerAuthSession \/ UseCart \/ MinutePasses
  \/ AddToCart \/ InYourCart \/ CartContent \/ CheckoutForm \/ PasswordForm
  \/ \E a \in Account : LoginForm(a)
  \/ Logout \/ Header \/ LeaveLogin \/ CustomerOnly
  \/ \E r \in net : Serve(r) \/ Lose(r) \/ Answer(r)
  \/ \E o \in {StartAs} : Elsewhere(o)
  \/ AccessExpires

\* The first refresh leaves when the tab opens; an invalidated cart on a page that
\* shows it is read again at once; the network answers, with a result or a failure.
Fairness ==
  /\ WF_vars(store.status = "loading" /\ CustomerAuthSession)
  /\ SF_vars(cache[Now].age = "invalid" /\ UseCart)
  /\ WF_vars(CustomerOnly)
  /\ \A i \in Slot : /\ WF_vars(\E r \in net : r.id = i /\ Serve(r))
                     /\ WF_vars(\E r \in net : r.id = i /\ Answer(r))

Spec == Init /\ [][Next]_vars /\ Fairness

-------------------------------------------------------------------------------
(* Properties.                                                             *)

\* The variables keep their types.
TypeOK ==
  /\ carts \in [Owner -> 0..MaxUnits]
  /\ orders \subseteq [key: Nat, owner: Owner, visit: 1..MaxVisits]
  /\ live \subseteq Token /\ honoured \subseteq Token /\ issued \in Nat /\ jar \in Token
  /\ store \in [status: {"loading", "authenticated", "unauthenticated"}, token: Token]
  /\ session \in {"unknown", "none", "signed-in"}
  /\ cache \in [Key -> [owner: Owner \cup {"nobody"}, units: 0..MaxUnits,
                       age: {"fresh", "stale", "invalid", "error"}]]
  /\ page \in Page /\ visit \in 0..MaxVisits
  /\ net \subseteq Request
  /\ clicks \in 0..MaxClicks /\ faults \in 0..MaxFaults /\ loggedOut \in BOOLEAN

\* One opening of the checkout page buys at most once for an owner, however often its
\* form is submitted again after a lost answer while other tabs refill the cart.
OneOrderPerVisit ==
  \A p, q \in orders : p.visit = q.visit /\ p.owner = q.owner => p = q

\* Until it is reloaded, a tab that logged out is signed in again by a login, or by a
\* refresh that had left before the log out: never by one sent since, although a log out
\* whose request was lost leaves the cookie and its token alive, and the first refresh of
\* another load of the page would use them.
RevivedOnlyByLogin ==
  [][ (loggedOut /\ loggedOut' /\ store'.token # NoToken /\ store.token = NoToken)
        => \E r \in net : r.kind = "refresh" /\ ~r.late ]_vars

\* The tab does not check the session for ever: the refresh that fails decides it too.
SessionDecided == store.status = "loading" ~> store.status # "loading"

ForeignCart ==
  /\ page # "login" /\ store.token # NoToken
  /\ cache["customer"].owner \notin {"nobody", store.token.who}
ClaimPending == \E r \in net : r.kind = "claim" /\ r.token = store.token
OthersPending ==
  \E r \in net : (r.token.who # store.token.who \/ r.kind = "login")

\* The customer cart cache is not keyed by account: after a second account signs in it
\* still holds the cart of the first.  The claim that every login starts replaces it,
\* or invalidates it when it fails, unless requests of the first account are pending.
OwnCartComesBack ==
  (ForeignCart /\ ClaimPending /\ ~OthersPending)
    ~> (~ForeignCart \/ store.token \notin honoured)
================================================================================
