--------------------------- MODULE ShopBrowserProofs ---------------------------
(***************************************************************************)
(* Proofs about ShopBrowser for any accounts, any number of requests in    *)
(* flight and any bounds.  The inductive invariant says of the server, of  *)
(* the tab and of every request on its way what the next step of the other *)
(* two relies on: an answer is applied long after the state its request    *)
(* left from is gone.                                                      *)
(***************************************************************************)
EXTENDS ShopBrowser, WellFoundedInduction, TLAPS

-------------------------------------------------------------------------------
(* The inductive invariant.                                                *)

\* An order bears the key of the opening of the checkout page it was sent from, and no
\* key is used twice.
ServerSound ==
  /\ carts \in [Owner -> 0..MaxUnits]
  /\ orders \subseteq [key: Nat, owner: Owner, visit: 1..MaxVisits]
  /\ live \subseteq Token /\ honoured \subseteq Token /\ issued \in Nat
  /\ \A o \in orders : o.key = o.visit
  /\ \A p, q \in orders : p.key = q.key => p = q

\* A cart shown with units is somebody's; the session of a tab that logged out is decided.
TabSound ==
  /\ jar \in Token
  /\ store \in [status: {"loading", "authenticated", "unauthenticated"}, token: Token]
  /\ session \in {"unknown", "none", "signed-in"}
  /\ cache \in [Key -> [owner: Owner \cup {"nobody"}, units: 0..MaxUnits,
                       age: {"fresh", "stale", "invalid", "error"}]]
  /\ page \in Page /\ visit \in 0..MaxVisits /\ loggedOut \in BOOLEAN
  /\ \A k \in Key : cache[k].units > 0 => cache[k].owner \in Owner
  /\ page = "checkout" => visit > 0
  /\ loggedOut => session # "unknown"

\* A refresh and a log in are answered with a token, all else with units of the product; an
\* order was sent from an opened checkout page; no refresh leaves after a log out.
RequestSound(r) ==
  /\ r.kind \notin {"refresh", "login"} => r.got \in 0..MaxUnits
  /\ r.kind = "order" => r.visit > 0
  /\ r.kind = "refresh" => ~r.late

NetSound(n) == n \subseteq Request /\ \A r \in n : RequestSound(r)

CountsSound == clicks \in 0..MaxClicks /\ faults \in 0..MaxFaults

IInv == ServerSound /\ TabSound /\ NetSound(net) /\ CountsSound

-------------------------------------------------------------------------------
(* Requests on their way.                                                  *)

LEMMA LeastNumber ==
  ASSUME NEW S \in SUBSET Nat, S # {}
  PROVE  \E m \in S : \A n \in S : m <= n
<1>1. PICK m \in S : \A n \in S : <<n, m>> \notin OpToRel(<, Nat)
  BY NatLessThanWellFounded, WFMin
<1>2. \A n \in S : ~ (n < m)
  BY <1>1 DEF OpToRel
<1> QED
  BY <1>2

LEMMA TokenTypes == NoToken \in Token /\ Guest \in Owner /\ StartAs \in Owner
BY Bounds DEF NoToken, Token, Owner

LEMMA KeyTypes == \A t : KeyOf(t) \in Key
BY DEF KeyOf, Key

LEMMA NowType == Now \in Key
BY KeyTypes DEF Now

\* A request that leaves is sound if the tab may send it now.
LEMMA ApiSound ==
  ASSUME IInv, NEW kind \in Kind, NEW t \in Token, NEW whom \in Owner, NEW qty \in 0..MaxUnits,
         ApiRequest(kind, t, whom, qty),
         kind = "refresh" => ~loggedOut, kind = "order" => visit > 0
  PROVE  NetSound(net')
<1> DEFINE free == Slot \ {r.id : r \in net}
           i == CHOOSE i \in free : \A j \in free : i <= j
           r == [id |-> i, kind |-> kind, token |-> t,
                 key |-> Now, whom |-> whom, qty |-> qty, visit |-> visit, mine |-> TRUE,
                 late |-> loggedOut, at |-> "sent", got |-> 0]
<1>1. free # {} /\ net' = net \cup {r}
  BY DEF ApiRequest
<1>2. free \in SUBSET Nat
  BY Bounds
<1>3. \E j \in free : \A k \in free : j <= k
  BY <1>1, <1>2, LeastNumber
<1>4. i \in Slot
  BY <1>3
<1> HIDE DEF i
<1>5. r \in Request
  BY <1>4, NowType DEF IInv, TabSound, Request
<1>6. RequestSound(r)
  BY Bounds DEF RequestSound
<1> HIDE DEF r
<1> QED
  BY <1>1, <1>5, <1>6 DEF IInv, NetSound

\* What is left of the requests when some are answered or cancelled.
LEMMA FewerSound ==
  ASSUME NEW n, NetSound(n), NEW m \in SUBSET n
  PROVE  NetSound(m)
BY DEF NetSound

LEMMA ObservedSound ==
  ASSUME NEW n, NetSound(n), NEW k
  PROVE  NetSound(Observed(n, k)) /\ NetSound(Unobserved(n))
BY DEF NetSound, Observed, Unobserved

LEMMA LeftSound ==
  ASSUME NEW n, NetSound(n), NEW k \in Key
  PROVE  NetSound(Left(n, k))
<1> DEFINE left(r) == [r EXCEPT !.mine = FALSE, !.key = IF r.mine THEN k ELSE @]
<1>1. ASSUME NEW r \in n PROVE left(r) \in Request /\ RequestSound(left(r))
  BY <1>1 DEF NetSound, Request, RequestSound
<1>2. Left(n, k) = {left(r) : r \in n}
  BY DEF Left
<1> QED
  BY <1>1, <1>2 DEF NetSound

LEMMA ReplacedSound ==
  ASSUME NetSound(net), NEW p, NEW r, NEW k \in Key
  PROVE  NetSound(Replaced(p, r, k))
<1>1. NetSound(net \ {r})
  BY FewerSound
<1> QED
  BY <1>1, LeftSound DEF Replaced

\* The server's answer, or the failure that stands for it.
LEMMA ServedSound ==
  ASSUME NetSound(net), NEW r \in net, NEW got \in Nat,
         r.kind \notin {"refresh", "login"} => got \in 0..MaxUnits, Served(r, got)
  PROVE  NetSound(net')
<1> DEFINE q == [r EXCEPT !.at = "done", !.got = got]
<1>1. q \in Request /\ RequestSound(q)
  BY DEF NetSound, Request, RequestSound
<1> QED
  BY <1>1 DEF NetSound, Served

LEMMA FailedSound ==
  ASSUME NetSound(net), NEW r \in net, net' = (net \ {r}) \cup {[r EXCEPT !.at = "failed"]}
  PROVE  NetSound(net')
<1> DEFINE q == [r EXCEPT !.at = "failed"]
<1>1. q \in Request /\ RequestSound(q)
  BY DEF NetSound, Request, RequestSound
<1> QED
  BY <1>1 DEF NetSound

-------------------------------------------------------------------------------
(* What the tab sends.                                                     *)

LEMMA QueriesSafe ==
  ASSUME IInv, CustomerAuthSession \/ UseCart \/ MinutePasses
  PROVE  IInv'
<1>1. CASE CustomerAuthSession
  <2>1. jar \in Token /\ ~loggedOut
    BY <1>1 DEF CustomerAuthSession, IInv, TabSound
  <2>2. ApiRequest("refresh", jar, Guest, 0)
    BY <1>1 DEF CustomerAuthSession
  <2>3. NetSound(net')
    BY <2>1, <2>2, ApiSound, TokenTypes, Bounds DEF Kind
  <2> QED
    BY <1>1, <2>3 DEF CustomerAuthSession, IInv, ServerSound, TabSound, CountsSound, server, tab
<1>2. CASE UseCart
  <2>1. store.token \in Token
    BY DEF IInv, TabSound
  <2>2. ApiRequest("cart", store.token, Guest, 0)
    BY <1>2 DEF UseCart
  <2>3. NetSound(net')
    BY <2>1, <2>2, ApiSound, TokenTypes, Bounds DEF Kind
  <2> QED
    BY <1>2, <2>3 DEF UseCart, IInv, ServerSound, TabSound, CountsSound, server, tab
<1>3. CASE MinutePasses
  <2>1. faults' \in 0..MaxFaults
    BY <1>3, Bounds DEF MinutePasses, IInv, CountsSound
  <2>2. cache' = [cache EXCEPT ![Now].age = "stale"]
    BY <1>3 DEF MinutePasses
  <2>3. TabSound'
    BY <1>3, <2>2, NowType DEF MinutePasses, IInv, TabSound
  <2> QED
    BY <1>3, <2>1, <2>3 DEF MinutePasses, IInv, ServerSound, CountsSound, server
<1> QED
  BY <1>1, <1>2, <1>3

LEMMA ClickCounted ==
  ASSUME CountsSound, Click, UNCHANGED faults
  PROVE  CountsSound'
BY Bounds DEF Click, CountsSound

LEMMA ChangeSafe ==
  ASSUME IInv, NEW kind \in Kind \ {"refresh"}, NEW whom \in Owner, NEW qty \in 0..MaxUnits,
         Change(kind, whom, qty), kind = "order" => visit > 0
  PROVE  IInv'
<1>1. store.token \in Token
  BY DEF IInv, TabSound
<1>2. NetSound(net')
  BY <1>1, ApiSound DEF Change
<1>3. CountsSound'
  BY ClickCounted DEF Change, IInv
<1> QED
  BY <1>2, <1>3 DEF Change, IInv, ServerSound, TabSound, server, tab

\* A change names the owner of the cart shown, which has units.
LEMMA QuantitySafe ==
  ASSUME IInv, HasItem, NEW n \in 0..MaxUnits, ChangeCartQuantity(n)
  PROVE  IInv'
<1>1. cache[Now].owner \in Owner
  BY NowType DEF HasItem, IInv, TabSound
<1>2. 0 \in 0..MaxUnits
  BY Bounds
<1> QED
  BY <1>1, <1>2, ChangeSafe DEF ChangeCartQuantity, Kind

LEMMA ChangesSafe ==
  ASSUME IInv, AddToCart \/ InYourCart \/ CartContent \/ CheckoutForm \/ PasswordForm
  PROVE  IInv'
<1>1. 0 \in 0..MaxUnits /\ 1 \in 0..MaxUnits
  BY Bounds
<1>2. CASE AddToCart
  BY <1>1, <1>2, ChangeSafe, TokenTypes DEF AddToCart, Kind
<1>3. CASE InYourCart
  BY <1>3, QuantitySafe DEF InYourCart, Neighbours
<1>4. CASE CartContent
  BY <1>1, <1>4, QuantitySafe DEF CartContent, Neighbours
<1>5. CASE CheckoutForm
  <2>1. visit > 0
    BY <1>5 DEF CheckoutForm, IInv, TabSound
  <2> QED
    BY <1>1, <1>5, <2>1, ChangeSafe, TokenTypes DEF CheckoutForm, Kind
<1>6. CASE PasswordForm
  BY <1>1, <1>6, ChangeSafe, TokenTypes DEF PasswordForm, Kind
<1> QED
  BY <1>2, <1>3, <1>4, <1>5, <1>6

LEMMA AccountFormsSafe ==
  ASSUME IInv, (\E a \in Account : LoginForm(a)) \/ Logout
  PROVE  IInv'
<1>1. 0 \in 0..MaxUnits
  BY Bounds
<1>2. CASE Logout
  <2>1. jar \in Token /\ ApiRequest("logout", jar, Guest, 0)
    BY <1>2 DEF Logout, IInv, TabSound
  <2>2. NetSound(net')
    BY <1>1, <2>1, ApiSound, TokenTypes DEF Kind
  <2>3. CountsSound'
    BY <1>2, ClickCounted DEF Logout, IInv
  <2> QED
    BY <1>2, <2>2, <2>3 DEF Logout, IInv, ServerSound, TabSound, server, tab
<1>3. ASSUME NEW a \in Account, LoginForm(a) PROVE IInv'
  <2>1. a \in Owner /\ ApiRequest("login", NoToken, a, 0)
    BY <1>3 DEF LoginForm, Owner
  <2>2. NetSound(net')
    BY <1>1, <2>1, ApiSound, TokenTypes DEF Kind
  <2>3. CountsSound'
    BY <1>3, ClickCounted DEF LoginForm, IInv
  <2> QED
    BY <1>3, <2>2, <2>3 DEF LoginForm, IInv, ServerSound, TabSound, server, tab
<1> QED
  BY <1>2, <1>3

-------------------------------------------------------------------------------
(* Moving between pages.                                                   *)

\* A page is opened, and the checkout page only within its bound.
LEMMA OpenSafe ==
  ASSUME IInv, NEW p \in Page, Open(p), p = "checkout" => visit < MaxVisits,
         UNCHANGED <<server, jar, store, session, cache, loggedOut, clicks, faults>>
  PROVE  IInv'
<1>1. page' \in Page /\ visit' \in 0..MaxVisits /\ (page' = "checkout" => visit' > 0)
  BY Bounds DEF Open, IInv, TabSound
<1>2. TabSound'
  BY <1>1 DEF IInv, TabSound
<1>3. NetSound(net')
  <2>1. NetSound(Left(net, Now)) /\ NetSound(Unobserved(Left(net, Now)))
    BY LeftSound, NowType, ObservedSound DEF IInv
  <2> QED
    BY <2>1 DEF Open
<1> QED
  BY <1>2, <1>3 DEF IInv, ServerSound, CountsSound, server

LEMMA MovesSafe ==
  ASSUME IInv, Header \/ LeaveLogin \/ CustomerOnly
  PROVE  IInv'
<1>1. CASE Header
  <2>1. PICK p \in Links : Open(p)
    BY <1>1 DEF Header
  <2>2. p \in Page /\ (p = "checkout" => visit < MaxVisits)
    BY DEF Links, Page
  <2> QED
    BY <1>1, <2>1, <2>2, OpenSafe DEF Header
<1>2. CASE LeaveLogin
  BY <1>2, OpenSafe DEF LeaveLogin, Page
<1>3. CASE CustomerOnly
  BY <1>3, OpenSafe DEF CustomerOnly, Page
<1> QED
  BY <1>1, <1>2, <1>3

-------------------------------------------------------------------------------
(* The server.                                                             *)

LEMMA RequestTypes ==
  ASSUME IInv, NEW r \in net
  PROVE  /\ r.token \in Token /\ r.token.who \in Owner /\ r.whom \in Owner /\ r.key \in Key
         /\ r.qty \in 0..MaxUnits /\ r.visit \in 0..MaxVisits /\ r.got \in Nat
         /\ r.kind \in Kind /\ RequestSound(r)
BY DEF IInv, NetSound, Request, Token

\* Tokens are numbered as they are handed out.
LEMMA TokensSafe ==
  ASSUME IInv, NEW r \in net, r.kind \in {"refresh", "login"}, NEW who \in Owner, NEW spent,
         IssueTokens(who, spent), Served(r, issued + 1)
  PROVE  ServerSound' /\ NetSound(net')
<1>1. issued \in Nat
  BY DEF IInv, ServerSound
<1>2. NetSound(net')
  BY <1>1, ServedSound DEF IInv
<1>3. [who |-> who, n |-> issued + 1] \in Token
  BY <1>1 DEF Token
<1>4. live' \subseteq Token /\ honoured' \subseteq Token /\ issued' \in Nat
  BY <1>1, <1>3 DEF IssueTokens, IInv, ServerSound
<1> QED
  BY <1>2, <1>4 DEF IssueTokens, IInv, ServerSound

LEMMA RefusedSafe ==
  ASSUME IInv, NEW r \in net, Refused(r)
  PROVE  ServerSound' /\ NetSound(net')
BY FailedSound DEF Refused, IInv, ServerSound, server

LEMMA SessionViewsSafe ==
  ASSUME IInv, NEW r \in net,
         \/ r.kind = "refresh" /\ CustomerRefreshView(r)
         \/ r.kind = "login" /\ CustomerLoginView(r)
         \/ r.kind = "logout" /\ CustomerLogoutView(r)
         \/ r.kind = "password" /\ CustomerPasswordView(r)
  PROVE  ServerSound' /\ NetSound(net')
<1>1. 0 \in 0..MaxUnits
  BY Bounds
<1>2. CASE r.kind = "refresh" /\ CustomerRefreshView(r)
  BY <1>2, TokensSafe, RefusedSafe, RequestTypes DEF CustomerRefreshView
<1>3. CASE r.kind = "login" /\ CustomerLoginView(r)
  BY <1>3, TokensSafe, RequestTypes DEF CustomerLoginView
<1>4. ASSUME Served(r, 0) PROVE NetSound(net')
  BY <1>1, <1>4, ServedSound DEF IInv
<1>5. CASE r.kind = "logout" /\ CustomerLogoutView(r)
  BY <1>4, <1>5 DEF CustomerLogoutView, IInv, ServerSound
<1>6. CASE r.kind = "password" /\ CustomerPasswordView(r)
  <2>1. live' \subseteq live /\ honoured' \subseteq honoured
    BY <1>6 DEF CustomerPasswordView
  <2> QED
    BY <1>4, <1>6, <2>1 DEF CustomerPasswordView, IInv, ServerSound
<1> QED
  BY <1>2, <1>3, <1>5, <1>6

\* A cart request leaves between none of the product and its stock in the cart.
LEMMA CartViewsSafe ==
  ASSUME IInv, NEW r \in net,
         CartDetailView(r) \/ CartItemCreateView(r) \/ CartItemDetailView(r) \/ CartClaimView(r)
  PROVE  ServerSound' /\ NetSound(net')
<1> DEFINE me == r.token.who
<1>1. carts \in [Owner -> 0..MaxUnits] /\ me \in Owner /\ Guest \in Owner
  BY RequestTypes, TokenTypes DEF IInv, ServerSound
<1>2. r.qty \in 0..MaxUnits /\ carts[me] \in 0..MaxUnits /\ carts[Guest] \in 0..MaxUnits
  BY <1>1, RequestTypes
<1>3. ASSUME NEW units \in 0..MaxUnits, Served(r, units) PROVE NetSound(net')
  <2>1. units \in Nat
    BY <1>3, Bounds
  <2> QED
    BY <1>3, <2>1, ServedSound DEF IInv
<1>4. ASSUME NEW units \in 0..MaxUnits, SetCart(r, units) PROVE ServerSound' /\ NetSound(net')
  <2>1. carts' \in [Owner -> 0..MaxUnits]
    BY <1>1, <1>4 DEF SetCart
  <2> QED
    BY <1>3, <1>4, <2>1 DEF SetCart, IInv, ServerSound
<1>5. CASE CartDetailView(r)
  BY <1>2, <1>3, <1>5 DEF CartDetailView, IInv, ServerSound, server
<1>6. CASE CartItemCreateView(r)
  <2>1. CASE carts[me] + r.qty <= MaxUnits
    <3>1. carts[me] + r.qty \in 0..MaxUnits
      BY <1>2, <2>1, Bounds
    <3> QED
      BY <1>4, <1>6, <2>1, <3>1 DEF CartItemCreateView
  <2>2. CASE ~(carts[me] + r.qty <= MaxUnits)
    BY <1>6, <2>2, RefusedSafe DEF CartItemCreateView
  <2> QED
    BY <2>1, <2>2
<1>7. CASE CartItemDetailView(r)
  BY <1>2, <1>4, <1>7, RefusedSafe DEF CartItemDetailView
<1>8. CASE CartClaimView(r)
  <2> DEFINE sum == Capped(carts[me] + carts[Guest])
  <2>1. sum \in 0..MaxUnits
    BY <1>2, Bounds DEF Capped
  <2>2. carts' = [carts EXCEPT ![me] = sum, ![Guest] = 0] /\ Served(r, sum)
    BY <1>8 DEF CartClaimView
  <2>3. UNCHANGED <<orders, live, honoured, issued>>
    BY <1>8 DEF CartClaimView
  <2> HIDE DEF sum
  <2>4. carts' \in [Owner -> 0..MaxUnits]
    BY <1>1, <2>1, <2>2, Bounds
  <2> QED
    BY <1>3, <2>1, <2>2, <2>3, <2>4 DEF IInv, ServerSound
<1> QED
  BY <1>5, <1>6, <1>7, <1>8

\* An order is placed under a key no order has, that of the page's opening.
LEMMA OrderViewSafe ==
  ASSUME IInv, NEW r \in net, r.kind = "order", OrderCreateView(r)
  PROVE  ServerSound' /\ NetSound(net')
<1> DEFINE me == r.token.who
           Mine == [key |-> IdempotencyKey(r), owner |-> me, visit |-> r.visit]
           Clash == \E o \in orders : o.key = Mine.key
           Place == /\ orders' = orders \cup {Mine}
                    /\ carts' = [carts EXCEPT ![me] = 0]
                    /\ Served(r, 0) /\ UNCHANGED <<live, honoured, issued>>
<1>1. /\ carts \in [Owner -> 0..MaxUnits] /\ me \in Owner /\ 0 \in 0..MaxUnits
      /\ r.visit \in 1..MaxVisits
  BY RequestTypes, Bounds DEF IInv, ServerSound, RequestSound
<1>2. ASSUME Served(r, 0) PROVE NetSound(net')
  BY <1>1, <1>2, ServedSound DEF IInv
<1>3. \/ Mine \in orders /\ Served(r, 0) /\ UNCHANGED server
      \/ Refused(r)
      \/ Mine \notin orders /\ ~Clash /\ Place
  BY Zenon DEF OrderCreateView
<1>4. CASE Mine \in orders /\ Served(r, 0) /\ UNCHANGED server
  BY <1>2, <1>4 DEF IInv, ServerSound, server
<1>5. CASE Refused(r)
  BY <1>5, RefusedSafe
<1>6. CASE ~Clash /\ Place
  <2>1. Mine \in [key: Nat, owner: Owner, visit: 1..MaxVisits] /\ Mine.key = Mine.visit
    BY <1>1 DEF IdempotencyKey
  <2>2. carts' \in [Owner -> 0..MaxUnits]
    BY <1>1, <1>6
  <2>3. \A o \in orders : o.key # Mine.key
    BY <1>6
  <2> HIDE DEF Mine
  <2>4. /\ orders' \subseteq [key: Nat, owner: Owner, visit: 1..MaxVisits]
        /\ \A o \in orders' : o.key = o.visit
        /\ \A p, q \in orders' : p.key = q.key => p = q
    BY <1>6, <2>1, <2>3 DEF IInv, ServerSound
  <2> QED
    BY <1>2, <1>6, <2>2, <2>4 DEF IInv, ServerSound
<1> QED
  BY <1>3, <1>4, <1>5, <1>6

LEMMA ServeSafe ==
  ASSUME IInv, NEW r \in net, Serve(r)
  PROVE  IInv'
<1>1. \/ r.kind = "refresh" /\ CustomerRefreshView(r)
      \/ r.kind = "login" /\ CustomerLoginView(r)
      \/ r.kind = "logout" /\ CustomerLogoutView(r)
      \/ r.kind = "password" /\ CustomerPasswordView(r)
      \/ Refused(r)
      \/ CartDetailView(r) \/ CartItemCreateView(r) \/ CartItemDetailView(r) \/ CartClaimView(r)
      \/ r.kind = "order" /\ OrderCreateView(r)
  <2>1. r.kind \in Kind
    BY RequestTypes
  <2> QED
    BY <2>1 DEF Serve, Kind, ByCookie
<1>2. ServerSound' /\ NetSound(net')
  BY <1>1, SessionViewsSafe, RefusedSafe, CartViewsSafe, OrderViewSafe
<1> QED
  BY <1>2 DEF Serve, IInv, TabSound, CountsSound, tab

LEMMA OutsideSafe ==
  ASSUME IInv,
         \/ \E r \in net : Lose(r)
         \/ \E o \in {StartAs} : Elsewhere(o)
         \/ AccessExpires
  PROVE  IInv'
<1>1. ASSUME NEW r \in net, Lose(r) PROVE IInv'
  <2>1. faults' \in 0..MaxFaults
    BY <1>1, Bounds DEF Lose, IInv, CountsSound
  <2>2. NetSound(net')
    BY <1>1, FailedSound DEF Lose, IInv
  <2> QED
    BY <1>1, <2>1, <2>2 DEF Lose, IInv, ServerSound, TabSound, CountsSound, server, tab
<1>2. CASE Elsewhere(StartAs)
  <2>1. CountsSound'
    BY <1>2, ClickCounted DEF Elsewhere, IInv
  <2>2. carts' \in [Owner -> 0..MaxUnits]
    BY <1>2, TokenTypes, Bounds DEF Elsewhere, IInv, ServerSound
  <2> QED
    BY <1>2, <2>1, <2>2 DEF Elsewhere, IInv, ServerSound, TabSound, NetSound, tab
<1>3. CASE AccessExpires
  <2>1. faults' \in 0..MaxFaults
    BY <1>3, Bounds DEF AccessExpires, IInv, CountsSound
  <2>2. honoured' \subseteq Token
    BY <1>3 DEF AccessExpires, IInv, ServerSound
  <2> QED
    BY <1>3, <2>1, <2>2 DEF AccessExpires, IInv, ServerSound, TabSound, NetSound, CountsSound, tab
<1> QED
  BY <1>1, <1>2, <1>3

-------------------------------------------------------------------------------
(* The tab acts on an answer.                                              *)

\* What an answer leaves alone.
LEMMA AnswerSafe ==
  ASSUME IInv, UNCHANGED <<server, clicks, faults>>, TabSound', NetSound(net')
  PROVE  IInv'
BY DEF IInv, ServerSound, CountsSound, server

\* The tokens an answer carries become the tab's.
LEMMA SignedIn ==
  ASSUME IInv, NEW r \in net, SetAuthenticated(Tokens(r))
  PROVE  /\ Tokens(r) \in Token /\ jar' \in Token /\ session' = "signed-in"
         /\ store' \in [status: {"loading", "authenticated", "unauthenticated"}, token: Token]
<1>1. Tokens(r) \in Token
  BY RequestTypes DEF Tokens, Token
<1> QED
  BY <1>1 DEF SetAuthenticated

LEMMA RefreshAnswerSafe ==
  ASSUME IInv, NEW r \in net, OnRefresh(r)
  PROVE  IInv'
<1>1. NetSound(net \ {r}) /\ \A k : NetSound(Observed(net \ {r}, k))
  BY FewerSound, ObservedSound DEF IInv
<1>2. NetSound(net')
  BY <1>1 DEF OnRefresh
<1>3. /\ jar' \in Token /\ session' \in {session, "signed-in"}
      /\ store' \in [status: {"loading", "authenticated", "unauthenticated"}, token: Token]
  <2>1. CASE r.at = "done"
    BY <2>1, SignedIn DEF OnRefresh
  <2>2. CASE r.at # "done"
    BY <2>2, TokenTypes DEF OnRefresh, IInv, TabSound
  <2> QED
    BY <2>1, <2>2
<1>4. TabSound'
  BY <1>3 DEF OnRefresh, IInv, TabSound
<1> QED
  BY <1>2, <1>4, AnswerSafe DEF OnRefresh

LEMMA ClaimType ==
  ASSUME NEW r \in Request, NEW t \in Token
  PROVE  ClaimGuestCart(r, t) \in Request
BY TokenTypes, Bounds DEF ClaimGuestCart, Request, Kind

LEMMA LoginAnswerSafe ==
  ASSUME IInv, NEW r \in net, UseTenantLogin(r)
  PROVE  IInv'
<1>1. /\ Tokens(r) \in Token /\ jar' \in Token /\ session' = "signed-in"
      /\ store' \in [status: {"loading", "authenticated", "unauthenticated"}, token: Token]
  BY SignedIn DEF UseTenantLogin
<1>2. page' = "account" /\ loggedOut' = FALSE /\ UNCHANGED <<cache, visit>>
  BY DEF UseTenantLogin
<1>3. TabSound'
  BY <1>1, <1>2 DEF IInv, TabSound, Page
<1> DEFINE claim == ClaimGuestCart(r, Tokens(r))
<1>4. claim \in Request
  BY <1>1, ClaimType DEF IInv, NetSound
<1>5. RequestSound(claim)
  BY Bounds DEF ClaimGuestCart, IInv, NetSound, Request, RequestSound
<1>6. NetSound(Observed(Replaced("account", r, "customer"), "customer"))
  BY ReplacedSound, ObservedSound DEF IInv, Key
<1>7. NetSound(net')
  BY <1>4, <1>5, <1>6 DEF UseTenantLogin, NetSound
<1> QED
  BY <1>3, <1>7, AnswerSafe DEF UseTenantLogin

LEMMA LogoutAnswerSafe ==
  ASSUME IInv, NEW r \in net, UseLogout(r)
  PROVE  IInv'
<1>1. NetSound(net')
  BY FewerSound, ObservedSound DEF UseLogout, IInv
<1>2. TabSound'
  BY TokenTypes DEF UseLogout, IInv, TabSound
<1> QED
  BY <1>1, <1>2, AnswerSafe DEF UseLogout

\* What a cached cart may become.
Cached == [owner: Owner \cup {"nobody"}, units: 0..MaxUnits,
           age: {"fresh", "stale", "invalid", "error"}]

LEMMA CacheSafe ==
  ASSUME IInv, NEW k \in Key, NEW c \in Cached, c.units > 0 => c.owner \in Owner,
         cache' = [cache EXCEPT ![k] = c], page' = page \/ page' \in Page \ {"checkout"},
         UNCHANGED <<jar, store, session, visit, loggedOut>>
  PROVE  TabSound'
<1>1. cache' \in [Key -> Cached] /\ \A h \in Key : cache'[h].units > 0 => cache'[h].owner \in Owner
  BY DEF IInv, TabSound, Cached
<1> QED
  BY <1>1 DEF IInv, TabSound, Cached

LEMMA SnapshotSafe ==
  ASSUME IInv, NEW r \in net, r.kind \notin {"refresh", "login"}
  PROVE  /\ Snapshot(r) \in Cached /\ [Snapshot(r) EXCEPT !.units = 0] \in Cached
         /\ Snapshot(r).owner \in Owner /\ [Snapshot(r) EXCEPT !.units = 0].owner \in Owner
BY RequestTypes, Bounds DEF Snapshot, Cached, RequestSound

LEMMA KeyNowType ==
  ASSUME IInv, NEW r \in net
  PROVE  KeyNow(r) \in Key
BY RequestTypes, NowType DEF KeyNow

LEMMA InvalidateSafe ==
  ASSUME IInv, NEW k \in Key, Invalidate(k),
         UNCHANGED <<jar, store, session, page, visit, loggedOut>>
  PROVE  TabSound'
<1> DEFINE c == [cache[k] EXCEPT !.age = IF Shown(k) THEN "invalid" ELSE @]
<1>1. c \in Cached /\ (c.units > 0 => c.owner \in Owner)
  BY DEF IInv, TabSound, Cached
<1>2. cache' = [cache EXCEPT ![k] = c]
  BY DEF Invalidate
<1> HIDE DEF c
<1> QED
  BY <1>1, <1>2, CacheSafe

LEMMA CartAnswersSafe ==
  ASSUME IInv, NEW r \in net,
         OnCart(r) \/ OnRemove(r) \/ OnClaim(r) \/ UseCreateOrder(r) \/ OnQueryError(r)
  PROVE  IInv'
<1>1. NetSound(net \ {r}) /\ \A n \in SUBSET (net \ {r}) : NetSound(n)
  BY FewerSound DEF IInv
<1>2. CASE OnCart(r)
  <2>1. TabSound'
    BY <1>2, CacheSafe, SnapshotSafe, KeyNowType DEF OnCart
  <2> QED
    BY <1>1, <1>2, <2>1, AnswerSafe DEF OnCart
<1>3. CASE OnRemove(r)
  <2>1. TabSound'
    BY <1>3, InvalidateSafe, KeyNowType DEF OnRemove
  <2> QED
    BY <1>1, <1>3, <2>1, AnswerSafe DEF OnRemove
<1>4. CASE OnClaim(r)
  <2>1. "customer" \in Key
    BY DEF Key
  <2>2. TabSound'
    BY <1>4, <2>1, CacheSafe, SnapshotSafe, InvalidateSafe DEF OnClaim
  <2>3. NetSound(net')
    BY <1>1, <1>4 DEF OnClaim
  <2> QED
    BY <1>4, <2>2, <2>3, AnswerSafe DEF OnClaim
<1>5. CASE UseCreateOrder(r)
  <2>1. page' \in Page \ {"checkout"}
    BY <1>5 DEF UseCreateOrder, Page
  <2>2. TabSound'
    BY <1>5, <2>1, CacheSafe, SnapshotSafe, KeyNowType DEF UseCreateOrder
  <2>3. NetSound(net')
    BY <1>5, ReplacedSound, NowType DEF UseCreateOrder, IInv
  <2> QED
    BY <1>5, <2>2, <2>3, AnswerSafe DEF UseCreateOrder
<1>6. CASE OnQueryError(r)
  <2> DEFINE c == [cache[r.key] EXCEPT !.age = IF cache[r.key] = Nothing THEN @ ELSE "error"]
  <2>1. r.key \in Key
    BY RequestTypes
  <2>2. c \in Cached /\ (c.units > 0 => c.owner \in Owner)
    BY <2>1 DEF IInv, TabSound, Cached
  <2>3. cache' = [cache EXCEPT ![r.key] = c]
    BY <1>6 DEF OnQueryError
  <2> HIDE DEF c
  <2>4. TabSound'
    BY <1>6, <2>1, <2>2, <2>3, CacheSafe DEF OnQueryError
  <2> QED
    BY <1>1, <1>6, <2>4, AnswerSafe DEF OnQueryError
<1> QED
  BY <1>2, <1>3, <1>4, <1>5, <1>6

LEMMA MessageSafe ==
  ASSUME IInv, NEW r \in net, OnMessage(r)
  PROVE  IInv'
<1>1. NetSound(net')
  BY FewerSound DEF OnMessage, IInv
<1>2. TabSound'
  BY DEF OnMessage, IInv, TabSound, tab
<1> QED
  BY <1>1, <1>2, AnswerSafe DEF OnMessage

LEMMA AnswersSafe ==
  ASSUME IInv, NEW r \in net, Answer(r)
  PROVE  IInv'
BY RefreshAnswerSafe, LoginAnswerSafe, LogoutAnswerSafe, CartAnswersSafe, MessageSafe DEF Answer

-------------------------------------------------------------------------------
(* The theorems.                                                           *)

LEMMA InitSafe == Init => IInv
<1> SUFFICES ASSUME Init PROVE IInv
  OBVIOUS
<1>1. jar \in Token
  BY TokenTypes DEF Init, Token
<1>2. ServerSound
  BY <1>1, TokenTypes, Bounds DEF Init, ServerSound
<1>3. cache = [k \in Key |-> Nothing] /\ Nothing.units = 0
  BY DEF Init, Nothing
<1>4. Nothing \in [owner: Owner \cup {"nobody"}, units: 0..MaxUnits,
                   age: {"fresh", "stale", "invalid", "error"}]
  BY Bounds DEF Nothing
<1>5. /\ cache \in [Key -> [owner: Owner \cup {"nobody"}, units: 0..MaxUnits,
                           age: {"fresh", "stale", "invalid", "error"}]]
      /\ \A k \in Key : ~(cache[k].units > 0)
  BY <1>3, <1>4
<1>6. /\ store \in [status: {"loading", "authenticated", "unauthenticated"}, token: Token]
      /\ visit \in 0..MaxVisits
  BY TokenTypes, Bounds DEF Init
<1>7. session = "unknown" /\ page = "product" /\ loggedOut = FALSE
  BY DEF Init
<1>8. TabSound
  BY <1>1, <1>5, <1>6, <1>7 DEF TabSound, Page
<1> QED
  BY <1>2, <1>8, Bounds DEF Init, IInv, NetSound, CountsSound

LEMMA NextSafe == IInv /\ [Next]_vars => IInv'
<1> SUFFICES ASSUME IInv, [Next]_vars PROVE IInv'
  OBVIOUS
<1>1. CASE UNCHANGED vars
  BY <1>1 DEF vars, server, tab, IInv, ServerSound, TabSound, NetSound, CountsSound
<1>2. CASE Next
  BY <1>2, QueriesSafe, ChangesSafe, AccountFormsSafe, MovesSafe, ServeSafe, AnswersSafe,
     OutsideSafe DEF Next
<1> QED
  BY <1>1, <1>2

LEMMA Invariance == Spec => []IInv
BY InitSafe, NextSafe, PTL DEF Spec

\* Server, browser and requests keep their types: in particular no cart ever holds more
\* of the product than its stock (CartItemCreateView, CartClaimView), and every change
\* that leaves the tab names a real owner's cart.
THEOREM TabTypes == Spec => []TypeOK
<1>1. IInv => TypeOK
  BY DEF IInv, ServerSound, TabSound, NetSound, CountsSound, TypeOK
<1> QED
  BY <1>1, Invariance, PTL

\* Whatever is resubmitted, lost, answered late or sent after another tab filled the cart
\* again, one opening of the checkout page places at most one order: its key was drawn
\* when the page was mounted, and OrderCreateView takes a key once.
THEOREM OneOrder == Spec => []OneOrderPerVisit
<1>1. IInv => OneOrderPerVisit
  BY DEF IInv, ServerSound, OneOrderPerVisit
<1> QED
  BY <1>1, Invariance, PTL

\* Until the page is reloaded, only a login, or a refresh sent before the log out, signs a
\* logged out tab in again.
THEOREM Revival == Spec => RevivedOnlyByLogin
<1> DEFINE Revived == loggedOut /\ loggedOut' /\ store'.token # NoToken /\ store.token = NoToken
           Early == \E r \in net : r.kind = "refresh" /\ ~r.late
<1>1. ASSUME IInv, Next, Revived PROVE Early
  <2>1. store' # store /\ loggedOut'
    BY <1>1
  <2>2. ASSUME NEW r \in net, Answer(r) PROVE Early
    <3>1. CASE OnRefresh(r)
      BY <2>2, <3>1, <1>1, RequestTypes DEF OnRefresh, RequestSound
    <3>2. CASE UseTenantLogin(r)
      BY <2>1, <3>2 DEF UseTenantLogin
    <3>3. CASE UseLogout(r)
      BY <1>1, <3>3 DEF UseLogout
    <3>4. CASE \/ OnCart(r) \/ OnRemove(r) \/ OnClaim(r) \/ UseCreateOrder(r) \/ OnQueryError(r)
               \/ OnMessage(r)
      BY <2>1, <3>4 DEF OnCart, OnRemove, OnClaim, UseCreateOrder, OnQueryError, OnMessage, tab
    <3> QED
      BY <2>2, <3>1, <3>2, <3>3, <3>4 DEF Answer
  <2>3. CASE \/ CustomerAuthSession \/ UseCart \/ MinutePasses
             \/ AddToCart \/ InYourCart \/ CartContent \/ CheckoutForm \/ PasswordForm
    BY <2>1, <2>3 DEF CustomerAuthSession, UseCart, MinutePasses, AddToCart, InYourCart,
                      CartContent, CheckoutForm, PasswordForm, ChangeCartQuantity, Change, tab
  <2>4. CASE \/ (\E a \in Account : LoginForm(a)) \/ Logout \/ Header \/ LeaveLogin \/ CustomerOnly
    BY <2>1, <2>4 DEF LoginForm, Logout, Header, LeaveLogin, CustomerOnly, tab
  <2>5. CASE \/ \E r \in net : Serve(r) \/ Lose(r)
             \/ \E o \in {StartAs} : Elsewhere(o)
             \/ AccessExpires
    BY <2>1, <2>5 DEF Serve, Lose, Elsewhere, AccessExpires, tab
  <2> QED
    BY <1>1, <2>2, <2>3, <2>4, <2>5 DEF Next
<1>2. IInv /\ [Next]_vars => [Revived => Early]_vars
  BY <1>1
<1> QED
  BY <1>2, Invariance, PTL DEF Spec, RevivedOnlyByLogin
================================================================================
