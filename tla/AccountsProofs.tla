---------------------------- MODULE AccountsProofs ----------------------------
(* Proofs about one account: for any number of tabs, addresses and links,     *)
(* though edits and blocks write back whole rows that they read earlier.      *)
EXTENDS Accounts, TLAPS

Link ==
  [kind : {"verify", "reset"}, to : Address, password : 0..MaxPasswords, arrived : BOOLEAN,
   expired : BOOLEAN, uses : Nat]
Request ==
  [step : {"idle", "open", "link", "profile", "block"}, link : 0..MaxLinks, row : User,
   email : Address \cup {NoAddress}]

Types ==
  /\ user \in User /\ lock \in Client \cup {NoOne}
  /\ request \in [Client -> Request]
  /\ link \in Seq(Link) /\ Len(link) <= MaxLinks
  /\ cooling \in SUBSET {"verify", "reset"}
  /\ passwords \in 0..MaxPasswords /\ proven \in SUBSET Address /\ reverted \in BOOLEAN

\* A row as the database has held it: it has an address, and a password that was chosen.
WasStored(row) == row.exists /\ row.email \in Address /\ row.password <= passwords

\* It counts as verified only at an address that was proven.
ProvenRow(row) == row.verified => row.email \in proven

HoldsRow(c) == request[c].step \in {"profile", "block"}

Rows ==
  /\ user = NoUser \/ WasStored(user)
  /\ ProvenRow(user)
  /\ \A c \in Client :
       HoldsRow(c) => user.exists /\ WasStored(request[c].row) /\ ProvenRow(request[c].row)
  /\ \A c \in Client : request[c].step = "profile" => request[c].email \in Address

\* A link in use holds the lock on the row its token was made of.
Locked ==
  /\ \A c \in Client : request[c].step = "link" <=> lock = c
  /\ \A c \in Client : lock = c =>
       /\ request[c].link \in 1..Len(link)
       /\ link[request[c].link].to = user.email
       /\ link[request[c].link].password = user.password
       /\ link[request[c].link].kind = "reset" => passwords < MaxPasswords

\* A link that was used is of an older password, while no older password came back.
Links ==
  /\ Len(link) > 0 => user.exists
  /\ ~reverted =>
       \A i \in 1..Len(link) :
         link[i].uses <= 1 /\ (link[i].uses > 0 => link[i].password < user.password)

\* A link that is looked up is one that was sent.
Opened == \A c \in Client : request[c].step = "open" => request[c].link \in 1..Len(link)

\* All but what is opened, which every step leaves alone or starts anew.
Inv == Types /\ Rows /\ Locked /\ Links

-------------------------------------------------------------------------------

LEMMA Bounds ==
  /\ MaxLinks \in Nat /\ MaxPasswords \in Nat /\ MaxPasswords >= 1
  /\ NoOne \notin Client /\ NoAddress \notin Address
  BY AccountBounds

LEMMA IdleTypes == NoUser \in User /\ Idle \in Request
  <1>1. NoUser \in User
    BY Bounds DEF User, NoUser
  <1> QED BY <1>1, Bounds DEF Request, Idle, None

LEMMA InitInv == Init => Inv
  <1> SUFFICES ASSUME Init PROVE Inv
    OBVIOUS
  <1>1. Types
    <2>1. link \in Seq(Link) /\ Len(link) <= MaxLinks
      BY Bounds DEF Init
    <2>2. user \in User /\ request \in [Client -> Request]
      BY IdleTypes DEF Init
    <2>3. passwords \in 0..MaxPasswords
      BY Bounds DEF Init
    <2>4. reverted \in BOOLEAN
      BY Zenon DEF Init
    <2> QED BY <2>1, <2>2, <2>3, <2>4 DEF Init, Types
  <1>2. Rows
    BY DEF Init, Rows, ProvenRow, HoldsRow, NoUser, Idle
  <1>3. Locked
    BY Bounds DEF Init, Locked, Idle
  <1>4. Links
    BY DEF Init, Links
  <1> QED BY <1>1, <1>2, <1>3, <1>4 DEF Inv

\* Links are added and marked, not replaced.
LinksGrow ==
  /\ link' \in Seq(Link) /\ Len(link') <= MaxLinks /\ Len(link) <= Len(link')
  /\ \A i \in 1..Len(link) :
       /\ link'[i].kind = link[i].kind /\ link'[i].to = link[i].to
       /\ link'[i].password = link[i].password /\ link'[i].uses = link[i].uses
  /\ \A i \in 1..Len(link') : i > Len(link) => link'[i].uses = 0

LEMMA SameLinks == Inv /\ UNCHANGED link => LinksGrow
  BY DEF Inv, Types, LinksGrow

LEMMA Sent ==
  ASSUME Types, NEW kind \in {"verify", "reset"}, NEW u \in User, u.email \in Address,
         SendAccountLink(kind, u)
  PROVE  LinksGrow /\ cooling' \in SUBSET {"verify", "reset"}
  <1> DEFINE new == [kind |-> kind, to |-> u.email, password |-> u.password,
                     arrived |-> FALSE, expired |-> FALSE, uses |-> 0]
  <1>1. new \in Link /\ new.uses = 0
    BY DEF Link, User
  <1> HIDE DEF new
  <1>2. CASE Len(link) < MaxLinks /\ link' = Append(link, new) /\ cooling' = cooling \cup {kind}
    <2>1. link' \in Seq(Link) /\ Len(link') = Len(link) + 1 /\ Len(link) \in Nat
      BY <1>1, <1>2 DEF Types
    <2>2. /\ \A i \in 1..Len(link) : link'[i] = link[i]
          /\ link'[Len(link) + 1] = new
      BY <1>1, <1>2 DEF Types
    <2>3. Len(link') <= MaxLinks
      BY <1>2, <2>1, Bounds
    <2>4. \A i \in 1..Len(link') : i > Len(link) => i = Len(link) + 1
      BY <2>1
    <2>5. LinksGrow
      BY <1>1, <2>1, <2>2, <2>3, <2>4 DEF LinksGrow
    <2> QED BY <1>2, <2>5 DEF Types
  <1>3. CASE UNCHANGED mail
    BY <1>3 DEF mail, Types, LinksGrow
  <1> QED BY <1>2, <1>3 DEF SendAccountLink, new

\* No older password comes back without its being noted.
LEMMA LinksInv ==
  ASSUME Inv, LinksGrow, user' \in User, Len(link') > 0 => user'.exists,
         ~reverted' => ~reverted /\ user'.password >= user.password
  PROVE  Links'
  <1> SUFFICES ASSUME ~reverted', NEW i \in 1..Len(link')
               PROVE  link'[i].uses <= 1
                      /\ (link'[i].uses > 0 => link'[i].password < user'.password)
    BY DEF Links
  <1>1. Len(link) \in Nat /\ Len(link') \in Nat
    BY DEF Inv, Types, LinksGrow
  <1>2. CASE i \in 1..Len(link)
    <2>1. link'[i].uses = link[i].uses /\ link'[i].password = link[i].password
      BY <1>2 DEF LinksGrow
    <2>2. link[i].uses <= 1 /\ (link[i].uses > 0 => link[i].password < user.password)
      BY <1>2 DEF Inv, Links
    <2>3. link[i] \in Link /\ user \in User
      BY <1>2 DEF Inv, Types
    <2>4. link[i].password \in Nat /\ user.password \in Nat /\ user'.password \in Nat
      BY <2>3, Bounds DEF Link, User
    <2> QED BY <2>1, <2>2, <2>4
  <1>3. CASE i > Len(link)
    BY <1>3 DEF LinksGrow
  <1> QED BY <1>1, <1>2, <1>3

\* A step that changes the row while nobody holds it, and starts no use of a link.
LEMMA UnlockedInv ==
  ASSUME Inv, RowFree, UNCHANGED lock,
         \A c \in Client : request'[c] # request[c] => request'[c].step # "link"
  PROVE  Locked'
  <1>1. \A c \in Client : lock # c
    BY Bounds DEF RowFree
  <1> QED BY <1>1 DEF Inv, Locked

\* A step that leaves the row, and the requests that use a link.
LEMMA SameRowInv ==
  ASSUME Inv, UNCHANGED <<user, lock, passwords>>, LinksGrow,
         \A c \in Client : request'[c] # request[c] =>
           request[c].step # "link" /\ request'[c].step # "link"
  PROVE  Locked'
  <1>1. \A c \in Client : lock = c => request'[c] = request[c]
    BY DEF Inv, Locked
  <1>2. Len(link) \in Nat /\ Len(link') \in Nat
    BY DEF Inv, Types, LinksGrow
  <1> QED BY <1>1, <1>2 DEF Inv, Locked, LinksGrow

-------------------------------------------------------------------------------
(* The links.                                                              *)

LEMMA MailInv ==
  ASSUME Inv, UNCHANGED account, LinksGrow, cooling' \in SUBSET {"verify", "reset"},
         Len(link') > 0 => user.exists
  PROVE  Inv'
  <1>1. Types' /\ Rows'
    BY DEF Inv, Types, Rows, WasStored, ProvenRow, HoldsRow, LinksGrow, account
  <1>2. Locked'
    BY SameRowInv DEF account
  <1>3. Links'
    <2>1. user' \in User /\ (~reverted' => ~reverted /\ user'.password >= user.password)
      BY Bounds DEF account, Inv, Types, User
    <2> QED BY <2>1, LinksInv DEF account
  <1> QED BY <1>1, <1>2, <1>3 DEF Inv

LEMMA MarkInv ==
  ASSUME Inv, NEW i \in 1..Len(link), LinkArrives(i) \/ LinkExpires(i)
  PROVE  Inv'
  <1>1. UNCHANGED <<account, cooling>>
    BY DEF LinkArrives, LinkExpires
  <1>2. PICK marked \in Link :
          /\ link' = [link EXCEPT ![i] = marked]
          /\ marked.kind = link[i].kind /\ marked.to = link[i].to
          /\ marked.password = link[i].password /\ marked.uses = link[i].uses
    <2>1. link[i] \in Link
      BY DEF Inv, Types
    <2>2. CASE LinkArrives(i)
      <3> DEFINE marked == [link[i] EXCEPT !.arrived = TRUE]
      <3>1. /\ marked \in Link /\ marked.kind = link[i].kind /\ marked.to = link[i].to
            /\ marked.password = link[i].password /\ marked.uses = link[i].uses
        BY <2>1 DEF Link
      <3>2. link' = [link EXCEPT ![i] = marked]
        BY <2>2 DEF LinkArrives
      <3> QED BY <3>1, <3>2
    <2>3. CASE LinkExpires(i)
      <3> DEFINE marked == [link[i] EXCEPT !.expired = TRUE]
      <3>1. /\ marked \in Link /\ marked.kind = link[i].kind /\ marked.to = link[i].to
            /\ marked.password = link[i].password /\ marked.uses = link[i].uses
        BY <2>1 DEF Link
      <3>2. link' = [link EXCEPT ![i] = marked]
        BY <2>3 DEF LinkExpires
      <3> QED BY <3>1, <3>2
    <2> QED BY <2>2, <2>3
  <1>3. /\ link' \in Seq(Link) /\ Len(link') = Len(link) /\ link'[i] = marked
        /\ \A k \in 1..Len(link) : k # i => link'[k] = link[k]
    BY <1>2 DEF Inv, Types
  <1>4. LinksGrow
    BY <1>2, <1>3 DEF Inv, Types, LinksGrow
  <1> QED BY <1>1, <1>3, <1>4, MailInv DEF Inv, Types, Links

LEMMA ForgotInv == Inv /\ ForgotPassword => Inv'
  <1> SUFFICES ASSUME Inv, ForgotPassword PROVE Inv'
    OBVIOUS
  <1>1. user.exists /\ SendAccountLink("reset", user) /\ UNCHANGED account
    BY DEF ForgotPassword
  <1>2. user \in User /\ user.email \in Address
    BY <1>1 DEF Inv, Types, Rows, WasStored, NoUser
  <1>3. LinksGrow /\ cooling' \in SUBSET {"verify", "reset"}
    BY <1>1, <1>2, Sent DEF Inv
  <1> QED BY <1>1, <1>3, MailInv

LEMMA SignupInv ==
  ASSUME Inv, NEW email \in Address, CustomerSignup(email)
  PROVE  Inv'
  <1>1. /\ ~user.exists
        /\ user' = [exists |-> TRUE, email |-> email, password |-> 1, verified |-> FALSE,
                    active |-> TRUE]
        /\ passwords' = 1 /\ SendAccountLink("verify", user')
        /\ UNCHANGED <<lock, request, proven, reverted>>
    BY DEF CustomerSignup
  <1>2. user' \in User
    BY <1>1, Bounds DEF User
  <1>3. /\ user'.email \in Address /\ user'.exists /\ user'.password = 1
        /\ user'.verified = FALSE
    BY <1>1
  <1>4. LinksGrow /\ cooling' \in SUBSET {"verify", "reset"}
    BY <1>1, <1>2, <1>3, Sent DEF Inv
  <1>5. user = NoUser
    BY <1>1 DEF Inv, Rows, WasStored
  <1>6. Len(link) = 0
    BY <1>5 DEF Inv, Types, Links, NoUser
  <1>7. passwords' \in 0..MaxPasswords /\ user.password = 0
    BY <1>1, <1>5, Bounds DEF NoUser
  <1>8. Types'
    BY <1>1, <1>2, <1>4, <1>7 DEF Inv, Types, LinksGrow
  <1>9. \A c \in Client : ~HoldsRow(c) /\ lock # c
    BY <1>1, <1>6 DEF Inv, Rows, Locked
  <1>10. Rows'
    BY <1>1, <1>3, <1>9 DEF Rows, WasStored, ProvenRow, HoldsRow
  <1>11. Locked'
    BY <1>1, <1>9 DEF Inv, Locked
  <1>12. Links'
    BY <1>1, <1>2, <1>3, <1>4, <1>7, LinksInv
  <1> QED BY <1>8, <1>10, <1>11, <1>12 DEF Inv

LEMMA FormInv ==
  ASSUME Inv, NEW c \in Client, NEW i \in 1..Len(link), AccountEmailForm(c, i)
  PROVE  Inv'
  <1> DEFINE r == [Idle EXCEPT !.step = "open", !.link = i]
  <1>1. i \in 0..MaxLinks
    BY Bounds DEF Inv, Types
  <1>2. r \in Request /\ r.step = "open"
    BY <1>1, Bounds, IdleTypes DEF Idle, Request
  <1>3. /\ request[c] = Idle /\ request' = [request EXCEPT ![c] = r]
        /\ UNCHANGED <<user, lock, passwords, proven, reverted, mail>>
    BY DEF AccountEmailForm, Start
  <1> HIDE DEF r
  <1>4. /\ request' \in [Client -> Request]
        /\ \A d \in Client : request'[d] = IF d = c THEN r ELSE request[d]
    BY <1>2, <1>3 DEF Inv, Types
  <1>5. Types' /\ Rows' /\ Links'
    BY <1>2, <1>3, <1>4 DEF Inv, Types, Rows, Links, WasStored, ProvenRow, HoldsRow, mail
  <1>6. Locked'
    <2>1. LinksGrow
      BY <1>3, SameLinks DEF mail
    <2>2. \A d \in Client : request'[d] # request[d] =>
            request[d].step # "link" /\ request'[d].step # "link"
      BY <1>2, <1>3, <1>4 DEF Idle
    <2> QED BY <1>3, <2>1, <2>2, SameRowInv
  <1> QED BY <1>5, <1>6 DEF Inv

LEMMA OpenInv ==
  ASSUME Inv, Opened, NEW c \in Client, OpenLink(c)
  PROVE  Inv'
  <1> DEFINE i == request[c].link
  <1>1. /\ request[c].step = "open" /\ i \in 1..Len(link) /\ lock = NoOne
        /\ UNCHANGED <<user, passwords, proven, reverted, mail>>
    BY DEF OpenLink, LinkUser, RowFree, Opened
  <1> HIDE DEF i
  <1>2. Links'
    BY <1>1 DEF Inv, Links, mail
  <1>3. CASE /\ CheckToken(i) /\ LinkUser(c)
             /\ link[i].kind = "reset" => passwords < MaxPasswords
             /\ request' = [request EXCEPT ![c].step = "link"]
    <2>1. /\ link[i].to = user.email /\ link[i].password = user.password /\ lock' = c
      BY <1>3 DEF CheckToken, LinkUser
    <2>2. request[c] \in Request
      BY DEF Inv, Types
    <2>3. /\ request' \in [Client -> Request]
          /\ request'[c].step = "link" /\ request'[c].link = i
          /\ \A d \in Client : d # c => request'[d] = request[d]
      BY <1>3, <2>2 DEF Inv, Types, Request, i
    <2>4. Types'
      BY <1>1, <2>1, <2>3 DEF Inv, Types, mail
    <2>5. Rows'
      BY <1>1, <2>3 DEF Inv, Rows, WasStored, ProvenRow, HoldsRow
    <2>6. Locked'
      BY <1>1, <1>3, <2>1, <2>3, Bounds DEF Inv, Locked, mail
    <2> QED BY <1>2, <2>4, <2>5, <2>6 DEF Inv
  <1>4. CASE Done(c) /\ UNCHANGED lock
    <2>1. /\ request' \in [Client -> Request]
          /\ \A d \in Client : request'[d] = IF d = c THEN Idle ELSE request[d]
      BY <1>4, IdleTypes DEF Done, Inv, Types
    <2>2. Types' /\ Rows'
      BY <1>1, <1>4, <2>1 DEF Inv, Types, Rows, WasStored, ProvenRow, HoldsRow, Idle, mail
    <2>3. Locked'
      BY <1>1, <1>4, <2>1, UnlockedInv DEF RowFree, Idle
    <2> QED BY <1>2, <2>2, <2>3 DEF Inv
  <1> QED BY <1>3, <1>4 DEF OpenLink, i

\* A request ends and gives up its lock.
LEMMA EndInv ==
  ASSUME Inv, NEW c \in Client, Done(c), Unlock(c)
  PROVE  /\ request' \in [Client -> Request]
         /\ \A d \in Client : request'[d] = IF d = c THEN Idle ELSE request[d]
         /\ lock' \in Client \cup {NoOne}
         /\ lock # c => lock' = lock
         /\ lock = c => Locked'
  <1>1. /\ request' \in [Client -> Request]
        /\ \A d \in Client : request'[d] = IF d = c THEN Idle ELSE request[d]
    BY IdleTypes DEF Done, Inv, Types
  <1>2. /\ lock' \in Client \cup {NoOne}
        /\ lock' = IF lock = c THEN NoOne ELSE lock
    BY DEF Unlock, Inv, Types
  <1>3. ASSUME lock = c PROVE Locked'
    BY <1>1, <1>2, <1>3, Bounds DEF Inv, Locked, Idle
  <1> QED BY <1>1, <1>2, <1>3

LEMMA VerifyInv ==
  ASSUME Inv, NEW c \in Client, VerifyEmail(c)
  PROVE  Inv'
  <1> DEFINE i == request[c].link
  <1>1. /\ request[c].step = "link" /\ user' = [user EXCEPT !.verified = TRUE]
        /\ proven' = proven \cup {link[i].to} /\ Unlock(c) /\ Done(c)
        /\ UNCHANGED <<passwords, reverted, mail>>
    BY DEF VerifyEmail
  <1>2. lock = c /\ i \in 1..Len(link) /\ link[i].to = user.email
    BY <1>1 DEF Inv, Locked
  <1>3. user \in User /\ WasStored(user) /\ link[i] \in Link
    BY <1>2 DEF Inv, Types, Rows, Links, NoUser
  <1> HIDE DEF i
  <1>4. /\ user' \in User /\ user'.exists = user.exists /\ user'.email = user.email
        /\ user'.password = user.password
    BY <1>1, <1>3 DEF User
  <1>5. user.email \in proven' /\ proven' \in SUBSET Address
    BY <1>1, <1>2, <1>3 DEF WasStored, Inv, Types
  <1>6. /\ Locked' /\ request' \in [Client -> Request] /\ lock' \in Client \cup {NoOne}
        /\ \A d \in Client : request'[d] = IF d = c THEN Idle ELSE request[d]
    BY <1>1, <1>2, EndInv
  <1>7. Types'
    BY <1>1, <1>4, <1>5, <1>6 DEF Inv, Types, mail
  <1>8. Rows'
    BY <1>1, <1>3, <1>4, <1>5, <1>6 DEF Inv, Rows, WasStored, ProvenRow, HoldsRow, Idle
  <1>9. Links'
    BY <1>1, <1>4 DEF Inv, Links, mail
  <1> QED BY <1>6, <1>7, <1>8, <1>9 DEF Inv

\* A new password is newer than the ones the links were made of.
LEMMA ResetInv ==
  ASSUME Inv, NEW c \in Client, ResetPassword(c)
  PROVE  Inv'
  <1> DEFINE i == request[c].link
  <1>1. /\ request[c].step = "link" /\ link[i].kind = "reset"
        /\ user' = [user EXCEPT !.password = passwords + 1]
        /\ passwords' = passwords + 1 /\ link' = [link EXCEPT ![i].uses = link[i].uses + 1]
        /\ Unlock(c) /\ Done(c)
        /\ UNCHANGED <<proven, reverted, cooling>>
    BY DEF ResetPassword
  <1>2. /\ lock = c /\ i \in 1..Len(link) /\ link[i].password = user.password
        /\ passwords < MaxPasswords
    BY <1>1 DEF Inv, Locked
  <1>3. user \in User /\ WasStored(user) /\ link[i] \in Link
    BY <1>2 DEF Inv, Types, Rows, Links, NoUser
  <1> HIDE DEF i
  <1>4. passwords \in Nat /\ passwords + 1 \in 0..MaxPasswords
    BY <1>2, Bounds DEF Inv, Types
  <1>5. /\ user' \in User /\ user'.exists = user.exists /\ user'.email = user.email
        /\ user'.verified = user.verified
    BY <1>1, <1>3, <1>4 DEF User
  <1>6. user'.password = passwords + 1 /\ user.password <= passwords
    BY <1>1, <1>3 DEF User, WasStored
  <1>7. /\ Locked' /\ request' \in [Client -> Request] /\ lock' \in Client \cup {NoOne}
        /\ \A d \in Client : request'[d] = IF d = c THEN Idle ELSE request[d]
    BY <1>1, <1>2, EndInv
  <1>8. PICK used \in Link :
          /\ link' = [link EXCEPT ![i] = used] /\ used.password = link[i].password
          /\ used.uses = link[i].uses + 1
    <2> DEFINE used == [link[i] EXCEPT !.uses = link[i].uses + 1]
    <2>1. used \in Link /\ used.password = link[i].password /\ used.uses = link[i].uses + 1
      BY <1>3 DEF Link
    <2>2. link' = [link EXCEPT ![i] = used]
      BY <1>1
    <2> QED BY <2>1, <2>2
  <1>9. /\ link' \in Seq(Link) /\ Len(link') = Len(link) /\ link'[i] = used
        /\ \A k \in 1..Len(link) : k # i => link'[k] = link[k]
    BY <1>2, <1>8 DEF Inv, Types
  <1>10. Types'
    BY <1>1, <1>4, <1>5, <1>7, <1>9 DEF Inv, Types
  <1>11. Rows'
    <2>1. \A d \in Client : HoldsRow(d)' => HoldsRow(d) /\ request'[d] = request[d]
      BY <1>7 DEF HoldsRow, Idle
    <2>2. \A row \in User : row.password <= passwords => row.password <= passwords'
      BY <1>1, <1>4, Bounds DEF User
    <2>3. \A d \in Client : request[d].row \in User
      BY DEF Inv, Types, Request
    <2>4. WasStored(user)'
      BY <1>1, <1>3, <1>4, <1>5, <1>6 DEF WasStored
    <2>5. ProvenRow(user)'
      BY <1>1, <1>5 DEF Inv, Rows, ProvenRow
    <2>6. \A d \in Client : request'[d].step = "profile" => request'[d].email \in Address
      BY <1>7 DEF Inv, Rows, Idle
    <2>7. ASSUME NEW d \in Client, HoldsRow(d)'
          PROVE  user'.exists /\ WasStored(request[d].row)' /\ ProvenRow(request[d].row)'
      BY <1>1, <1>5, <2>1, <2>2, <2>3, <2>7 DEF Inv, Rows, WasStored, ProvenRow
    <2> QED BY <2>4, <2>5, <2>6, <2>7 DEF Rows
  <1>12. Links'
    <2> SUFFICES ASSUME ~reverted, NEW k \in 1..Len(link)
                 PROVE  link'[k].uses <= 1 /\ (link'[k].uses > 0 =>
                                                link'[k].password < user'.password)
      BY <1>1, <1>3, <1>5, <1>9 DEF Links, WasStored
    <2>1. link[k] \in Link
      BY DEF Inv, Types
    <2>2. /\ link[k].password \in Nat /\ user.password \in Nat /\ link[k].uses \in Nat
      BY <1>3, <2>1, Bounds DEF Link, User
    <2>3. link[k].uses <= 1 /\ (link[k].uses > 0 => link[k].password < user.password)
      BY DEF Inv, Links
    <2>4. CASE k = i
      BY <1>2, <1>4, <1>6, <1>8, <1>9, <2>2, <2>3, <2>4
    <2>5. CASE k # i
      BY <1>4, <1>6, <1>9, <2>2, <2>3, <2>5
    <2> QED BY <2>4, <2>5
  <1> QED BY <1>7, <1>10, <1>11, <1>12 DEF Inv

-------------------------------------------------------------------------------
(* The signed-in customer and the owner of the store.                      *)

\* A request that reads the row starts.
LEMMA ReadInv ==
  ASSUME Inv, NEW c \in Client, NEW r \in Request, Start(c, r), user.exists,
         r.step \in {"profile", "block"}, r.row = user,
         r.step = "profile" => r.email \in Address,
         UNCHANGED <<user, lock, passwords, proven, reverted, mail>>
  PROVE  Inv'
  <1>1. /\ request' \in [Client -> Request] /\ request[c] = Idle
        /\ \A d \in Client : request'[d] = IF d = c THEN r ELSE request[d]
    BY DEF Start, Inv, Types
  <1>2. Types'
    BY <1>1 DEF Inv, Types, mail
  <1>3. WasStored(user) /\ ProvenRow(user)
    BY DEF Inv, Rows, NoUser
  <1>4. Rows'
    BY <1>1, <1>3 DEF Inv, Rows, WasStored, ProvenRow, HoldsRow
  <1>5. Locked'
    <2>1. LinksGrow
      BY SameLinks DEF mail
    <2>2. \A d \in Client : request'[d] # request[d] =>
            request[d].step # "link" /\ request'[d].step # "link"
      BY <1>1 DEF Idle
    <2> QED BY <2>1, <2>2, SameRowInv
  <1>6. Links'
    BY DEF Inv, Links, mail
  <1> QED BY <1>2, <1>4, <1>5, <1>6 DEF Inv

LEMMA ProfileInv ==
  ASSUME Inv, NEW c \in Client, NEW email \in Address, ProfileForm(c, email)
  PROVE  Inv'
  <1> DEFINE r == [Idle EXCEPT !.step = "profile", !.row = user, !.email = email]
  <1>1. user \in User
    BY DEF Inv, Types
  <1>2. r \in Request /\ r.step = "profile" /\ r.row = user /\ r.email = email
    BY <1>1, IdleTypes DEF Request
  <1>3. user.exists
    BY DEF ProfileForm, SignedIn, Inv, Rows, WasStored, NoUser
  <1> HIDE DEF r
  <1> QED BY <1>2, <1>3, ReadInv DEF ProfileForm, r

LEMMA PageInv ==
  ASSUME Inv, NEW c \in Client, CustomersPage(c)
  PROVE  Inv'
  <1> DEFINE r == [Idle EXCEPT !.step = "block", !.row = user]
  <1>1. user \in User
    BY DEF Inv, Types
  <1>2. r \in Request /\ r.step = "block" /\ r.row = user
    BY <1>1, IdleTypes DEF Request
  <1> HIDE DEF r
  <1> QED BY <1>2, ReadInv DEF CustomersPage, r

\* A whole row is written: it keeps what is proven, and an older password is noted.
LEMMA WriteInv ==
  ASSUME Inv, NEW c \in Client, NEW new \in User, HoldsRow(c), RowFree, Done(c),
         WholeRow(new), WasStored(new), ProvenRow(new), LinksGrow,
         cooling' \in SUBSET {"verify", "reset"}, UNCHANGED <<lock, passwords, proven>>,
         new.password = request[c].row.password
  PROVE  Inv'
  <1>1. /\ user' = new /\ (~reverted' => ~reverted /\ new.password = user.password)
        /\ reverted' \in BOOLEAN
    BY DEF WholeRow, Inv, Types
  <1>2. /\ request' \in [Client -> Request]
        /\ \A d \in Client : request'[d] = IF d = c THEN Idle ELSE request[d]
    BY IdleTypes DEF Done, Inv, Types
  <1>3. Types'
    BY <1>1, <1>2 DEF Inv, Types, LinksGrow
  <1>4. Rows'
    BY <1>1, <1>2 DEF Inv, Rows, WasStored, ProvenRow, HoldsRow, Idle
  <1>5. Locked'
    BY <1>2, UnlockedInv DEF Idle
  <1>6. Links'
    <2>1. user' \in User /\ user'.exists /\ (~reverted' => user'.password >= user.password)
      <3>1. new.password \in Nat
        BY Bounds DEF User
      <3> QED BY <1>1, <3>1 DEF WasStored
    <2> QED BY <1>1, <2>1, LinksInv
  <1> QED BY <1>3, <1>4, <1>5, <1>6 DEF Inv

LEMMA HeldRow ==
  ASSUME Inv, NEW c \in Client, HoldsRow(c)
  PROVE  /\ request[c].row \in User /\ WasStored(request[c].row)
         /\ ProvenRow(request[c].row) /\ user.exists
  BY DEF Inv, Types, Rows, Request

LEMMA UpdateInv ==
  ASSUME Inv, NEW c \in Client, UpdateProfile(c)
  PROVE  Inv'
  <1> DEFINE old == request[c].row
             email == request[c].email
             changed == email # old.email
             verified == old.verified /\ ~changed
             new == [old EXCEPT !.email = email, !.verified = verified]
  <1>1. /\ request[c].step = "profile" /\ RowFree /\ WholeRow(new)
        /\ IF changed THEN SendAccountLink("verify", new) ELSE UNCHANGED mail
        /\ Done(c) /\ UNCHANGED <<lock, passwords, proven>>
    BY DEF UpdateProfile
  <1>2. HoldsRow(c) /\ email \in Address
    BY <1>1 DEF HoldsRow, Inv, Rows
  <1>3. old \in User /\ WasStored(old) /\ ProvenRow(old)
    BY <1>2, HeldRow
  <1>4. verified \in BOOLEAN /\ (verified => email \in proven)
    BY <1>3 DEF ProvenRow
  <1> HIDE DEF old, email, verified
  <1>5. new \in User
    BY <1>2, <1>3, <1>4 DEF User
  <1>6. new.exists = old.exists /\ new.email = email /\ new.password = old.password
    BY <1>3 DEF User
  <1>7. new.verified = verified
    BY <1>3, <1>4 DEF User
  <1> HIDE DEF new
  <1>8. WasStored(new) /\ ProvenRow(new)
    BY <1>2, <1>3, <1>4, <1>6, <1>7 DEF WasStored, ProvenRow
  <1>9. LinksGrow /\ cooling' \in SUBSET {"verify", "reset"}
    <2>1. CASE SendAccountLink("verify", new)
      BY <1>2, <1>5, <1>6, <2>1, Sent DEF Inv
    <2>2. CASE UNCHANGED mail
      BY <2>2, SameLinks DEF mail, Inv, Types
    <2> QED BY <1>1, <2>1, <2>2
  <1> QED BY <1>1, <1>2, <1>5, <1>6, <1>8, <1>9, WriteInv DEF old

LEMMA BlockInv ==
  ASSUME Inv, NEW c \in Client, SetCustomerActive(c)
  PROVE  Inv'
  <1> DEFINE old == request[c].row
             active == ~old.active
             new == [old EXCEPT !.active = active]
  <1>1. /\ request[c].step = "block" /\ RowFree /\ WholeRow(new)
        /\ Done(c) /\ UNCHANGED <<lock, passwords, proven, mail>>
    BY DEF SetCustomerActive
  <1>2. HoldsRow(c)
    BY <1>1 DEF HoldsRow
  <1>3. old \in User /\ WasStored(old) /\ ProvenRow(old) /\ active \in BOOLEAN
    BY <1>2, HeldRow
  <1> HIDE DEF old, active
  <1>4. new \in User
    BY <1>3 DEF User
  <1>5. new.exists = old.exists /\ new.email = old.email /\ new.password = old.password
        /\ new.verified = old.verified
    BY <1>3 DEF User
  <1> HIDE DEF new
  <1>6. WasStored(new) /\ ProvenRow(new)
    BY <1>3, <1>5 DEF WasStored, ProvenRow
  <1>7. LinksGrow /\ cooling' \in SUBSET {"verify", "reset"}
    BY <1>1, SameLinks DEF mail, Inv, Types
  <1> QED BY <1>1, <1>2, <1>4, <1>5, <1>6, <1>7, WriteInv DEF old

LEMMA PasswordInv == Inv /\ PasswordForm => Inv'
  <1> SUFFICES ASSUME Inv, PasswordForm PROVE Inv'
    OBVIOUS
  <1>1. /\ user.active /\ RowFree /\ passwords < MaxPasswords
        /\ user' = [user EXCEPT !.password = passwords + 1] /\ passwords' = passwords + 1
        /\ UNCHANGED <<lock, request, proven, reverted, mail>>
    BY DEF PasswordForm, SignedIn
  <1>2. user \in User /\ WasStored(user)
    BY <1>1 DEF Inv, Types, Rows, NoUser
  <1>3. passwords \in Nat /\ passwords + 1 \in 0..MaxPasswords
    BY <1>1, Bounds DEF Inv, Types
  <1>4. /\ user' \in User /\ user'.exists = user.exists /\ user'.email = user.email
        /\ user'.verified = user.verified /\ user'.password = passwords + 1
    BY <1>1, <1>2, <1>3 DEF User
  <1>5. Types'
    BY <1>1, <1>3, <1>4 DEF Inv, Types, mail
  <1>6. Rows'
    <2>1. \A d \in Client : request[d].row \in User
      BY DEF Inv, Types, Request
    <2>2. \A row \in User : row.password <= passwords => row.password <= passwords'
      BY <1>1, <1>3, Bounds DEF User
    <2>3. WasStored(user)'
      BY <1>1, <1>2, <1>3, <1>4 DEF WasStored
    <2>4. ProvenRow(user)'
      BY <1>1, <1>4 DEF Inv, Rows, ProvenRow
    <2>5. ASSUME NEW d \in Client, HoldsRow(d)'
          PROVE  user'.exists /\ WasStored(request[d].row)' /\ ProvenRow(request[d].row)'
      BY <1>1, <1>4, <2>1, <2>2, <2>5 DEF Inv, Rows, HoldsRow, WasStored, ProvenRow
    <2> QED BY <1>1, <2>3, <2>4, <2>5 DEF Inv, Rows
  <1>7. Locked'
    BY <1>1, UnlockedInv
  <1>8. Links'
    <2>1. LinksGrow
      BY <1>1, SameLinks DEF mail
    <2>2. user'.exists /\ user'.password >= user.password
      BY <1>2, <1>3, <1>4, Bounds DEF WasStored, User
    <2> QED BY <1>1, <1>4, <2>1, <2>2, LinksInv
  <1> QED BY <1>5, <1>6, <1>7, <1>8 DEF Inv

LEMMA DiesInv ==
  ASSUME Inv, NEW c \in Client, RequestDies(c)
  PROVE  Inv'
  <1>1. Done(c) /\ Unlock(c) /\ UNCHANGED <<user, passwords, proven, reverted, mail>>
    BY DEF RequestDies
  <1>2. /\ request' \in [Client -> Request] /\ lock' \in Client \cup {NoOne}
        /\ \A d \in Client : request'[d] = IF d = c THEN Idle ELSE request[d]
        /\ lock # c => lock' = lock
        /\ lock = c => Locked'
    BY <1>1, EndInv
  <1>3. Types' /\ Rows' /\ Links'
    BY <1>1, <1>2 DEF Inv, Types, Rows, Links, WasStored, ProvenRow, HoldsRow, Idle, mail
  <1>4. ASSUME lock # c PROVE Locked'
    <2>1. request[c].step # "link" /\ lock' = lock
      BY <1>2, <1>4 DEF Inv, Locked
    <2>2. LinksGrow
      BY <1>1, SameLinks DEF mail
    <2>3. \A d \in Client : request'[d] # request[d] =>
            request[d].step # "link" /\ request'[d].step # "link"
      BY <1>2, <2>1 DEF Idle
    <2> QED BY <1>1, <2>1, <2>2, <2>3, SameRowInv
  <1> QED BY <1>2, <1>3, <1>4 DEF Inv

-------------------------------------------------------------------------------

LEMMA NextInv == Inv /\ Opened /\ [Next]_vars => Inv'
  <1> SUFFICES ASSUME Inv, Opened, [Next]_vars PROVE Inv'
    OBVIOUS
  <1>1. CASE CooldownEnds
    <2>1. UNCHANGED <<account, link>> /\ cooling' \in SUBSET {"verify", "reset"}
      BY <1>1 DEF CooldownEnds
    <2>2. LinksGrow
      BY <2>1, SameLinks
    <2> QED BY <2>1, <2>2, MailInv DEF Inv, Links
  <1>2. CASE UNCHANGED vars
    BY <1>2 DEF vars, account, mail, Inv, Types, Rows, Locked, Links, WasStored, ProvenRow,
                HoldsRow
  <1>3. CASE Next
    BY <1>1, <1>3, FormInv, OpenInv, VerifyInv, ResetInv, ProfileInv, UpdateInv, PageInv,
       BlockInv, DiesInv, SignupInv, ForgotInv, PasswordInv, MarkInv DEF Next
  <1> QED BY <1>2, <1>3

\* The requests that open a link name one that was sent, and links are not taken back.
LEMMA OpenedInv == Inv /\ Opened /\ [Next]_vars => Opened'
  <1> SUFFICES ASSUME Inv, Opened, [Next]_vars PROVE Opened'
    OBVIOUS
  <1>1. Len(link) \in Nat /\ request \in [Client -> Request]
    BY DEF Inv, Types
  <1>2. Len(link') \in Nat /\ Len(link) <= Len(link')
    <2>1. CASE Len(link) < MaxLinks /\ \E new : link' = Append(link, new)
      BY <2>1 DEF Inv, Types
    <2>2. CASE \E i \in 1..Len(link) : \E marked : link' = [link EXCEPT ![i] = marked]
      BY <2>2 DEF Inv, Types
    <2>3. CASE UNCHANGED link
      BY <1>1, <2>3
    <2>4. \A kind, u : SendAccountLink(kind, u) =>
            UNCHANGED link \/ (Len(link) < MaxLinks /\ \E new : link' = Append(link, new))
      BY DEF SendAccountLink, mail
    <2>5. CASE \/ \E c \in Client : UpdateProfile(c)
               \/ \E email \in Address : CustomerSignup(email)
               \/ ForgotPassword
      BY <2>1, <2>3, <2>4, <2>5 DEF UpdateProfile, CustomerSignup, ForgotPassword, mail
    <2>6. CASE \/ \E c \in Client : ResetPassword(c)
               \/ \E i \in 1..Len(link) : LinkArrives(i) \/ LinkExpires(i)
      <3>1. CASE \E c \in Client : ResetPassword(c)
        <4>1. PICK c \in Client : ResetPassword(c)
          BY <3>1
        <4>2. lock = c /\ request[c].link \in 1..Len(link)
          BY <4>1 DEF ResetPassword, Inv, Locked
        <4> QED BY <2>2, <4>1, <4>2 DEF ResetPassword
      <3>2. CASE \E i \in 1..Len(link) : LinkArrives(i) \/ LinkExpires(i)
        BY <2>2, <3>2 DEF LinkArrives, LinkExpires
      <3> QED BY <2>6, <3>1, <3>2
    <2>7. CASE \/ \E c \in Client :
                    \/ (\E i \in 1..Len(link) : AccountEmailForm(c, i)) \/ OpenLink(c)
                    \/ VerifyEmail(c) \/ (\E email \in Address : ProfileForm(c, email))
                    \/ CustomersPage(c) \/ SetCustomerActive(c) \/ RequestDies(c)
               \/ PasswordForm \/ CooldownEnds \/ UNCHANGED vars
      BY <2>3, <2>7 DEF AccountEmailForm, OpenLink, VerifyEmail, ProfileForm, CustomersPage,
                        SetCustomerActive, RequestDies, PasswordForm, CooldownEnds, vars, mail
    <2> QED BY <2>5, <2>6, <2>7 DEF Next
  <1>3. ASSUME NEW c \in Client, request'[c] # request[c], request'[c].step = "open"
        PROVE  request'[c].link \in 1..Len(link)
    <2>1. \A d \in Client : Done(d) => request'[d] = Idle /\ (d # c => request'[c] = request[c])
      BY <1>1 DEF Done
    <2>2. \A d \in Client : \A r : Start(d, r) =>
            request'[d] = r /\ (d # c => request'[c] = request[c])
      BY <1>1 DEF Start
    <2>3. /\ Idle.step = "idle"
          /\ \A email : [Idle EXCEPT !.step = "profile", !.row = user, !.email = email].step
                         = "profile"
          /\ [Idle EXCEPT !.step = "block", !.row = user].step = "block"
          /\ \A i : [Idle EXCEPT !.step = "open", !.link = i].link = i
      BY DEF Idle
    <2>4. ASSUME NEW d \in Client, OpenLink(d) PROVE FALSE
      <3>1. request' = [request EXCEPT ![d].step = "link"] \/ Done(d)
        BY <2>4 DEF OpenLink
      <3>2. [request[d] EXCEPT !.step = "link"].step = "link"
        BY <1>1 DEF Request
      <3> QED BY <1>1, <1>3, <2>1, <2>3, <3>1, <3>2
    <2>5. ASSUME NEW d \in Client, NEW i \in 1..Len(link), AccountEmailForm(d, i)
          PROVE  request'[c].link \in 1..Len(link)
      <3>1. PICK r : Start(d, r) /\ r.link = i
        BY <2>3, <2>5 DEF AccountEmailForm
      <3>2. c = d
        BY <1>3, <2>2, <3>1
      <3> QED BY <2>2, <3>1, <3>2
    <2>6. ASSUME NEW d \in Client,
                 (\E email \in Address : ProfileForm(d, email)) \/ CustomersPage(d)
          PROVE  FALSE
      <3>1. PICK r : Start(d, r) /\ r.step # "open"
        BY <2>3, <2>6 DEF ProfileForm, CustomersPage
      <3> QED BY <1>3, <2>2, <3>1
    <2>7. ASSUME NEW d \in Client,
                 \/ VerifyEmail(d) \/ ResetPassword(d) \/ UpdateProfile(d)
                 \/ SetCustomerActive(d) \/ RequestDies(d)
          PROVE  FALSE
      BY <1>3, <2>1, <2>3, <2>7
      DEF VerifyEmail, ResetPassword, UpdateProfile, SetCustomerActive, RequestDies
    <2>8. CASE UNCHANGED request
      BY <1>3, <2>8
    <2>9. CASE \/ \E email \in Address : CustomerSignup(email)
               \/ ForgotPassword \/ PasswordForm \/ CooldownEnds \/ UNCHANGED vars
               \/ \E i \in 1..Len(link) : LinkArrives(i) \/ LinkExpires(i)
      BY <2>8, <2>9 DEF CustomerSignup, ForgotPassword, PasswordForm, CooldownEnds, vars,
                        LinkArrives, LinkExpires, account
    <2> QED BY <2>4, <2>5, <2>6, <2>7, <2>9 DEF Next
  <1> QED BY <1>1, <1>2, <1>3 DEF Opened

LEMMA AlwaysInv == Spec => [](Inv /\ Opened)
  <1>1. Init => Opened
    BY DEF Init, Opened, Idle
  <1> QED BY <1>1, InitInv, NextInv, OpenedInv, PTL DEF Spec

\* The types hold for any number of tabs, addresses and links.
THEOREM AccountTypes == Spec => []TypeOK
  <1>1. Inv => TypeOK
    <2> SUFFICES ASSUME Inv PROVE TypeOK
      OBVIOUS
    <2>1. lock # NoOne => request[lock].step = "link"
      BY DEF Inv, Types, Locked
    <2>2. Len(link) \in 0..MaxLinks /\ \A i \in 1..Len(link) : link[i] \in Link
      BY Bounds DEF Inv, Types
    <2> QED BY <2>1, <2>2 DEF TypeOK, Inv, Types, Request, Link
  <1> QED BY <1>1, AlwaysInv, PTL

\* An address counts as verified only if a link sent to it was opened, whichever rows are
\* written back (VerifyEmailView, ProfileSerializer).
THEOREM VerifiedOnlyIfProven == Spec => []VerifiedMeansProven
  <1>1. Inv => VerifiedMeansProven
    BY DEF Inv, Rows, ProvenRow, VerifiedMeansProven
  <1> QED BY <1>1, AlwaysInv, PTL

\* A reset link works once, unless a row with an older password was written back
\* (PasswordResetView).
THEOREM ResetOnce == Spec => []ResetUsedOnce
  <1>1. Inv => ResetUsedOnce
    <2> SUFFICES ASSUME Inv, NEW i \in 1..Len(link), link[i].uses > 1, ~reverted PROVE FALSE
      BY DEF ResetUsedOnce
    <2>1. link[i] \in Link /\ link[i].uses <= 1
      BY DEF Inv, Types, Links
    <2> QED BY <2>1 DEF Link
  <1> QED BY <1>1, AlwaysInv, PTL

===============================================================================
