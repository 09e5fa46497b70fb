-------------------------------- MODULE Accounts --------------------------------
(***************************************************************************)
(* One customer account.  Links to verify an address or to choose a        *)
(* password are sent by mail; the customer opens them in tabs that also    *)
(* edit the profile, while the owner of the store blocks the account and   *)
(* requests that read the row write all of it back.  (Outbox shows how a   *)
(* message is delivered; here it arrives or does not.)                     *)
(***************************************************************************)
EXTENDS Integers, Sequences

CONSTANTS
  Client,        \* browser tabs of the customer and of the store's owner
  Address,       \* email addresses
  NoOne,         \* holds no lock
  NoAddress,     \* of an account that does not exist
  MaxLinks,      \* bound on the links sent
  MaxPasswords   \* bound on the passwords chosen

ASSUME AccountBounds ==
  /\ MaxLinks \in Nat /\ MaxPasswords \in Nat \ {0}
  /\ NoOne \notin Client /\ NoAddress \notin Address

None == 0
LinkId == 1..MaxLinks

VARIABLES
  user,       \* the row of the account; a password is the number of its choice
  lock,       \* the client whose request locked the row
  request,    \* what the server does for each client
  link,       \* the links sent, with the columns their tokens are made of
  cooling,    \* the kinds of link sent less than a minute ago
  passwords,  \* the passwords chosen so far
  proven,     \* history: the addresses at which a link was opened
  reverted    \* history: an older password has replaced a newer one

account == <<user, lock, request, passwords, proven, reverted>>
mail == <<link, cooling>>
vars == <<account, mail>>

User == [exists: BOOLEAN, email: Address \cup {NoAddress}, password: 0..MaxPasswords,
         verified: BOOLEAN, active: BOOLEAN]
NoUser == [exists |-> FALSE, email |-> NoAddress, password |-> 0, verified |-> FALSE,
           active |-> FALSE]
Idle == [step |-> "idle", link |-> None, row |-> NoUser, email |-> NoAddress]

Init ==
  /\ user = NoUser /\ lock = NoOne /\ request = [c \in Client |-> Idle]
  /\ link = <<>> /\ cooling = {}
  /\ passwords = 0 /\ proven = {} /\ reverted = FALSE

-------------------------------------------------------------------------------
(* The links.                                                              *)

\* At most one link of a kind in a minute, and none that is not called for.
SendAccountLink(kind, u) ==
  IF u.active /\ (kind = "verify" => ~u.verified) /\ kind \notin cooling
  THEN /\ Len(link) < MaxLinks
       /\ link' = Append(link, [kind |-> kind, to |-> u.email, password |-> u.password,
                                arrived |-> FALSE, expired |-> FALSE, uses |-> 0])
       /\ cooling' = cooling \cup {kind}
  ELSE UNCHANGED mail

LinkArrives(i) ==
  /\ ~link[i].arrived /\ link' = [link EXCEPT ![i].arrived = TRUE]
  /\ UNCHANGED <<account, cooling>>

LinkExpires(i) ==
  /\ ~link[i].expired /\ link' = [link EXCEPT ![i].expired = TRUE]
  /\ UNCHANGED <<account, cooling>>

CooldownEnds ==
  /\ cooling # {} /\ cooling' = {}
  /\ UNCHANGED <<account, link>>

-------------------------------------------------------------------------------
(* The account.                                                            *)

RowFree == lock = NoOne
\* A session starts with a verified address; a blocked account loses it.
SignedIn == proven # {} /\ user.active
Start(c, r) == request[c] = Idle /\ request' = [request EXCEPT ![c] = r]
Done(c) == request' = [request EXCEPT ![c] = Idle]

CustomerSignup(email) ==
  /\ ~user.exists
  /\ user' = [exists |-> TRUE, email |-> email, password |-> 1, verified |-> FALSE,
              active |-> TRUE]
  /\ passwords' = 1
  /\ SendAccountLink("verify", user')
  /\ UNCHANGED <<lock, request, proven, reverted>>

ForgotPassword ==
  /\ user.exists /\ RowFree
  /\ SendAccountLink("reset", user)
  /\ UNCHANGED account

\* The token of a link is made of the row it was sent for.
CheckToken(i) ==
  /\ ~link[i].expired /\ link[i].to = user.email /\ link[i].password = user.password
  /\ link[i].kind = "verify" => ~user.verified

\* A link that arrived is submitted: the row is looked up among those of active users ...
AccountEmailForm(c, i) ==
  /\ link[i].arrived /\ user.active
  /\ Start(c, [Idle EXCEPT !.step = "open", !.link = i])
  /\ UNCHANGED <<user, lock, passwords, proven, reverted, mail>>

\* Fault: the row is read without select_for_update.
LinkUserUnlocked(c) == UNCHANGED lock

LinkUser(c) == RowFree /\ lock' = c

\* ... and locked, when whoever holds it is done: the token is that of the row as it is then.
OpenLink(c) ==
  LET i == request[c].link IN
  /\ request[c].step = "open"
  /\ \/ /\ CheckToken(i) /\ LinkUser(c)
        /\ link[i].kind = "reset" => passwords < MaxPasswords
        /\ request' = [request EXCEPT ![c].step = "link"]
     \/ ~CheckToken(i) /\ RowFree /\ Done(c) /\ UNCHANGED lock
  /\ UNCHANGED <<user, passwords, proven, reverted, mail>>

\* Fault: the transaction is left open.
StaysLocked(c) == UNCHANGED lock

Unlock(c) == lock' = IF lock = c THEN NoOne ELSE lock

VerifyEmail(c) ==
  LET i == request[c].link IN
  /\ request[c].step = "link" /\ link[i].kind = "verify"
  /\ user' = [user EXCEPT !.verified = TRUE]
  /\ proven' = proven \cup {link[i].to}
  /\ Unlock(c) /\ Done(c)
  /\ UNCHANGED <<passwords, reverted, mail>>

ResetPassword(c) ==
  LET i == request[c].link IN
  /\ request[c].step = "link" /\ link[i].kind = "reset"
  /\ user' = [user EXCEPT !.password = passwords + 1]
  /\ passwords' = passwords + 1
  /\ link' = [link EXCEPT ![i].uses = @ + 1]
  /\ Unlock(c) /\ Done(c)
  /\ UNCHANGED <<proven, reverted, cooling>>

\* The row of a request is the one its authentication read, ...
ProfileForm(c, email) ==
  /\ SignedIn
  /\ Start(c, [Idle EXCEPT !.step = "profile", !.row = user, !.email = email])
  /\ UNCHANGED <<user, lock, passwords, proven, reverted, mail>>

WholeRow(row) ==
  /\ user' = row
  /\ reverted' = (reverted \/ row.password # user.password)

\* ... and all its columns are written; a new address is verified again.
UpdateProfile(c) ==
  LET old == request[c].row
      changed == request[c].email # old.email
      new == [old EXCEPT !.email = request[c].email, !.verified = @ /\ ~changed]
  IN
  /\ request[c].step = "profile" /\ RowFree
  /\ WholeRow(new)
  /\ IF changed THEN SendAccountLink("verify", new) ELSE UNCHANGED mail
  /\ Done(c)
  /\ UNCHANGED <<lock, passwords, proven>>

\* The password alone is written.
PasswordForm ==
  /\ SignedIn /\ RowFree /\ passwords < MaxPasswords
  /\ user' = [user EXCEPT !.password = passwords + 1]
  /\ passwords' = passwords + 1
  /\ UNCHANGED <<lock, request, proven, reverted, mail>>

\* The owner blocks or unblocks the customer: all columns of the row that was read.
CustomersPage(c) ==
  /\ user.exists
  /\ Start(c, [Idle EXCEPT !.step = "block", !.row = user])
  /\ UNCHANGED <<user, lock, passwords, proven, reverted, mail>>

SetCustomerActive(c) ==
  /\ request[c].step = "block" /\ RowFree
  /\ WholeRow([request[c].row EXCEPT !.active = ~@])
  /\ Done(c)
  /\ UNCHANGED <<lock, passwords, proven, mail>>

\* The server process stops: the transaction is rolled back.
RequestDies(c) ==
  /\ request[c] # Idle /\ Done(c) /\ Unlock(c)
  /\ UNCHANGED <<user, passwords, proven, reverted, mail>>

Next ==
  \/ \E c \in Client :
       \/ \E i \in 1..Len(link) : AccountEmailForm(c, i)
       \/ OpenLink(c) \/ VerifyEmail(c) \/ ResetPassword(c)
       \/ \E email \in Address : ProfileForm(c, email)
       \/ UpdateProfile(c) \/ CustomersPage(c) \/ SetCustomerActive(c) \/ RequestDies(c)
  \/ \E email \in Address : CustomerSignup(email)
  \/ ForgotPassword \/ PasswordForm
  \/ \E i \in 1..Len(link) : LinkArrives(i) \/ LinkExpires(i)
  \/ CooldownEnds

Spec == Init /\ [][Next]_vars

-------------------------------------------------------------------------------
(* Properties.                                                             *)

\* The variables keep their types, and the row is locked only while a link is used.
TypeOK ==
  /\ user \in User /\ lock \in Client \cup {NoOne}
  /\ lock # NoOne => request[lock].step = "link"
  /\ request \in [Client -> [step: {"idle", "open", "link", "profile", "block"},
                             link: 0..MaxLinks, row: User, email: Address \cup {NoAddress}]]
  /\ Len(link) \in 0..MaxLinks
  /\ \A i \in 1..Len(link) :
       link[i] \in [kind: {"verify", "reset"}, to: Address, password: 0..MaxPasswords,
                    arrived: BOOLEAN, expired: BOOLEAN, uses: Nat]
  /\ cooling \subseteq {"verify", "reset"}
  /\ passwords \in 0..MaxPasswords /\ proven \subseteq Address /\ reverted \in BOOLEAN

\* An address counts as verified only if a link sent to it was opened, though profile
\* edits and blocks write back rows they read earlier.
VerifiedMeansProven == user.verified => user.email \in proven

\* Two tabs cannot use a reset link twice; only a row written back makes it work again.
ResetUsedOnce == \A i \in 1..Len(link) : link[i].uses > 1 => reverted

\* "Your password has been reset. Sign in with your new password.": a password stays
\* until another one is chosen.
NewPasswordStays == ~reverted
================================================================================
