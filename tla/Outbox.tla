--------------------------------- MODULE Outbox ---------------------------------
(***************************************************************************)
(* The transactional outbox: a message is a row that commits with the      *)
(* account or the order it is about.  The request that committed it, and a *)
(* worker that lists the rows that are due, hand it to the mail provider,  *)
(* while requests, processes and the service they run in stop and restart. *)
(***************************************************************************)
EXTENDS Integers, FiniteSets

CONSTANTS
  MaxMessages,   \* bound on the messages queued
  Limit,         \* messages the worker lists at a time
  MaxFaults      \* bound on answers lost, and on deliveries and processes that stop

ASSUME OutboxBounds == MaxMessages \in Nat /\ Limit \in Nat \ {0} /\ MaxFaults \in Nat

Message == 1..MaxMessages     \* in the order of their creation
None == 0
\* A request delivers its own message and goes by its number.
Worker == MaxMessages + 1
Deliverer == Message \cup {Worker}
Process == {"web", "worker"}
ProcessOf(d) == IF d = Worker THEN "worker" ELSE "web"

VARIABLES
  row,       \* the OutboundEmail rows
  delivery,  \* what each deliverer has still to deliver, and the row it locks
  up,        \* the processes that run
  accepted,  \* history: how often the provider took each message
  lost,      \* history: how often it took one and no commit recorded that
  faults

vars == <<row, delivery, up, accepted, lost, faults>>

Row == [state: {"absent", "queued", "sent"}, expires: BOOLEAN, expired: BOOLEAN, due: BOOLEAN]
AtRest == [todo |-> {}, now |-> None]

Init ==
  /\ row = [m \in Message |->
              [state |-> "absent", expires |-> FALSE, expired |-> FALSE, due |-> FALSE]]
  /\ delivery = [d \in Deliverer |-> AtRest] /\ up = Process
  /\ accepted = [m \in Message |-> 0] /\ lost = [m \in Message |-> 0] /\ faults = 0

-------------------------------------------------------------------------------

\* A transaction with a message commits; its request delivers the message next.
QueueEmail(m, expires) ==
  /\ "web" \in up /\ row[m].state = "absent"
  /\ \A k \in 1..m - 1 : row[k].state # "absent"
  /\ row' = [row EXCEPT ![m] = [@ EXCEPT !.state = "queued", !.due = TRUE, !.expires = expires]]
  /\ delivery' = [delivery EXCEPT ![m].todo = {m}]
  /\ UNCHANGED <<up, accepted, lost, faults>>

Deliverable(m) == row[m].state = "queued" /\ row[m].due /\ ~row[m].expired

\* Fault: the list is trusted when its messages are sent.
AsListed(m) == TRUE

\* The locked row is looked at again.
StillDeliverable(m) == Deliverable(m)

\* The first messages of S.
FirstOf(S) == {m \in S : Cardinality({k \in S : k <= m}) <= Limit}

\* The worker lists messages that are due ...
DeliverPending ==
  /\ "worker" \in up /\ delivery[Worker] = AtRest
  /\ LET listed == FirstOf({m \in Message : Deliverable(m)})
     IN listed # {} /\ delivery' = [delivery EXCEPT ![Worker].todo = listed]
  /\ UNCHANGED <<row, up, accepted, lost, faults>>

\* ... and delivers them one by one, under a lock on the row.
DeliverEmail(d) ==
  /\ delivery[d].now = None
  /\ \E m \in delivery[d].todo :
       /\ \A k \in delivery[d].todo : m <= k
       /\ \A other \in Deliverer : delivery[other].now # m
       /\ delivery' = [delivery EXCEPT ![d] =
            [todo |-> @.todo \ {m}, now |-> IF StillDeliverable(m) THEN m ELSE None]]
  /\ UNCHANGED <<row, up, accepted, lost, faults>>

Take(m) == accepted' = [accepted EXCEPT ![m] = @ + 1]

\* The provider takes the message and the row records it.
Accepted(d) ==
  LET m == delivery[d].now IN
  /\ m # None /\ Take(m)
  /\ row' = [row EXCEPT ![m].state = "sent"]
  /\ delivery' = [delivery EXCEPT ![d].now = None]
  /\ UNCHANGED <<up, lost, faults>>

\* Fault: a message that is refused is given up.
GivenUp(d) ==
  LET m == delivery[d].now IN
  /\ m # None
  /\ row' = [row EXCEPT ![m].state = "failed"]
  /\ delivery' = [delivery EXCEPT ![d].now = None]
  /\ UNCHANGED <<up, accepted, lost, faults>>

Fault == faults < MaxFaults /\ faults' = faults + 1

\* The attempt ends with an exception: the next one waits for a backoff.
BackOff(d) ==
  /\ delivery[d].now # None
  /\ row' = [row EXCEPT ![delivery[d].now].due = FALSE]
  /\ delivery' = [delivery EXCEPT ![d].now = None]

\* The provider does not take the message ...
Refused(d) == BackOff(d) /\ UNCHANGED <<up, accepted, lost, faults>>

\* ... or takes it, and its answer is late, broken or lost.
AnswerLost(d) ==
  /\ BackOff(d) /\ Fault
  /\ Take(delivery[d].now) /\ lost' = [lost EXCEPT ![delivery[d].now] = @ + 1]
  /\ UNCHANGED up

\* A backoff ends; a link gets an hour old.
BackoffEnds(m) ==
  /\ row[m].state = "queued" /\ ~row[m].due
  /\ row' = [row EXCEPT ![m].due = TRUE]
  /\ UNCHANGED <<delivery, up, accepted, lost, faults>>
LinkExpires(m) ==
  /\ row[m].expires /\ ~row[m].expired
  /\ row' = [row EXCEPT ![m].expired = TRUE]
  /\ UNCHANGED <<delivery, up, accepted, lost, faults>>

\* Deliveries stop before their commit: the provider may have taken what they held.
Stop(stopped) ==
  LET held == {delivery[d].now : d \in stopped} \ {None} IN
  /\ delivery' = [d \in Deliverer |-> IF d \in stopped THEN AtRest ELSE delivery[d]]
  /\ \E taken \in SUBSET held :
       /\ accepted' = [m \in Message |-> accepted[m] + IF m \in taken THEN 1 ELSE 0]
       /\ lost' = [m \in Message |-> lost[m] + IF m \in taken THEN 1 ELSE 0]

\* A request is killed; the worker loses the database and goes on with a new list.
DeliveryFails(d) ==
  /\ delivery[d] # AtRest /\ Fault /\ Stop({d})
  /\ UNCHANGED <<row, up>>

ProcessExits(p) ==
  /\ p \in up /\ up' = up \ {p} /\ Fault
  /\ Stop({d \in Deliverer : ProcessOf(d) = p})
  /\ UNCHANGED row

\* Fault: only the web server is watched.
WebServerExited == "web" \notin up

Unexpected == up # Process

\* The supervisor stops the sibling of a process that exited, and the platform restarts both.
Supervise ==
  /\ Unexpected
  /\ up' = Process
  /\ Stop(Deliverer)
  /\ UNCHANGED <<row, faults>>

Next ==
  \/ \E m \in Message :
       \/ \E expires \in BOOLEAN : QueueEmail(m, expires)
       \/ BackoffEnds(m) \/ LinkExpires(m)
  \/ DeliverPending
  \/ \E d \in Deliverer :
       DeliverEmail(d) \/ Accepted(d) \/ Refused(d) \/ AnswerLost(d) \/ DeliveryFails(d)
  \/ \E p \in Process : ProcessExits(p)
  \/ Supervise

\* The worker and the supervisor run, backoffs end, and the provider does not refuse
\* messages for ever; that a link expires is not relied on.
Fairness ==
  /\ WF_vars(DeliverPending) /\ WF_vars(Supervise)
  /\ \A d \in Deliverer :
       WF_vars(DeliverEmail(d)) /\ WF_vars(Accepted(d)) /\ <>[][~Refused(d)]_vars
  /\ \A m \in Message : WF_vars(BackoffEnds(m))

Spec == Init /\ [][Next]_vars /\ Fairness

-------------------------------------------------------------------------------
(* Properties.                                                             *)

\* The variables keep their types.
TypeOK ==
  /\ row \in [Message -> Row]
  /\ delivery \in [Deliverer -> [todo: SUBSET Message, now: Message \cup {None}]]
  /\ up \subseteq Process
  /\ accepted \in [Message -> Nat] /\ lost \in [Message -> Nat] /\ faults \in 0..MaxFaults

\* The request and the worker do not both hand a message to the provider: it gets the
\* message again only when it took it and no commit recorded that, because the delivery
\* stopped before its commit or the answer did not come.
HandedOverAgainIfLost == \A m \in Message : accepted[m] <= 1 + lost[m]

\* Whatever is refused, stops or restarts, a queued message is sent in the end, or its link
\* has expired; a confirmation of an order never expires.
QueuedMailResolved ==
  \A m \in Message : row[m].state = "queued" ~> row[m].state = "sent" \/ row[m].expired
================================================================================
