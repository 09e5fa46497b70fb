----------------------------- MODULE OutboxProofs -----------------------------
(* Proofs about the outbox: however many messages, faults and restarts, a     *)
(* message is handed over once, and once more for each time the provider took *)
(* it and no commit recorded that.                                            *)
EXTENDS Outbox, TLAPS

\* The rows and the deliveries, without the bound on faults.
Types ==
  /\ row \in [Message -> Row]
  /\ delivery \in [Deliverer -> [todo : SUBSET Message, now : Message \cup {None}]]
  /\ up \in SUBSET Process
  /\ accepted \in [Message -> Nat]
  /\ lost \in [Message -> Nat]
  /\ faults \in 0..MaxFaults

Recorded(m) == IF row[m].state = "sent" THEN 1 ELSE 0

\* Every hand-over is recorded in its row or was lost.
Counted == \A m \in Message : accepted[m] = lost[m] + Recorded(m)

\* A locked row has not been sent: deliver_email looked at it under the lock.
HeldQueued ==
  \A d \in Deliverer : delivery[d].now # None => row[delivery[d].now].state = "queued"

\* No two deliveries lock the same row.
Exclusive ==
  \A d, e \in Deliverer :
    d # e /\ delivery[d].now # None => delivery[d].now # delivery[e].now

Inv == Types /\ Counted /\ HeldQueued /\ Exclusive

-------------------------------------------------------------------------------

LEMMA NotAMessage == None \notin Message /\ Message \subseteq Deliverer
  BY DEF None, Message, Deliverer

LEMMA InitInv == Init => Inv
  <1> SUFFICES ASSUME Init PROVE Inv
    OBVIOUS
  <1>1. Types
    BY OutboxBounds DEF Init, Types, Row, AtRest, Process
  <1>2. Counted
    BY DEF Init, Counted, Recorded
  <1>3. HeldQueued /\ Exclusive
    BY DEF Init, HeldQueued, Exclusive, AtRest
  <1> QED BY <1>1, <1>2, <1>3 DEF Inv

\* What deliveries that stop leave of the invariant, with the rows as they were.
LEMMA StopInv ==
  ASSUME Inv, NEW S \in SUBSET Deliverer, Stop(S), UNCHANGED row,
         up' \in SUBSET Process, faults' \in 0..MaxFaults
  PROVE  Inv'
  <1> DEFINE held == {delivery[d].now : d \in S} \ {None}
  <1>1. PICK taken \in SUBSET held :
          /\ accepted' = [m \in Message |-> accepted[m] + IF m \in taken THEN 1 ELSE 0]
          /\ lost' = [m \in Message |-> lost[m] + IF m \in taken THEN 1 ELSE 0]
    BY DEF Stop
  <1>2. delivery' = [d \in Deliverer |-> IF d \in S THEN AtRest ELSE delivery[d]]
    BY DEF Stop
  <1>3. Types'
    <2>1. accepted' \in [Message -> Nat] /\ lost' \in [Message -> Nat]
      BY <1>1 DEF Inv, Types
    <2>2. delivery' \in [Deliverer -> [todo : SUBSET Message, now : Message \cup {None}]]
      BY <1>2 DEF Inv, Types, AtRest
    <2> QED BY <2>1, <2>2 DEF Inv, Types
  <1>4. Counted'
    BY <1>1 DEF Inv, Types, Counted, Recorded
  <1>5. HeldQueued' /\ Exclusive'
    BY <1>2 DEF Inv, HeldQueued, Exclusive, AtRest
  <1> QED BY <1>3, <1>4, <1>5 DEF Inv

\* The actions that leave deliveries and counters alone, but for what they list.
LEMMA QueueInv ==
  ASSUME Inv, NEW m \in Message, NEW expires \in BOOLEAN, QueueEmail(m, expires)
  PROVE  Inv'
  <1>1. /\ row[m].state = "absent"
        /\ row' = [row EXCEPT ![m] = [row[m] EXCEPT !.state = "queued", !.due = TRUE,
                                                    !.expires = expires]]
        /\ delivery' = [delivery EXCEPT ![m].todo = {m}]
        /\ UNCHANGED <<up, accepted, lost, faults>>
    BY DEF QueueEmail
  <1>2. m \in Deliverer
    BY NotAMessage
  <1>3. Types'
    BY <1>1, <1>2 DEF Inv, Types, Row
  <1>4. \A k \in Message : k # m => row'[k] = row[k]
    BY <1>1 DEF Inv, Types
  <1>5. row'[m].state = "queued"
    BY <1>1 DEF Inv, Types, Row
  <1>6. \A d \in Deliverer : delivery'[d].now = delivery[d].now
    BY <1>1, <1>2 DEF Inv, Types
  <1>7. Counted'
    BY <1>1, <1>4, <1>5 DEF Inv, Counted, Recorded
  <1>8. HeldQueued'
    BY <1>4, <1>5, <1>6 DEF Inv, Types, HeldQueued
  <1>9. Exclusive'
    BY <1>6 DEF Inv, Exclusive
  <1> QED BY <1>3, <1>7, <1>8, <1>9 DEF Inv

\* A row that changes neither its state nor its holder.
LEMMA MarkInv ==
  ASSUME Inv, NEW m \in Message, row' \in [Message -> Row],
         \A k \in Message : row'[k].state = row[k].state,
         UNCHANGED <<delivery, up, accepted, lost, faults>>
  PROVE  Inv'
  BY DEF Inv, Types, Counted, Recorded, HeldQueued, Exclusive

LEMMA ListInv == Inv /\ DeliverPending => Inv'
  <1> SUFFICES ASSUME Inv, DeliverPending PROVE Inv'
    OBVIOUS
  <1> DEFINE listed == FirstOf({m \in Message : Deliverable(m)})
  <1>1. listed \in SUBSET Message
    BY DEF FirstOf
  <1>2. Worker \in Deliverer
    BY DEF Deliverer
  <1>3. /\ delivery' = [delivery EXCEPT ![Worker].todo = listed]
        /\ UNCHANGED <<row, up, accepted, lost, faults>>
    BY DEF DeliverPending
  <1>4. Types'
    BY <1>1, <1>2, <1>3 DEF Inv, Types
  <1>5. \A d \in Deliverer : delivery'[d].now = delivery[d].now
    BY <1>2, <1>3 DEF Inv, Types
  <1> QED BY <1>3, <1>4, <1>5 DEF Inv, Counted, Recorded, HeldQueued, Exclusive

LEMMA LockInv ==
  ASSUME Inv, NEW d \in Deliverer, DeliverEmail(d)
  PROVE  Inv'
  <1>1. PICK m \in delivery[d].todo :
          /\ \A other \in Deliverer : delivery[other].now # m
          /\ delivery' = [delivery EXCEPT ![d] =
               [todo |-> delivery[d].todo \ {m}, now |-> IF StillDeliverable(m) THEN m ELSE None]]
          /\ UNCHANGED <<row, up, accepted, lost, faults>>
    BY DEF DeliverEmail
  <1>2. m \in Message
    BY DEF Inv, Types
  <1>3. delivery'[d].now = m => row[m].state = "queued"
    BY <1>1, <1>2, NotAMessage DEF Inv, Types, StillDeliverable, Deliverable
  <1>4. delivery'[d].now \in {m, None}
    BY <1>1 DEF Inv, Types
  <1>5. \A e \in Deliverer : e # d => delivery'[e] = delivery[e]
    BY <1>1 DEF Inv, Types
  <1>6. Types'
    BY <1>1, <1>2 DEF Inv, Types
  <1>7. Counted'
    BY <1>1 DEF Inv, Counted, Recorded
  <1>8. HeldQueued'
    BY <1>1, <1>3, <1>4, <1>5 DEF Inv, HeldQueued
  <1>9. Exclusive'
    BY <1>1, <1>4, <1>5 DEF Inv, Exclusive
  <1> QED BY <1>6, <1>7, <1>8, <1>9 DEF Inv

\* The delivery of d ends with its row in a state that counts what was accepted.
LEMMA AcceptedInv ==
  ASSUME Inv, NEW d \in Deliverer, Accepted(d)
  PROVE  Inv'
  <1> DEFINE m == delivery[d].now
  <1>1. /\ m \in Message /\ row[m].state = "queued"
        /\ accepted' = [accepted EXCEPT ![m] = accepted[m] + 1]
        /\ row' = [row EXCEPT ![m].state = "sent"]
        /\ delivery' = [delivery EXCEPT ![d].now = None]
        /\ UNCHANGED <<up, lost, faults>>
    BY DEF Accepted, Take, Inv, Types, HeldQueued
  <1> HIDE DEF m
  <1>2. Types'
    <2>1. row' \in [Message -> Row]
      BY <1>1 DEF Inv, Types, Row
    <2>2. accepted' \in [Message -> Nat]
      <3>1. accepted[m] + 1 \in Nat
        BY <1>1 DEF Inv, Types
      <3> QED BY <1>1, <3>1 DEF Inv, Types
    <2>3. delivery' \in [Deliverer -> [todo : SUBSET Message, now : Message \cup {None}]]
      BY <1>1 DEF Inv, Types
    <2> QED BY <1>1, <2>1, <2>2, <2>3 DEF Inv, Types
  <1>3. \A k \in Message : k # m => row'[k] = row[k] /\ accepted'[k] = accepted[k]
    BY <1>1 DEF Inv, Types
  <1>4. row'[m].state = "sent" /\ accepted'[m] = accepted[m] + 1
    BY <1>1 DEF Inv, Types, Row
  <1>5. Counted'
    BY <1>1, <1>3, <1>4 DEF Inv, Types, Counted, Recorded
  <1>6. \A e \in Deliverer : delivery'[e].now = IF e = d THEN None ELSE delivery[e].now
    BY <1>1 DEF Inv, Types
  <1>7. HeldQueued'
    BY <1>1, <1>3, <1>6, NotAMessage DEF Inv, Types, HeldQueued, Exclusive, m
  <1>8. Exclusive'
    BY <1>6, NotAMessage DEF Inv, Types, Exclusive
  <1> QED BY <1>2, <1>5, <1>7, <1>8 DEF Inv

LEMMA RefusedInv ==
  ASSUME Inv, NEW d \in Deliverer, Refused(d)
  PROVE  Inv'
  <1> DEFINE m == delivery[d].now
  <1>1. /\ m \in Message
        /\ row' = [row EXCEPT ![m].due = FALSE]
        /\ delivery' = [delivery EXCEPT ![d].now = None]
        /\ UNCHANGED <<up, accepted, lost, faults>>
    BY DEF Refused, BackOff, Inv, Types
  <1>2. Types'
    BY <1>1 DEF Inv, Types, Row
  <1>3. \A k \in Message : row'[k].state = row[k].state
    BY <1>1 DEF Inv, Types, Row
  <1>4. \A e \in Deliverer : delivery'[e].now = IF e = d THEN None ELSE delivery[e].now
    BY <1>1 DEF Inv, Types
  <1>5. Counted'
    BY <1>1, <1>3 DEF Inv, Counted, Recorded
  <1>6. HeldQueued' /\ Exclusive'
    BY <1>3, <1>4 DEF Inv, Types, HeldQueued, Exclusive
  <1> QED BY <1>2, <1>5, <1>6 DEF Inv

\* A lost answer is counted as accepted and as lost.
LEMMA AnswerLostInv ==
  ASSUME Inv, NEW d \in Deliverer, AnswerLost(d)
  PROVE  Inv'
  <1> DEFINE m == delivery[d].now
  <1>1. /\ m \in Message
        /\ row' = [row EXCEPT ![m].due = FALSE]
        /\ delivery' = [delivery EXCEPT ![d].now = None]
        /\ accepted' = [accepted EXCEPT ![m] = accepted[m] + 1]
        /\ lost' = [lost EXCEPT ![m] = lost[m] + 1]
        /\ up' = up
    BY DEF AnswerLost, BackOff, Take, Inv, Types
  <1> HIDE DEF m
  <1>2. Types'
    <2>1. accepted[m] + 1 \in Nat /\ lost[m] + 1 \in Nat
      BY <1>1 DEF Inv, Types
    <2>2. accepted' \in [Message -> Nat] /\ lost' \in [Message -> Nat]
      BY <1>1, <2>1 DEF Inv, Types
    <2>3. faults' \in 0..MaxFaults
      BY OutboxBounds DEF AnswerLost, Fault, Inv, Types
    <2> QED BY <1>1, <2>2, <2>3 DEF Inv, Types, Row
  <1>3. \A k \in Message : row'[k].state = row[k].state
    BY <1>1 DEF Inv, Types, Row
  <1>4. \A e \in Deliverer : delivery'[e].now = IF e = d THEN None ELSE delivery[e].now
    BY <1>1 DEF Inv, Types
  <1>5. Counted'
    BY <1>1, <1>3 DEF Inv, Types, Counted, Recorded
  <1>6. HeldQueued' /\ Exclusive'
    BY <1>3, <1>4 DEF Inv, Types, HeldQueued, Exclusive
  <1> QED BY <1>2, <1>5, <1>6 DEF Inv

-------------------------------------------------------------------------------

LEMMA NextInv == Inv /\ [Next]_vars => Inv'
  <1> SUFFICES ASSUME Inv, [Next]_vars PROVE Inv'
    OBVIOUS
  <1>1. ASSUME NEW m \in Message, NEW expires \in BOOLEAN, QueueEmail(m, expires) PROVE Inv'
    BY <1>1, QueueInv
  <1>2. ASSUME NEW m \in Message, BackoffEnds(m) PROVE Inv'
    <2>1. row' = [row EXCEPT ![m].due = TRUE]
      BY <1>2 DEF BackoffEnds
    <2>2. row' \in [Message -> Row] /\ \A k \in Message : row'[k].state = row[k].state
      BY <2>1 DEF Inv, Types, Row
    <2> QED BY <1>2, <2>2, MarkInv DEF BackoffEnds
  <1>3. ASSUME NEW m \in Message, LinkExpires(m) PROVE Inv'
    <2>1. row' = [row EXCEPT ![m].expired = TRUE]
      BY <1>3 DEF LinkExpires
    <2>2. row' \in [Message -> Row] /\ \A k \in Message : row'[k].state = row[k].state
      BY <2>1 DEF Inv, Types, Row
    <2> QED BY <1>3, <2>2, MarkInv DEF LinkExpires
  <1>4. CASE DeliverPending
    BY <1>4, ListInv
  <1>5. ASSUME NEW d \in Deliverer, DeliverEmail(d) PROVE Inv'
    BY <1>5, LockInv
  <1>6. ASSUME NEW d \in Deliverer, Accepted(d) PROVE Inv'
    BY <1>6, AcceptedInv
  <1>7. ASSUME NEW d \in Deliverer, Refused(d) PROVE Inv'
    BY <1>7, RefusedInv
  <1>8. ASSUME NEW d \in Deliverer, DeliveryFails(d) PROVE Inv'
    <2>1. faults' \in 0..MaxFaults /\ up' \in SUBSET Process
      BY <1>8, OutboxBounds DEF DeliveryFails, Fault, Inv, Types
    <2> QED BY <1>8, <2>1, StopInv DEF DeliveryFails
  <1>9. ASSUME NEW p \in Process, ProcessExits(p) PROVE Inv'
    <2>1. faults' \in 0..MaxFaults /\ up' \in SUBSET Process
      BY <1>9, OutboxBounds DEF ProcessExits, Fault, Inv, Types
    <2>2. {d \in Deliverer : ProcessOf(d) = p} \in SUBSET Deliverer
      OBVIOUS
    <2> QED BY <1>9, <2>1, <2>2, StopInv DEF ProcessExits
  <1>10. CASE Supervise
    <2>1. faults' \in 0..MaxFaults /\ up' \in SUBSET Process
      BY <1>10 DEF Supervise, Inv, Types
    <2> QED BY <1>10, <2>1, StopInv DEF Supervise
  <1>11. ASSUME NEW d \in Deliverer, AnswerLost(d) PROVE Inv'
    BY <1>11, AnswerLostInv
  <1>12. CASE UNCHANGED vars
    BY <1>12 DEF vars, Inv, Types, Counted, Recorded, HeldQueued, Exclusive
  <1> QED
    BY <1>1, <1>2, <1>3, <1>4, <1>5, <1>6, <1>7, <1>8, <1>9, <1>10, <1>11, <1>12 DEF Next

LEMMA AlwaysInv == Spec => []Inv
  BY InitInv, NextInv, PTL DEF Spec

\* The request and the worker hand a message over once, and again only for each time the
\* provider took it and no commit recorded that: deliver_email stopped before its commit, or
\* backed off after a timeout or a broken answer.
THEOREM HandedOverOnce == Spec => []HandedOverAgainIfLost
  <1>1. Inv => HandedOverAgainIfLost
    BY DEF Inv, Types, Counted, Recorded, HandedOverAgainIfLost
  <1> QED BY <1>1, AlwaysInv, PTL

\* A step that hands m over found its row queued, and a row that says sent goes on saying so.
OnlyQueued(m) ==
  /\ accepted'[m] # accepted[m] => row[m].state = "queued"
  /\ row[m].state = "sent" => row'[m].state = "sent"

LEMMA StopOnlyQueued ==
  ASSUME Inv, NEW S \in SUBSET Deliverer, Stop(S), UNCHANGED row, NEW m \in Message
  PROVE  OnlyQueued(m)
  <1>1. PICK taken \in SUBSET ({delivery[d].now : d \in S} \ {None}) :
          accepted' = [k \in Message |-> accepted[k] + IF k \in taken THEN 1 ELSE 0]
    BY DEF Stop
  <1>2. CASE m \in taken
    BY <1>2 DEF Inv, HeldQueued, OnlyQueued
  <1>3. CASE m \notin taken
    BY <1>1, <1>3 DEF Inv, Types, OnlyQueued
  <1> QED BY <1>2, <1>3

LEMMA StepOnlyQueued ==
  ASSUME Inv, [Next]_vars, NEW m \in Message
  PROVE  OnlyQueued(m)
  <1>1. ASSUME NEW k \in Message, NEW expires \in BOOLEAN, QueueEmail(k, expires)
        PROVE  OnlyQueued(m)
    <2>1. row[k].state = "absent" /\ (k # m => row'[m] = row[m]) /\ accepted' = accepted
      BY <1>1 DEF QueueEmail, Inv, Types
    <2> QED BY <2>1 DEF OnlyQueued
  <1>2. ASSUME NEW k \in Message, BackoffEnds(k) \/ LinkExpires(k) PROVE OnlyQueued(m)
    BY <1>2 DEF BackoffEnds, LinkExpires, Inv, Types, Row, OnlyQueued
  <1>3. ASSUME NEW d \in Deliverer, DeliverPending \/ DeliverEmail(d) PROVE OnlyQueued(m)
    BY <1>3 DEF DeliverPending, DeliverEmail, OnlyQueued
  <1>4. ASSUME NEW d \in Deliverer, Accepted(d) PROVE OnlyQueued(m)
    <2> DEFINE k == delivery[d].now
    <2>1. /\ k \in Message /\ row[k].state = "queued"
          /\ row' = [row EXCEPT ![k].state = "sent"]
          /\ accepted' = [accepted EXCEPT ![k] = @ + 1]
      BY <1>4 DEF Accepted, Take, Inv, Types, HeldQueued
    <2> HIDE DEF k
    <2>2. CASE k = m
      BY <2>1, <2>2 DEF OnlyQueued
    <2>3. CASE k # m
      BY <2>1, <2>3 DEF Inv, Types, OnlyQueued
    <2> QED BY <2>2, <2>3
  <1>5. ASSUME NEW d \in Deliverer, Refused(d) PROVE OnlyQueued(m)
    BY <1>5 DEF Refused, BackOff, Inv, Types, Row, OnlyQueued
  <1>6. ASSUME NEW d \in Deliverer, DeliveryFails(d) PROVE OnlyQueued(m)
    BY <1>6, StopOnlyQueued DEF DeliveryFails
  <1>7. ASSUME NEW p \in Process, ProcessExits(p) PROVE OnlyQueued(m)
    <2>1. {d \in Deliverer : ProcessOf(d) = p} \in SUBSET Deliverer
      OBVIOUS
    <2> QED BY <1>7, <2>1, StopOnlyQueued DEF ProcessExits
  <1>8. CASE Supervise
    BY <1>8, StopOnlyQueued DEF Supervise
  <1>9. CASE UNCHANGED vars
    BY <1>9 DEF vars, OnlyQueued
  <1>10. Worker \in Deliverer
    BY DEF Deliverer
  <1>11. ASSUME NEW d \in Deliverer, AnswerLost(d) PROVE OnlyQueued(m)
    <2> DEFINE k == delivery[d].now
    <2>1. /\ k \in Message /\ row[k].state = "queued"
          /\ row' = [row EXCEPT ![k].due = FALSE]
          /\ accepted' = [accepted EXCEPT ![k] = @ + 1]
      BY <1>11 DEF AnswerLost, BackOff, Take, Inv, Types, HeldQueued
    <2> HIDE DEF k
    <2> QED BY <2>1 DEF Inv, Types, Row, OnlyQueued
  <1> QED
    BY <1>1, <1>2, <1>3, <1>4, <1>5, <1>6, <1>7, <1>8, <1>9, <1>10, <1>11 DEF Next

\* A message reaches the provider only between the commit that queues it and the one that
\* records it: a delivery that listed it earlier, was interrupted or waited for another's
\* lock does not send a mail whose transaction has not committed, or one recorded as sent.
THEOREM SentIsFinal ==
  Spec => [][\A m \in Message :
               /\ accepted'[m] # accepted[m] => row[m].state = "queued"
               /\ row[m].state = "sent" => row'[m].state = "sent"]_vars
  <1>1. Inv /\ [Next]_vars =>
          \A m \in Message :
            /\ accepted'[m] # accepted[m] => row[m].state = "queued"
            /\ row[m].state = "sent" => row'[m].state = "sent"
    BY StepOnlyQueued DEF OnlyQueued
  <1> QED BY <1>1, AlwaysInv, PTL DEF Spec

\* The rows, deliveries and counters keep their types for any number of messages.
THEOREM OutboxTypes == Spec => []TypeOK
  <1>1. Inv => TypeOK
    BY DEF Inv, Types, TypeOK
  <1> QED BY <1>1, AlwaysInv, PTL
===============================================================================
