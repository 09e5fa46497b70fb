\* Two tabs of the owner, Stripe's events in any order and more than once.
SPECIFICATION Spec
CONSTANTS
  one = one
  two = two
  Tab = {one, two}
  MaxSessions = 2
  MaxEvents = 3
INVARIANT TypeOK EventsAppliedOnce OneOpenCheckout OpenStorePaid
PROPERTY TrialStaysUsed EveryEventProcessed WaitingTabNotices

\* Nothing is left to do when the bounded sessions and events are used up.
CHECK_DEADLOCK FALSE
