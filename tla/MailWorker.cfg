\* Requests and the worker deliver messages while both processes stop and restart.
SPECIFICATION Spec
CONSTANTS
  MaxMessages = 3
  Limit = 1
  MaxFaults = 1
INVARIANT TypeOK HandedOverAgainIfLost
PROPERTY QueuedMailResolved

\* When every message is sent or has expired nothing is left to do.
CHECK_DEADLOCK FALSE
