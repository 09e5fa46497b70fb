SPECIFICATION Spec
CONSTANTS
  ann = ann
  ben = ben
  guest = guest
  Account = {ann, ben}
  Guest = guest
  StartAs = ann
  Slot = {1, 2}
  MaxUnits = 2
  MaxClicks = 3
  MaxVisits = 1
  MaxFaults = 1
INVARIANT TypeOK
INVARIANT OneOrderPerVisit
PROPERTY RevivedOnlyByLogin
PROPERTY SessionDecided
PROPERTY OwnCartComesBack
CHECK_DEADLOCK FALSE
