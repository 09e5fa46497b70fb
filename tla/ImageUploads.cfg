SPECIFICATION Spec
CONSTANTS
  f1 = f1
  f2 = f2
  File = {f1, f2}
  MaxImages = 2
  MaxRows = 3
  MaxSubmits = 2
  MaxFaults = 1
  MaxOther = 2
INVARIANT TypeOK
INVARIANT HiddenUntilUploaded
INVARIANT SuccessMeansUploaded
INVARIANT IntentsKeepTheLimit
CHECK_DEADLOCK FALSE
