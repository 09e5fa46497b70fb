SPECIFICATION Spec
CONSTANTS
  f1 = f1
  f2 = f2
  File = {f1, f2}
  MaxImages = 2
  MaxRows = 3
  MaxSubmits = 1
  MaxFaults = 1
  MaxOther = 0
INVARIANT CleanupSparesReady
CHECK_DEADLOCK FALSE
