SPECIFICATION Spec
CONSTANTS
  f1 = f1
  f2 = f2
  File = {f1, f2}
  MaxImages = 3
  MaxRows = 3
  MaxSubmits = 3
  MaxFaults = 1
  MaxOther = 0
INVARIANT OneImagePerFile
CHECK_DEADLOCK FALSE
