CONSTANTS
  i1 = i1
  i2 = i2
  csv = csv
  None = None
  Inputs = {i1, i2}
  Format = {csv}
  MaxRequest = 2
  MaxExport = 2
  MaxMount = 0
SPECIFICATION Spec
INVARIANTS
  DoneIsOnScreen
CHECK_DEADLOCK FALSE
