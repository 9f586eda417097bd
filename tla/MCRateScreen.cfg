CONSTANTS
  i1 = i1
  i2 = i2
  csv = csv
  None = None
  Inputs = {i1, i2}
  Format = {csv}
  MaxRequest = 2
  MaxExport = 2
  MaxMount = 1
SPECIFICATION FairSpec
INVARIANTS
  ResultMatchesInputs
  SavedWasShown
PROPERTIES
  CalculationEnds
  ExportEnds
CHECK_DEADLOCK FALSE
