CONSTANTS
  p1 = p1
  p2 = p2
  Proc = {p1, p2}
  MaxGen = 2
SPECIFICATION Spec
SYMMETRY Launches
INVARIANTS
  ServedIsStored
  TrustModeIsTrue
  ServedSurvives
  ReportedMeansCleared
CHECK_DEADLOCK FALSE
