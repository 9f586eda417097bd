CONSTANTS
  t1 = t1
  t2 = t2
  Tab = {t1, t2}
  Gone = Gone
  MaxToken = 2
  MaxLoad = 2
  MaxFlight = 3
SPECIFICATION Spec
SYMMETRY TabsAlike
INVARIANTS
  ButtonCanWork
CHECK_DEADLOCK FALSE
