CONSTANTS
  t1 = t1
  t2 = t2
  Tab = {t1, t2}
  Gone = Gone
  MaxToken = 2
  MaxLoad = 3
  MaxFlight = 2
SPECIFICATION FairSpec
INVARIANTS
  OneTabPerSession
  ConnectedHasProof
PROPERTIES
  ProofGivenUpIsDead
  RequestingEnds
CHECK_DEADLOCK FALSE
