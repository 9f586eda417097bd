CONSTANTS
  w1 = w1
  w2 = w2
  Worker = {w1, w2}
  TTL = 2
  IdleAfter = 3
  MinInterval = 2
  MaxRelaunch = 2
  FailCap = 0
  MaxClock = 2
  MaxToken = 3
  MaxSession = 2
SPECIFICATION Spec
SYMMETRY Threads
INVARIANTS
  TypeOK
  TokenOpensOneSession
  OpenedInTime
  RelaunchBudget
  EveryMintIsPaid
PROPERTIES
  TokenLostForAReason
  KeepsPromise
CHECK_DEADLOCK FALSE
