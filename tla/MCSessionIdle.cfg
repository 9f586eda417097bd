CONSTANTS
  w1 = w1
  Worker = {w1}
  TTL = 2
  IdleAfter = 2
  MinInterval = 1
  MaxRelaunch = 1
  FailCap = 2
  MaxClock = 2
  MaxToken = 2
  MaxSession = 2
SPECIFICATION FairSpec
PROPERTIES
  IdleIsReported
CHECK_DEADLOCK FALSE
