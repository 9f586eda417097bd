CONSTANTS
  w1 = w1
  w2 = w2
  Worker = {w1, w2}
  TTL = 2
  IdleAfter = 2
  MinInterval = 1
  MaxRelaunch = 2
  FailCap = 0
  MaxClock = 2
  MaxToken = 3
  MaxSession = 2
SPECIFICATION Spec
SYMMETRY Threads
INVARIANT ChargedSessionWasProven
CHECK_DEADLOCK FALSE
