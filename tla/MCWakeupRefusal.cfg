SPECIFICATION Spec
CONSTANTS
  Nil = Nil
  s1 = s1
  p1 = p1
  p2 = p2
  Sessions <- OneSession
  Procs <- TwoProcs
  Resets <- OneReset
  RetryDelay = 1
  MaxClock = 4
  MaxEvents = 2
  MaxCrashes = 0
INVARIANTS
  MarkedRefusalHasWakeup
