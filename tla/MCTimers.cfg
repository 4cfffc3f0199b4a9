SPECIFICATION Spec
CONSTANTS
  t1 = t1
  t2 = t2
  c1 = c1
  c2 = c2
  NoTimer = NoTimer
  Timers <- MCTimers
  Clients <- MCClients
  Intervals <- MCIntervals
INVARIANTS FiresOnTime OthersMayUnregister
PROPERTIES CalledAgain
CHECK_DEADLOCK FALSE
