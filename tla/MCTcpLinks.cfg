SPECIFICATION Spec
CONSTANTS
  a1 = a1
  a2 = a2
  b1 = b1
  b2 = b2
  f1 = f1
  f2 = f2
  None = None
  Links = {1, 2, 3}
  Addrs <- MCAddrs
  Bevs <- MCBevs
  Fds <- MCFds
  MaxReads = 1
SYMMETRY Symmetry
INVARIANTS TablesFollowLinks OwnDevice
PROPERTIES ReachesPeer
CHECK_DEADLOCK FALSE
