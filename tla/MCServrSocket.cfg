SPECIFICATION Spec
CONSTANTS
  l1 = l1
  l2 = l2
  b1 = b1
  b2 = b2
  NoLink = NoLink
  Links <- MCLinks
  Bevs <- MCBevs
  Fds = {1, 2}
  PoolSize = 2
  MaxMissed = 4
  MaxReads = 1
INVARIANTS HandlersNeverOverlap FdHandedOverInOrder MapsFollowSockets
PROPERTIES ImplementsLinkLife ExpiresOnlyWhenSilent SilentLinkForgotten
CHECK_DEADLOCK FALSE
