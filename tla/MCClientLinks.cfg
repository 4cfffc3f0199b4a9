SPECIFICATION Spec
CONSTANTS
  a1 = a1
  a2 = a2
  None = None
  Clients <- MCClients
  Addrs <- MCAddrs
INVARIANTS AloneSafe TablesFollowLinks
PROPERTIES ClosedLinkForgotten
CHECK_DEADLOCK FALSE
