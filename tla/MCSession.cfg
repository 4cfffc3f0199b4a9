SPECIFICATION Spec
CONSTANTS
  l1 = l1
  l2 = l2
  l3 = l3
  u1 = u1
  u2 = u2
  d1 = d1
  NoUuid = NoUuid
  Links <- MCLinks
  Users <- MCUsers
  Devices <- MCDevices
SYMMETRY Symmetry
CONSTRAINT SomeAccountUnshared
INVARIANTS OneAddressPerAccount RoutedToLoggedIn OnlineStatusExact KickedOutInTurn
PROPERTIES HangUpSparesOthers
CHECK_DEADLOCK FALSE
