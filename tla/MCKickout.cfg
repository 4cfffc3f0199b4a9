SPECIFICATION Spec
CONSTANTS
  l1 = l1
  l2 = l2
  u1 = u1
  d1 = d1
  NoUuid = NoUuid
  Links <- MCLinks
  Users <- MCUsers
  Devices <- MCDevices
INVARIANTS KickedOut
CHECK_DEADLOCK FALSE
