SPECIFICATION Spec
CONSTANTS
  l1 = l1
  l2 = l2
  l3 = l3
  u1 = u1
  u2 = u2
  d1 = d1
  t1 = t1
  NoUuid = NoUuid
  NoLink = NoLink
  HasJPush = TRUE
  Links <- MCLinks
  Users <- MCUsers
  Devices <- MCDevices
  Tokens <- MCTokens
  Flags <- MCFlags
SYMMETRY Symmetry
CONSTRAINT WhatMatters
INVARIANTS ServedOnce OnlyAddressees AnswerTrue PushedToBound
