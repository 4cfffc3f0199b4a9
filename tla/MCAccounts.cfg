SPECIFICATION Spec
CONSTANTS
  w1 = w1
  w2 = w2
  u1 = u1
  u2 = u2
  p1 = p1
  p2 = p2
  d1 = d1
  t1 = t1
  None = None
  Workers <- MCWorkers
  Users <- MCUsers
  Passwords <- MCPasswords
  Devices <- MCDevices
  Tokens <- MCTokens
  MaxRequests = 3
SYMMETRY Symmetry
INVARIANTS NoDuplicateRows AnswersTrue TokenOfOneUser
CHECK_DEADLOCK FALSE
