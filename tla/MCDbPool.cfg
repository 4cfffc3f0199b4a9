SPECIFICATION Spec
CONSTANTS
  t1 = t1
  t2 = t2
  Threads <- MCThreads
  Handles = {1, 2, 3, 4, 5, 6}
  MaxRegistrations = 1
SYMMETRY Symmetry
INVARIANTS OneUser CountsHolders HandedOutClean PoolBounded
