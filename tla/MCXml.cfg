SPECIFICATION DocSpec
CONSTANTS
  document = document
  n1 = n1
  n2 = n2
  n3 = n3
  n4 = n4
  n5 = n5
  Null = Null
  NoValue = NoValue
  Nodes <- MCNodes
  Values <- MCValues
  Alpha <- MCAlpha
  Inputs <- MCInputs
  AttrValues <- MCAttrValues
  MaxEdits = 2
INVARIANTS TreeSound 
CHECK_DEADLOCK FALSE
PROPERTIES ImplementsOrderedTree
