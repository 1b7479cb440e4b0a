CONSTANTS
  Nodes = {n1, n2, n3, n4, n5}
  NULL = NULL
  GARBAGE = GARBAGE
  MaxCount = 2
  MaxValue = 5
SYMMETRY Symmetry
SPECIFICATION Spec
INVARIANTS AssertionsHold ReaderNodeLive ValuesIncrease
CHECK_DEADLOCK FALSE
