CONSTANTS
  Comparers = {}
  Swappers = {s1, s2}
  Nobody = Nobody
  N = 5
  Program = "rwlock"
SPECIFICATION Spec
SYMMETRY Symmetry
INVARIANTS TypeOK OneChain OwnUnlocks NeverAllBlocked
PROPERTIES StableStep
