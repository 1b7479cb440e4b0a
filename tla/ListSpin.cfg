CONSTANTS
  Comparers = {c1, c2}
  Swappers = {s1}
  Nobody = Nobody
  N = 6
  Program = "spinlock"
SPECIFICATION Spec
SYMMETRY Symmetry
INVARIANTS SecondExists OwnUnlocks
