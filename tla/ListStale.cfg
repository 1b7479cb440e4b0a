CONSTANTS
  Comparers = {c1}
  Swappers = {s1, s2}
  Nobody = Nobody
  N = 6
  Program = "mutex"
SPECIFICATION Spec
INVARIANTS SecondExists
