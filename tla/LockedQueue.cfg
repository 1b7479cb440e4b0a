CONSTANTS
  Nodes = {n1, n2, n3}
  NULL = NULL
  MaxCount = 2
  Wrap = 3
  Writers = {w1, w2}
  Readers = {r1}
SPECIFICATION FairLockedSpec
INVARIANTS ListShape TypeOK AssertionsHold NoLostWakeup
PROPERTIES ValuesArrive ImplementsFIFO
