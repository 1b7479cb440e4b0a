CONSTANTS
  Clients = {c1}
  Urls = {u1}
  None = None
  BufferSize = 2
  MaxEntryCapacity = 4
  MaxResponse = 3
  CollectorRuns = TRUE
SPECIFICATION FairSpec
PROPERTIES ClientNeverWedged PassEnds
