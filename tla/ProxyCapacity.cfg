CONSTANTS
  Clients = {c1, c2}
  Urls = {u1}
  None = None
  BufferSize = 1
  MaxEntryCapacity = 4
  MaxResponse = 5
  CollectorRuns = FALSE
SPECIFICATION Spec
INVARIANT EntryWithinCapacity
CHECK_DEADLOCK FALSE
