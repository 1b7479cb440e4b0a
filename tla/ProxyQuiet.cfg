CONSTANTS
  Clients = {c1, c2}
  Urls = {u1}
  None = None
  BufferSize = 1
  MaxEntryCapacity = 4
  MaxResponse = 2
  CollectorRuns = FALSE
SPECIFICATION FairDeliverySpec
PROPERTIES AppendWakesWaiters ImplementsSharedFetch
\* The program stops when every client has ended or waits forever.
CHECK_DEADLOCK FALSE
