CONSTANTS
  Clients = {c1, c2}
  Urls = {u1, u2}
  None = None
  BufferSize = 1
  MaxEntryCapacity = 4
  MaxResponse = 1
  CollectorRuns = TRUE
SPECIFICATION Spec
SYMMETRY Symmetry
INVARIANTS TypeOK RefCountExact MappedEntryLive NoFault OneFetchPerUrl
PROPERTY EntryLifecycle
