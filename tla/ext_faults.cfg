CONSTANTS
  Device = {d1, d2}
  Blank = Blank
  Archive = {Blank, a1, a2}
  None = None
  Gone = Gone
  ChunkCount = 1
  MaxChunks = 2
  MaxManifests = 2
  MaxRevision = 2
  Faults = {"crash", "request", "reply"}
SPECIFICATION Spec
SYMMETRY Symmetry
INVARIANTS TypeOK ConfirmedIsComplete
PROPERTIES BaseIsAgreed SyncKeepsLocalChanges
