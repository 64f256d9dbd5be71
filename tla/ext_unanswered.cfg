CONSTANTS
  Device = {d1, d2}
  Blank = Blank
  Archive = {Blank, a1}
  None = None
  Gone = Gone
  ChunkCount = 1
  MaxChunks = 3
  MaxManifests = 2
  MaxRevision = 3
  Faults = {"reply"}
SPECIFICATION Spec
SYMMETRY Symmetry
INVARIANT PublishedIsComplete
