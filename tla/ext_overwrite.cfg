CONSTANTS
  Device = {d1, d2}
  Blank = Blank
  Archive = {Blank, a1, a2}
  None = None
  Gone = Gone
  ChunkCount = 1
  MaxChunks = 4
  MaxManifests = 2
  MaxRevision = 3
  Faults = {}
SPECIFICATION Spec
SYMMETRY Symmetry
PROPERTY NoSilentOverwrite
