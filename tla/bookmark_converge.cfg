CONSTANTS
  Device = {d1, d2}
  Bookmark = {b1, b2}
  None = None
  Commands = {"sync"}
  Synced = TRUE
  MaxEdits = 3
  MaxObjects = 1
  MaxRevision = 9
  MaxOverlaps = 2
  Faults = {}
SPECIFICATION MCSpec
PROPERTY Converges
