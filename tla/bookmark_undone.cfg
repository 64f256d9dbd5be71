CONSTANTS
  Device = {d1, d2}
  Bookmark = {b1, b2}
  None = None
  Commands = {"sync"}
  Synced = TRUE
  MaxEdits = 3
  MaxObjects = 1
  MaxRevision = 6
  Faults = {}
SPECIFICATION Spec
SYMMETRY Symmetry
PROPERTY ReplacedStaysGone
