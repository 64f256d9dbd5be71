CONSTANTS
  Device = {d1, d2}
  Bookmark = {b1}
  None = None
  Commands = {"sync", "save", "load"}
  Synced = FALSE
  MaxEdits = 2
  MaxObjects = 2
  MaxRevision = 3
  Faults = {"crash", "request", "reply", "file"}
SPECIFICATION Spec
SYMMETRY Symmetry
INVARIANTS
  TypeOK
  BaseIsTheNamedVersion
PROPERTIES
  ServerLosesOnlyReplaced
  SyncRemovesOnlyReplaced
