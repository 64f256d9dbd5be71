CONSTANTS
  Device = {d1, d2}
  Shared = Shared
  Endpoint = {https, ssh}
  None = None
  Preloaded <- MCPreloaded
  PageLimit = 2
  MaxCommands = 3
  MaxImports = 1
SPECIFICATION Spec
SYMMETRY Symmetry
INVARIANTS
  TypeOK
  CopiedOnlyWhenAbsent
  BaseOpensWithItsObject
  SessionKeyIsStored
  NeededKeysAreStored
  SettingsWork
PROPERTIES
  ObjectsKeepTheirKey
  CursorAdvances
CHECK_DEADLOCK FALSE
