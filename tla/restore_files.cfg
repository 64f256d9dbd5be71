CONSTANTS
  Directory = {Extensions, IndexedDB}
  Nested = {IndexedDB}
  Preferences = {SecurePreferences}
  Bookmarks = Bookmarks
  Version = {v1, v2}
  Absent = Absent
  Damaged = Damaged
SPECIFICATION Spec
SYMMETRY Symmetry
INVARIANTS TypeOK OldDataIsOnDisk ReplacedIsBackedUp UndoneIsUndone RestoredExactly
