CONSTANTS
  MaxName = 1
  None = None
  MaxProfiles = 3
  MaxArchives = 2
SPECIFICATION Spec
INVARIANTS TypeOK EveryProfileIsKept ArchivedIsRegistered BaseIsItsOwn
PROPERTY ListingRepairsDefault
