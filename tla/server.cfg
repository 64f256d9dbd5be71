CONSTANTS
  d1 = d1
  d2 = d2
  Device = {d1, d2}
  Name = {name}
  o1 = o1
  o2 = o2
  Object = {o1, o2}
  n1 = n1
  n2 = n2
  Namespace = {n1, n2}
  e1 = e1
  e2 = e2
  Envelope = {e1, e2}
  Malformed = Malformed
  NoEnvelope = NoEnvelope
  NoBase = NoBase
  NoHandler = NoHandler
  MaxRevision = 2
  MaxCursor = 3
  Handler = {h1, h2}
  Request <- MCRequest
SPECIFICATION FairSpec
INVARIANTS
  TypeOK
  RowsMatchLog
  RevisionHistory
  AckedWritesAreLogged
PROPERTIES
  HistoryIsKept
  RevokedDevicesDoNotWrite
  ImplementsObjectStore
  RequestsEnd
