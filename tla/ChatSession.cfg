\* No symmetry, for the sake of the liveness property.
CONSTANTS
  Ids = {i1, i2, i3}
  NoId = NoId
  MaxSessions = 3
  MaxInbox = 2
SPECIFICATION FairSessionSpec
INVARIANTS
  SessionTypeOK
  SessionsSeparate
  CancelledAfterAt
PROPERTIES
  SessionEnds
\* After the last session the server waits in accept.
CHECK_DEADLOCK FALSE
