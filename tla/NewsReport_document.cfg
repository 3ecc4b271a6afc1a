\* A chunk may hold two messages.
CONSTANTS
  NReporters = 1
  Messages <- TwoKinds
  ReadSize = 4
  FifoCap = 6
  DocCap = 4
  QueueCap = 1
  ScreenCap = 1
  MaxCalls = 1
  PtrType = 7
  Nobody = Nobody
SPECIFICATION FairSpec
PROPERTIES
  DocReachesDocument
