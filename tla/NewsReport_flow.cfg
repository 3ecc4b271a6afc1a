\* Reads cut messages in two: what is left of one is news.  Both readers,
\* killed and started at any point, and telecasts.
CONSTANTS
  NReporters = 1
  Messages <- AllKinds
  ReadSize = 3
  FifoCap = 4
  DocCap = 3
  QueueCap = 1
  ScreenCap = 1
  MaxCalls = 1
  PtrType = 7
  Nobody = Nobody
SPECIFICATION FairSpec
INVARIANTS
  TypeOK
  ChunkTerminated
  ScreenMutex
PROPERTIES
  EditorUnblocks
