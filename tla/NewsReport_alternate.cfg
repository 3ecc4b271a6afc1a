\* Two news items.
CONSTANTS
  NReporters = 1
  Messages <- TwoKinds
  ReadSize = 4
  FifoCap = 4
  DocCap = 4
  QueueCap = 1
  ScreenCap = 1
  MaxCalls = 1
  PtrType = 7
  Nobody = Nobody
SPECIFICATION FairSpec
PROPERTIES
  AlternatesReaders
