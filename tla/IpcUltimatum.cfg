\* No symmetry, for the sake of the liveness properties.  With a queue of one the
\* editor blocks as soon as a reader is late; the word can be before,
\* between or behind two telecasts.
CONSTANTS
  News = {n}
  Live = {t1, t2}
  Junk = Junk
  QueueCap = 1
  ScreenCap = 1
SPECIFICATION FairSpec
INVARIANTS
  TypeOK
  OneCopy
PROPERTIES
  GetsShown
  PauseEnds
\* When everything is typed and nobody starts the telecast, the system rests.
CHECK_DEADLOCK FALSE
