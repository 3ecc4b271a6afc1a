\* No symmetry, for the sake of the liveness property.
CONSTANTS
  Members = {a, b, c}
  Groups = {g, h}
  QueueCap = 4
  Server = Server
  None = None
SPECIFICATION FairSpec
INVARIANTS
  TypeOK
  DeliveredInGroup
  OneEach
PROPERTY ServerComesBack
\* Everybody may wait for the queue or a message.
CHECK_DEADLOCK FALSE
