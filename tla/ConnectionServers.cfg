\* No symmetry, for the sake of the liveness property.
CONSTANTS
  Clients = {a, b}
  Pids = {main, p, q}
  Main = main
  None = None
SPECIFICATION FairSpec
INVARIANTS
  TypeOK
  OneServer
PROPERTY NobodyHangs
\* All clients may be served, and persons may start no more.
CHECK_DEADLOCK FALSE
