\* A lost update that admits one too many takes four clients and a limit of 1.
\* No property here is a liveness property, so symmetry is sound.
CONSTANTS
  Clients1 = {a, b, c, d}
  Clients2 = {x, y}
  Threads = {t, u}
  Limit1 = 1
  Limit2 = 1
  MaxFds = 2
  MaxProcs = 4
  Main = Main
  NoConn = NoConn
SPECIFICATION Spec
SYMMETRY Symmetry
INVARIANTS
  TypeOK
  Admission1
  NeverUndercounts1
  AcceptBlocksOnlyWhenInterrupted
  Accounting2
  OneOwner
PROPERTY Service1Admission
\* The main loop may sit in accept with no client left to connect.
CHECK_DEADLOCK FALSE
