\* No symmetry, for the sake of the liveness property.  The third client of service 2
\* meets a full descriptor table; the second fork fails.
CONSTANTS
  Clients1 = {a, b}
  Clients2 = {x, y, z}
  Threads = {t, u}
  Limit1 = 0
  Limit2 = 0
  MaxFds = 2
  MaxProcs = 1
  Main = Main
  NoConn = NoConn
SPECIFICATION FairSpec
PROPERTY Service2Progress
\* The main loop may sit in accept with no client left to connect.
CHECK_DEADLOCK FALSE
