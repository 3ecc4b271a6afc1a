\* Two services: an announcement can be overtaken by the next.  Two news clients, so
\* that an address left over can be served, or two connections, to one service or to
\* both.  No symmetry, for liveness.
CONSTANTS
  Services = {1, 2}
  NewsClients = {1, 2}
  MaxPeople = 2
  Main = Main
  Talker = Talker
  Stdin = Stdin
  Nobody = Nobody
  None = None
SPECIFICATION FairSpec
INVARIANTS
  TypeOK
  AllAnnounced
PROPERTY VisitorsAccepted
\* Everybody may wait for the operator and the clients.
CHECK_DEADLOCK FALSE
