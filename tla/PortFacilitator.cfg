\* One failing exec; two services, on the port the operator types, on Info or both on
\* one of them; two clients, enough for a stale select.  No symmetry, for liveness.
CONSTANTS
  Procs = {f, g}
  First = f
  Ports = {p1}
  Info = info
  NServices = 2
  Clients = {c, d}
  NoClient = NoClient
SPECIFICATION FairPortSpec
INVARIANTS
  PortTypeOK
  BlocksOnlyBesideAnother
  TableListens
PROPERTY ClientAccepted
\* Everybody may wait for the operator.
CHECK_DEADLOCK FALSE
