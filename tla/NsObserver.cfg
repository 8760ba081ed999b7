SPECIFICATION Spec
CONSTANTS
  n1 = n1
  n2 = n2
  p1 = p1
  p2 = p2
  svc1 = svc1
  svc2 = svc2
  Node = {n1, n2}
  Port = {p1, p2}
  Service = {svc1}
  AnySvc = any
  None = none
  Offers <- MCOffers
  Servers <- OneServer
  Observers <- RemoteObserver
  Clients <- RemoteObserver
  Late = {}
  Faults = {}
  MAXOPS = 3
  MAXDOWN = 1
INVARIANTS TypeOK ViewExact NoGhostClients Converged
CHECK_DEADLOCK FALSE
