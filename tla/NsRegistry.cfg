SPECIFICATION FairSpec
CONSTANTS
  n1 = n1
  n2 = n2
  p1 = p1
  p2 = p2
  svc1 = svc1
  svc2 = svc2
  Node = {n1, n2}
  Port = {p1}
  Service = {svc1, svc2}
  AnySvc = any
  None = none
  Offers <- MCOffers
  Servers <- BothServers
  Observers <- NoSocket
  Clients <- NoSocket
  Late = {n2}
  Faults = {}
  MAXOPS = 2
  MAXDOWN = 2
INVARIANTS Converged GoneForgotten
PROPERTIES ServerFound
CHECK_DEADLOCK FALSE
