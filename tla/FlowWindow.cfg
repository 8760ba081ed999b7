SPECIFICATION Spec
CONSTANTS
    a = a  b = b  sa = sa  sa2 = sa2  sb = sb  t1 = t1  t2 = t2
    Node = {a, b}
    Peer <- MCPeer
    Sock = {sa, sa2, sb}
    Home <- OneWayHome
    Thread = {t1, t2}
    SockOf <- OneWaySockOf
    Modes = {FALSE}
    HIGH = 5
    LOW = 2
    MAXCONFIRM = 0
    Faults = {"xmit", "ns_restart", "resume_xmit", "rcvbuf", "close"}
SYMMETRY OneWaySymmetry
CHECK_DEADLOCK FALSE
INVARIANTS TypeOK AtMostOneConfirm RxQueueBounded
