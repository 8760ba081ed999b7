SPECIFICATION Spec
CONSTANTS
    a = a  b = b  sa = sa  sa2 = sa2  sb = sb  t1 = t1  t2 = t2
    Node = {a, b}
    Peer <- MCPeer
    Sock = {sa, sa2, sb}
    Home <- OneWayHome
    Thread = {t1, t2}
    SockOf <- OneWaySockOf
    Modes = {TRUE, FALSE}
    HIGH = 2
    LOW = 1
    MAXCONFIRM = 0
    Faults = {"alloc", "timeout", "signal", "unregister"}
SYMMETRY OneWaySymmetry
INVARIANTS PendingWithinHigh WaitersOnlyWhenPaused NoLostWakeup
