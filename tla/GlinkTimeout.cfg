SPECIFICATION FairSpec
CONSTANTS
    p = p  q = q
    Side = {p, q}
    Peer <- MCPeer
    Openers = {p}
    Reopen = FALSE
    LocalWait = "never"
    MAXCH = 1
PROPERTY TimeoutUndone
CHECK_DEADLOCK FALSE
