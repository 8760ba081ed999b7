SPECIFICATION FairSpec
CONSTANTS
    p = p  q = q
    Side = {p, q}
    Peer <- MCPeer
    Openers = {p}
    Reopen = FALSE
    LocalWait = "unopened"
    MAXCH = 3
INVARIANTS TypeOK RefsExact CommandsKnown EndsAgree
PROPERTIES OpenCompletes CloseCompletes
CHECK_DEADLOCK FALSE
