SPECIFICATION FairSpec
CONSTANTS
    w1 = w1  v1 = v1  x1 = x1  y1 = y1  y2 = y2  y3 = y3  y4 = y4
    Writer <- MCWriter
    Voter = v1
    AddrOf <- MCAddrOf
    Bcm <- MCBcm
    Vcd <- MCVcd
    Changes <- MCChanges
    Val = {1, 2}
    Votes <- MCVotes
    Rscs <- BothRscs
    NCPT = 2
    MAX_RPMH_PAYLOAD = 2
    MAXOPS = 2
INVARIANTS TypeOK OneInflight NoStaleRequest WaitIsServed FlushedLatest
PROPERTY CallReturns
CHECK_DEADLOCK FALSE
