SPECIFICATION Spec
CONSTANTS
    w1 = w1  v1 = v1  x1 = x1  y1 = y1  y2 = y2  y3 = y3  y4 = y4
    Writer <- MCWriter
    Voter = v1
    AddrOf <- MCAddrOf
    Bcm <- SplitBcm
    Vcd <- SplitVcd
    Changes <- SplitChanges
    Val = {1, 2}
    Votes <- MCVotes
    Rscs <- OneRsc
    NCPT = 3
    MAX_RPMH_PAYLOAD = 3
    MAXOPS = 1
INVARIANT EveryBcmCommitted
CHECK_DEADLOCK FALSE
