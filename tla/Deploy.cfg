SPECIFICATION FairSpec
CONSTANTS
    M = 2
    N = 5
    Pktgen = 1
    Neighbors <- MCNeighbors
    MayListen <- MCMayListen
INVARIANTS TypeOK MergerAfterAll RoutesAgree NodeOnce
PROPERTY SetupEnds
CHECK_DEADLOCK FALSE
