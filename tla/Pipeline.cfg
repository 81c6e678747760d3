SPECIFICATION FairSpec
CONSTANTS
    Gen = 1
    NumPackets = 2
    IdSpace = 4
    Nodes = {0, 2, 3, 4}
    Sources = {0, 2}
    Neighbors <- MCNeighbors
    Remote <- MCRemote
    Dropping = {2}
    Rewriting = {4}
    MachineOf <- MCMachineOf
    Limits <- MCLimits
    Deliveries = 2
INVARIANTS TypeOK AtMostOnce PathKept DropSticks TotalIsTotal
PROPERTY AllDelivered
CHECK_DEADLOCK FALSE
