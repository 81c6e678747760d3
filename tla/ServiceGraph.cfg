SPECIFICATION FairSpec
CONSTANTS
    ActionTable <- MCActionTable
    Inputs <- MCInputs
INVARIANTS TypeOK TreesKeepOrder OneCopy ItemsMeet LastIsLeaf FeedsMergePacket
PROPERTY Builds
CHECK_DEADLOCK FALSE
