SPECIFICATION FairSpec
CONSTANT Requests <- MCRequests
INVARIANTS TypeOK RendersOnce RendersAll
PROPERTY Answers
CHECK_DEADLOCK FALSE
