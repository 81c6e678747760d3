SPECIFICATION Spec
CONSTANTS
    ActionTable <- MCActionTable
    Inputs <- MCBypass
INVARIANT OrderKept
CHECK_DEADLOCK FALSE
