SPECIFICATION ConnSpec
CONSTANTS
    LinkMayFail = TRUE
    ServerMayRefuse = TRUE
INVARIANTS
    ConnTypeOK
    OneContext
    RepliesAreFreed
    ErrorTellsOutcome
PROPERTIES
    BrokenUntilReconnect
    ImplementsSession
CHECK_DEADLOCK FALSE
