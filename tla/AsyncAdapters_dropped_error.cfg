SPECIFICATION FairSpec
CONSTANTS
    AttachMayFail = FALSE
    Adapters = {"libuv"}
    MaxCommands = 1
    LinkMayFail = TRUE
    OwnerMayLeave = FALSE
PROPERTIES
    ErrorCallsPendingCallbacks
CHECK_DEADLOCK FALSE
