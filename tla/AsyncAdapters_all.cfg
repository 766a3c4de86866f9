SPECIFICATION FairSpec
CONSTANTS
    AttachMayFail = TRUE
    Adapters = {"ae", "glib", "ivykis", "libev", "libevent", "libuv", "macosx", "qt"}
    MaxCommands = 3
    LinkMayFail = TRUE
    OwnerMayLeave = TRUE
INVARIANTS
    AsyncTypeOK
    FreedContextIsLeftAlone
    HooksFindTheirRecord
    NothingOutlivesTheContext
    WorkIsWatched
    OnlyOutputIsWatchedFor
PROPERTIES
    PendingIsAnswered
    NoBusyLoop
CHECK_DEADLOCK FALSE
