\* The Windows event without kernel APCs; everything else may fail.
SPECIFICATION FairSpec
CONSTANTS
    MaxTicks = 1
    DateTimeStamps = {s1}
    ShortStamps = {bad}
    ApiMayFail = TRUE
    LinkMayFail = TRUE
    ServerMayRefuse = TRUE
    Compiler = "_MSC_VER"
    KernelApc = FALSE
INVARIANTS
    SignalledRunIsAwake
PROPERTIES
    WaitingRunIsReleased
CHECK_DEADLOCK FALSE
