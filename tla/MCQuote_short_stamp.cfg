\* The server sends a tick with a short time stamp.
SPECIFICATION Spec
CONSTANTS
    MaxTicks = 1
    DateTimeStamps = {s1}
    ShortStamps = {bad}
    ApiMayFail = FALSE
    LinkMayFail = FALSE
    ServerMayRefuse = FALSE
    Compiler = "_MSC_VER"
    KernelApc = FALSE
INVARIANTS
    InvalidStampIsNotConverted
CHECK_DEADLOCK FALSE
