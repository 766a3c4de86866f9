\* Nothing fails at all.
SPECIFICATION FairSpec
CONSTANTS
    MaxTicks = 1
    DateTimeStamps = {s1}
    ShortStamps = {}
    ApiMayFail = FALSE
    LinkMayFail = FALSE
    ServerMayRefuse = FALSE
    Compiler = "_MSC_VER"
    KernelApc = FALSE
PROPERTIES
    ReadyReleasesRun
CHECK_DEADLOCK FALSE
