\* Everything may fail; three ticks, two of which share a time stamp or not.
SPECIFICATION Spec
CONSTANTS
    MaxTicks = 3
    DateTimeStamps = {s1, s2}
    ShortStamps = {bad}
    ApiMayFail = TRUE
    LinkMayFail = TRUE
    ServerMayRefuse = TRUE
    Compiler = "_MSC_VER"
    KernelApc = TRUE
SYMMETRY StampSymmetry
INVARIANTS
    TypeOK
    SubscribesOnlyWhenReady
    RunEndsWithCause
    LossIsASuffix
    FiledWasAnnounced
    RepliesBounded
    DiesOfRedisOnlyAtStart
    KeysTellTheTruth
    RelayOrder
PROPERTIES
    ImplementsTickRelay
CHECK_DEADLOCK FALSE
