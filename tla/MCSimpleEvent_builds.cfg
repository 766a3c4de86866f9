\* Three threads, either build, spurious wakeups and APCs.
SPECIFICATION BuildsSpec
CONSTANTS
    Threads = {t1, t2, t3}
    Compiler = "__GNUC__"
    KernelApc = TRUE
INVARIANTS
    SignalIsNotForgotten
PROPERTIES
    WaitReturnsOnlyIfSignalled
    PulseReturnsOnlyIfSignalled
