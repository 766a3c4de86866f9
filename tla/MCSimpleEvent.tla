--------------------------- MODULE MCSimpleEvent ---------------------------
(***************************************************************************)
(* Both branches of the #ifdef of SimpleEvent.cpp in one model: the build  *)
(* is chosen at the start and decides whether the threads share the        *)
(* pthread event, which this module extends, or the kernel event.          *)
(***************************************************************************)
EXTENDS SimpleEvent

VARIABLES
    built,        \* the compiler that is defined
    kernelPhase,  \* the kernel event's variables
    kernelFlag,
    kernelSignalled

kernelVars == <<kernelPhase, kernelFlag, kernelSignalled>>

Kernel == INSTANCE SimpleEvent WITH
    Compiler  <- "_MSC_VER",
    phase     <- kernelPhase,
    bIsSignal <- kernelFlag,
    signalled <- kernelSignalled

BuildsInit ==
    /\ built \in {"__GNUC__", "_MSC_VER"}
    /\ EventInit
    /\ Kernel!EventInit

BuildsNext ==
    \/ built = "__GNUC__" /\ EventNext /\ UNCHANGED <<built, kernelVars>>
    \/ built = "_MSC_VER" /\ Kernel!EventNext /\ UNCHANGED <<built, eventVars>>

BuildsSpec == BuildsInit /\ [][BuildsNext]_<<built, eventVars, kernelVars>>

(* The Windows branch (SimpleEvent.cpp:20): WaitForSingleObject returns to its
   caller only after a pulse of its own, wherever APCs take the thread. *)
PulseReturnsOnlyIfSignalled == Kernel!WaitReturnsOnlyIfSignalled
=============================================================================
