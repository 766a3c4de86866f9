---------------------------- MODULE SimpleEvent ----------------------------
(***************************************************************************)
(* The event of SimpleEvent.cpp, on which Quote::Run waits for the login   *)
(* sequence to end.  The file holds two implementations, chosen by the     *)
(* preprocessor:                                                           *)
(*                                                                         *)
(*  - _MSC_VER: a manual-reset kernel event.  SignalEvent is PulseEvent,   *)
(*    which releases the threads blocked at that instant and leaves the    *)
(*    event unsignalled; WaitEvent is WaitForSingleObject.                 *)
(*  - __GNUC__: a condition variable, a mutex and the flag bIsSignal,      *)
(*    which WaitEvent clears on entry.                                     *)
(*                                                                         *)
(* A critical section of the pthread version is one step: nothing it       *)
(* touches is visible outside the mutex.                                   *)
(***************************************************************************)
EXTENDS Naturals

CONSTANTS
    Threads,    \* the threads that may call WaitEvent
    Compiler,   \* which branch of the #ifdef is built
    KernelApc   \* TRUE: a blocked thread may be borrowed by a kernel-mode APC

ASSUME CompilerAssumption == Compiler \in {"_MSC_VER", "__GNUC__"}
ASSUME KernelApcAssumption == KernelApc \in BOOLEAN

VARIABLES
    phase,      \* where each thread stands with respect to WaitEvent
    bIsSignal,  \* the flag of the pthread version; stays FALSE under _MSC_VER
    signalled   \* history: a SignalEvent ran since the thread entered WaitEvent

eventVars == <<phase, bIsSignal, signalled>>

Phases == {"running",   \* outside WaitEvent
           "blocked",   \* in WaitForSingleObject or pthread_cond_wait
           "apc",       \* taken off the event's wait list by a kernel APC
           "woken"}     \* released, still inside WaitEvent

EventTypeOK ==
    /\ phase \in [Threads -> Phases]
    /\ bIsSignal \in BOOLEAN
    /\ signalled \in [Threads -> BOOLEAN]

EventInit ==
    /\ phase = [t \in Threads |-> "running"]
    /\ bIsSignal = FALSE
    /\ signalled = [t \in Threads |-> FALSE]

Waiting(t) == phase[t] # "running"

-----------------------------------------------------------------------------
(* Mutant: the flag is not cleared on entry. *)
WaitEventKeepsFlag(t) ==
    /\ phase[t] = "running"
    /\ phase' = [phase EXCEPT ![t] = "blocked"]
    /\ signalled' = [signalled EXCEPT ![t] = FALSE]
    /\ UNCHANGED bIsSignal

(* WaitEvent up to the point where the thread sleeps. *)
WaitEvent(t) ==
    /\ phase[t] = "running"
    /\ phase' = [phase EXCEPT ![t] = "blocked"]
    /\ bIsSignal' = FALSE
    /\ signalled' = [signalled EXCEPT ![t] = FALSE]

(* Mutant: the event is reset before it is set. *)
PulseEventUnheard == UNCHANGED <<phase, bIsSignal>>

(* PulseEvent: every thread blocked now is released and the event is reset,
   so a thread that is not blocked now never learns of the pulse. *)
PulseEvent ==
    /\ phase' = [t \in Threads |->
                    IF phase[t] = "blocked" THEN "woken" ELSE phase[t]]
    /\ UNCHANGED bIsSignal

(* Mutant: the waiter is woken but the flag is not raised. *)
CondSignalNoFlag ==
    /\ IF \E t \in Threads : phase[t] = "blocked"
       THEN \E t \in Threads :
               phase[t] = "blocked" /\ phase' = [phase EXCEPT ![t] = "woken"]
       ELSE UNCHANGED phase
    /\ UNCHANGED bIsSignal

(* bIsSignal = true; pthread_cond_signal, which unblocks one waiter if any. *)
CondSignal ==
    /\ bIsSignal' = TRUE
    /\ IF \E t \in Threads : phase[t] = "blocked"
       THEN \E t \in Threads :
               /\ phase[t] = "blocked"
               /\ phase' = [phase EXCEPT ![t] = "woken"]
       ELSE UNCHANGED phase

SignalEvent ==
    /\ \/ Compiler = "_MSC_VER" /\ PulseEvent
       \/ Compiler = "__GNUC__" /\ CondSignal
    /\ signalled' = [t \in Threads |-> Waiting(t)]

(* pthread_cond_wait may return although nobody signalled. *)
SpuriousWakeup(t) ==
    /\ Compiler = "__GNUC__"
    /\ phase[t] = "blocked"
    /\ phase' = [phase EXCEPT ![t] = "woken"]
    /\ UNCHANGED <<bIsSignal, signalled>>

(* while (!bIsSignal): a waiter that finds the flag down sleeps again. *)
WaitAgain(t) ==
    /\ Compiler = "__GNUC__"
    /\ phase[t] = "woken"
    /\ ~bIsSignal
    /\ phase' = [phase EXCEPT ![t] = "blocked"]
    /\ UNCHANGED <<bIsSignal, signalled>>

(* Mutant: WaitForSingleObject with a time limit that is not looked at. *)
WaitTimesOut(t) ==
    /\ phase[t] \in {"blocked", "woken"}
    /\ phase' = [phase EXCEPT ![t] = "running"]
    /\ UNCHANGED <<bIsSignal, signalled>>

(* WaitEvent returns to its caller. *)
WaitReturn(t) ==
    /\ phase[t] = "woken"
    /\ Compiler = "__GNUC__" => bIsSignal
    /\ phase' = [phase EXCEPT ![t] = "running"]
    /\ UNCHANGED <<bIsSignal, signalled>>

(* The kernel borrows a waiting thread to run an APC and puts it back: a
   PulseEvent in between does not see it.  This is Windows, not the code. *)
ApcBegin(t) ==
    /\ Compiler = "_MSC_VER" /\ KernelApc
    /\ phase[t] = "blocked"
    /\ phase' = [phase EXCEPT ![t] = "apc"]
    /\ UNCHANGED <<bIsSignal, signalled>>

ApcEnd(t) ==
    /\ phase[t] = "apc"
    /\ phase' = [phase EXCEPT ![t] = "blocked"]
    /\ UNCHANGED <<bIsSignal, signalled>>

(* What a waiting thread does on its own, without WaitEvent's caller. *)
WaitInternal(t) ==
    \/ SpuriousWakeup(t)
    \/ WaitAgain(t)
    \/ ApcBegin(t)
    \/ ApcEnd(t)

EventNext ==
    \/ SignalEvent
    \/ \E t \in Threads : WaitEvent(t) \/ WaitInternal(t) \/ WaitReturn(t)

EventSpec == EventInit /\ [][EventNext]_eventVars

-----------------------------------------------------------------------------
(* WaitEvent (SimpleEvent.cpp:20, :54) never returns to its caller unless some
   thread called SignalEvent after this very call began: neither a spurious
   wakeup nor a signal left over from an earlier wait lets it through. *)
WaitReturnsOnlyIfSignalled ==
    [][\A t \in Threads :
          (Waiting(t) /\ ~Waiting(t)') => signalled[t]]_eventVars

(* What makes the previous property inductive: a raised flag, or a released
   thread under PulseEvent, is evidence of a signal during the wait. *)
SignalEvidence ==
    \A t \in Threads :
        /\ (Waiting(t) /\ bIsSignal) => signalled[t]
        /\ (Compiler = "_MSC_VER" /\ phase[t] = "woken") => signalled[t]

(* SignalEvent (SimpleEvent.cpp:15, :46) reaches the threads it finds asleep:
   a pulse leaves no sleeper behind, except one inside a kernel APC; the
   condition variable leaves one behind only with the flag up (it sleeps on
   and another waiter was chosen) or if a later WaitEvent lowered the flag
   again, which puts a waiter that has not been signalled in the room. *)
SignalIsNotForgotten ==
    \A t \in Threads :
        (phase[t] = "blocked" /\ signalled[t]) =>
            \/ bIsSignal
            \/ Compiler = "_MSC_VER" /\ KernelApc
            \/ \E u \in Threads : Waiting(u) /\ ~signalled[u]
=============================================================================
