-------------------------- MODULE SimpleEventProofs --------------------------
(***************************************************************************)
(* Proofs about SimpleEvent, for every set of threads, both compilers and  *)
(* with or without kernel APCs.                                            *)
(***************************************************************************)
EXTENDS SimpleEvent, TLAPS

(* The variables of SimpleEvent keep their types. *)
THEOREM TypeCorrect == EventSpec => []EventTypeOK
<1>1. EventInit => EventTypeOK
  BY DEF EventInit, EventTypeOK, Phases
<1>2. EventTypeOK /\ [EventNext]_eventVars => EventTypeOK'
  <2> SUFFICES ASSUME EventTypeOK, [EventNext]_eventVars
               PROVE  EventTypeOK'
    OBVIOUS
  <2> USE DEF EventTypeOK, Phases
  <2>1. CASE SignalEvent
    <3>1. signalled' \in [Threads -> BOOLEAN] /\ bIsSignal' \in BOOLEAN
      BY <2>1 DEF SignalEvent, Waiting, PulseEvent, CondSignal
    <3>2. phase' \in [Threads -> Phases]
      BY <2>1 DEF SignalEvent, PulseEvent, CondSignal
    <3> QED BY <3>1, <3>2
  <2>2. ASSUME NEW t \in Threads, WaitEvent(t) \/ WaitReturn(t)
        PROVE  EventTypeOK'
    BY <2>2 DEF WaitEvent, WaitReturn
  <2>3. ASSUME NEW t \in Threads, WaitInternal(t)
        PROVE  EventTypeOK'
    BY <2>3 DEF WaitInternal, SpuriousWakeup, WaitAgain, ApcBegin, ApcEnd
  <2>4. CASE UNCHANGED eventVars
    BY <2>4 DEF eventVars
  <2> QED BY <2>1, <2>2, <2>3, <2>4 DEF EventNext
<1> QED BY <1>1, <1>2, PTL DEF EventSpec

-----------------------------------------------------------------------------
(* One step keeps the evidence: a flag that is up, or a thread that a pulse
   released, shows that SignalEvent ran during the wait. *)
LEMMA EvidenceStep ==
    ASSUME EventTypeOK, SignalEvidence, [EventNext]_eventVars
    PROVE  SignalEvidence'
<1> USE DEF EventTypeOK, SignalEvidence, Waiting
<1>1. CASE SignalEvent
  BY <1>1 DEF SignalEvent, PulseEvent, CondSignal
<1>2. ASSUME NEW t \in Threads, WaitEvent(t)
      PROVE  SignalEvidence'
  BY <1>2 DEF WaitEvent
<1>3. ASSUME NEW t \in Threads, WaitReturn(t)
      PROVE  SignalEvidence'
  BY <1>3 DEF WaitReturn
<1>4. ASSUME NEW t \in Threads, WaitInternal(t)
      PROVE  SignalEvidence'
  BY <1>4 DEF WaitInternal, SpuriousWakeup, WaitAgain, ApcBegin, ApcEnd
<1>5. CASE UNCHANGED eventVars
  BY <1>5 DEF eventVars
<1> QED BY <1>1, <1>2, <1>3, <1>4, <1>5 DEF EventNext

THEOREM EvidenceInvariant == EventSpec => []SignalEvidence
<1>1. EventInit => SignalEvidence
  BY DEF EventInit, SignalEvidence, Waiting
<1> QED BY <1>1, EvidenceStep, TypeCorrect, PTL DEF EventSpec

(* A thread ends its wait only by WaitReturn, and then it was released: by a
   pulse, or because it found the flag up. *)
LEMMA ReturnNeedsSignal ==
    ASSUME EventTypeOK, SignalEvidence, EventNext, NEW t \in Threads,
           Waiting(t), ~Waiting(t)'
    PROVE  signalled[t]
<1> USE DEF EventTypeOK, Waiting
<1>1. CASE SignalEvent
  BY <1>1 DEF SignalEvent, PulseEvent, CondSignal
<1>2. ASSUME NEW u \in Threads, WaitEvent(u) \/ WaitInternal(u)
      PROVE  signalled[t]
  BY <1>2 DEF WaitEvent, WaitInternal, SpuriousWakeup, WaitAgain, ApcBegin, ApcEnd
<1>3. ASSUME NEW u \in Threads, WaitReturn(u)
      PROVE  signalled[t]
  <2>1. u = t
    BY <1>3 DEF WaitReturn
  <2>2. phase[t] = "woken" /\ (Compiler = "__GNUC__" => bIsSignal)
    BY <1>3, <2>1 DEF WaitReturn
  <2> QED BY <2>2, CompilerAssumption DEF SignalEvidence
<1> QED BY <1>1, <1>2, <1>3 DEF EventNext

(* WaitEvent never returns without a SignalEvent that came after it was called,
   whichever branch of SimpleEvent.cpp is built. *)
THEOREM NoReturnWithoutSignal == EventSpec => WaitReturnsOnlyIfSignalled
<1>1. EventTypeOK /\ SignalEvidence /\ [EventNext]_eventVars
        => [\A t \in Threads :
              (Waiting(t) /\ ~Waiting(t)') => signalled[t]]_eventVars
  BY ReturnNeedsSignal
<1> QED
  BY <1>1, TypeCorrect, EvidenceInvariant, PTL
     DEF EventSpec, WaitReturnsOnlyIfSignalled

-----------------------------------------------------------------------------
(* What makes SignalIsNotForgotten inductive.  Under __GNUC__ it holds of every
   waiter, asleep or not.  Under _MSC_VER only a kernel APC takes a thread off
   the wait list, so without APCs no sleeper has been signalled. *)
Remembered ==
    /\ \A t \in Threads :
          (Waiting(t) /\ signalled[t]) =>
             \/ bIsSignal
             \/ Compiler = "_MSC_VER"
             \/ \E u \in Threads : Waiting(u) /\ ~signalled[u]
    /\ (Compiler = "_MSC_VER" /\ ~KernelApc) =>
          \A t \in Threads :
             /\ phase[t] # "apc"
             /\ phase[t] = "blocked" => ~signalled[t]

LEMMA RememberedStep ==
    ASSUME EventTypeOK, SignalEvidence, Remembered, [EventNext]_eventVars
    PROVE  Remembered'
<1> USE DEF EventTypeOK, Remembered, Waiting
<1>1. CASE SignalEvent
  BY <1>1 DEF SignalEvent, PulseEvent, CondSignal
<1>2. ASSUME NEW t \in Threads, WaitEvent(t)
      PROVE  Remembered'
  BY <1>2 DEF WaitEvent
<1>3. ASSUME NEW t \in Threads, WaitReturn(t)
      PROVE  Remembered'
  <2>1. signalled[t]
    BY <1>3, CompilerAssumption DEF WaitReturn, SignalEvidence
  <2> QED BY <1>3, <2>1 DEF WaitReturn
<1>4. ASSUME NEW t \in Threads, WaitInternal(t)
      PROVE  Remembered'
  BY <1>4 DEF WaitInternal, SpuriousWakeup, WaitAgain, ApcBegin, ApcEnd
<1>5. CASE UNCHANGED eventVars
  BY <1>5 DEF eventVars
<1> QED BY <1>1, <1>2, <1>3, <1>4, <1>5 DEF EventNext

(* SignalEvent reaches every thread it finds asleep, but for a kernel APC or a
   later WaitEvent that lowers the flag. *)
THEOREM SignalRemembered == EventSpec => []SignalIsNotForgotten
<1>1. EventInit => Remembered
  BY DEF EventInit, Remembered, Waiting
<1>2. Remembered => SignalIsNotForgotten
  BY CompilerAssumption, KernelApcAssumption
     DEF Remembered, SignalIsNotForgotten, Waiting
<1> QED
  BY <1>1, <1>2, RememberedStep, TypeCorrect, EvidenceInvariant, PTL
     DEF EventSpec
=============================================================================
