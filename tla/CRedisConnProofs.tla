-------------------------- MODULE CRedisConnProofs --------------------------
(***************************************************************************)
(* Proofs about the connection half of CRedisConn, for every sequence of   *)
(* calls and every choice of what may fail.                                *)
(***************************************************************************)
EXTENDS CRedisConn, TLAPS

USE DEF Count, Callable

-----------------------------------------------------------------------------
(* A call in progress owns the one reply there is; without a reply the context
   is in error, and on a context in error there is no reply. *)
CallInv ==
    /\ op = "none" => replies = 0 /\ reply = "none"
    /\ op # "none" => /\ reply \in Redis!Replies
                      /\ replies = Count(reply # "NULL")
                      /\ reply = "NULL" <=> _redCtx = "err"
                      /\ _redCtx # "NULL"

ConnInv ==
    /\ ConnTypeOK
    /\ OneContext
    /\ CallInv
    /\ ErrorTellsOutcome

(* A command does not replace its context, puts a reply on the heap unless the
   context ends in error, and never finds a context that was in error usable. *)
LEMMA CommandEnds ==
    ASSUME Redis!HiredisTypeOK, NEW outcome \in Redis!Outcomes,
           Redis!Command(outcome) \/ Redis!Auth(outcome)
    PROVE  /\ Redis!HiredisTypeOK'
           /\ _redCtx # "NULL" /\ _redCtx' # "NULL"
           /\ Redis!ReplyTo(outcome) \in Redis!Replies
           /\ Redis!ReplyTo(outcome) = "NULL" <=> _redCtx' = "err"
BY DEF Redis!HiredisTypeOK, Redis!ContextStates, Redis!Outcomes, Redis!Replies,
       Redis!Command, Redis!MayEnd, Redis!Auth, Redis!AuthMayEnd,
       Redis!Executes, Redis!ReplyTo

LEMMA Initial == ConnInit => ConnInv
<1> SUFFICES ASSUME ConnInit PROVE ConnInv
  OBVIOUS
<1>1. ConnTypeOK
  BY DEF ConnInit, ConnTypeOK, ErrorKinds, Results, Redis!HiredisInit,
         Redis!HiredisTypeOK, Redis!ContextStates
<1>2. _connected <=> _redCtx # "NULL"
  BY DEF ConnInit, Redis!HiredisInit
<1>3. contexts = Count(_redCtx # "NULL")
  BY DEF ConnInit, Redis!HiredisInit
<1>4. CallInv /\ ErrorTellsOutcome
  BY DEF ConnInit, CallInv, ErrorTellsOutcome, Redis!HiredisInit
<1> QED BY <1>1, <1>2, <1>3, <1>4 DEF ConnInv, OneContext

-----------------------------------------------------------------------------
(* connect leaves one context or none, and frees the one before. *)
LEMMA EstablishKeeps ==
    ASSUME ConnInv, Callable, Establish, _password' \in BOOLEAN,
           UNCHANGED <<op, reply, replies>>
    PROVE  ConnInv'
<1>1. PICK c \in Redis!ConnectOutcomes :
          /\ _redCtx' = IF c = "ok" THEN "ok" ELSE "NULL"
          /\ admitted' \in Redis!Admission(c)
          /\ queueing' = FALSE
          /\ _connected' = (c = "ok")
          /\ contexts' = contexts - FreedByConnect + Count(c = "ok")
          /\ _errStr' = CASE c = "ok"   -> "ERR_NO_ERROR"
                          [] c = "err"  -> "errstr"
                          [] c = "NULL" -> "ERR_NULL"
          /\ result' = IF c = "ok" THEN "true" ELSE "false"
  BY DEF Establish
<1>2. c \in {"NULL", "ok", "err"}
  BY DEF Redis!ConnectOutcomes, Redis!ContextStates
<1>3. contexts - FreedByConnect = 0
  BY DEF ConnInv, ConnTypeOK, OneContext, FreedByConnect, FreedByDisConnect
<1>4. OneContext'
  <2>1. _connected' <=> _redCtx' # "NULL"
    BY <1>1
  <2>2. contexts' = Count(_redCtx' # "NULL")
    BY <1>1, <1>3
  <2> QED BY <2>1, <2>2 DEF OneContext
<1>5. ConnTypeOK'
  <2>1. Redis!HiredisTypeOK'
    BY <1>1, <1>2 DEF Redis!HiredisTypeOK, Redis!ContextStates, Redis!Admission
  <2>2. contexts' \in Nat
    BY <1>1, <1>3
  <2>3. /\ _errStr' \in ErrorKinds /\ result' \in Results
        /\ _connected' \in BOOLEAN /\ queueing' \in BOOLEAN
    BY <1>1, <1>2 DEF ErrorKinds, Results
  <2> QED BY <2>1, <2>2, <2>3 DEF ConnInv, ConnTypeOK
<1>6. CallInv'
  BY DEF ConnInv, CallInv
<1>7. ErrorTellsOutcome'
  BY <1>1, <1>2 DEF ErrorTellsOutcome
<1> QED BY <1>4, <1>5, <1>6, <1>7 DEF ConnInv

(* disConnect leaves no context, and frees the one there was. *)
LEMMA DropKeeps ==
    ASSUME ConnInv, Callable, DropContext, result' \in {"void", "destroyed"},
           UNCHANGED <<_password, _errStr, op, reply, replies>>
    PROVE  ConnInv'
<1>1. _redCtx' = "NULL" /\ _connected' = FALSE /\ contexts' = 0
      /\ admitted' \in BOOLEAN /\ queueing' \in BOOLEAN
  BY DEF ConnInv, ConnTypeOK, OneContext, DropContext, FreedByDisConnect,
         Redis!HiredisTypeOK
<1>2. ConnTypeOK'
  BY <1>1 DEF ConnInv, ConnTypeOK, Redis!HiredisTypeOK, Redis!ContextStates,
              Results
<1>3. CallInv'
  BY DEF ConnInv, CallInv
<1>4. OneContext'
  BY <1>1 DEF OneContext
<1>5. ErrorTellsOutcome'
  BY DEF ErrorTellsOutcome
<1> QED BY <1>2, <1>3, <1>4, <1>5 DEF ConnInv

LEMMA ConnectionStepKeeps ==
    ASSUME ConnInv, ConnectionStep
    PROVE  ConnInv'
<1>1. CASE init
  <2>1. ConnTypeOK'
    BY <1>1 DEF init, ConnInv, ConnTypeOK, Results, Redis!HiredisTypeOK
  <2>2. OneContext' /\ CallInv' /\ ErrorTellsOutcome'
    BY <1>1 DEF init, ConnInv, OneContext, CallInv, ErrorTellsOutcome
  <2> QED BY <2>1, <2>2 DEF ConnInv
<1>2. CASE connect \/ connectTo
  <2>1. _password' \in BOOLEAN
    BY <1>2 DEF connect, connectTo, ConnInv, ConnTypeOK
  <2> QED BY <1>2, <2>1, EstablishKeeps DEF connect, connectTo
<1>3. CASE disConnect \/ destroy
  BY <1>3, DropKeeps DEF disConnect, destroy
<1> QED BY <1>1, <1>2, <1>3 DEF ConnectionStep

-----------------------------------------------------------------------------
(* A call that finds no connection is turned away before it asks the server, or
   is a redisCmd that dies; no other call is made on a NULL context. *)
LEMMA CallStepKeeps ==
    ASSUME ConnInv, NEW o \in Operations, CallStep(o)
    PROVE  ConnInv'
<1>1. CASE NotConnected(o)
  <2>1. _redCtx = "NULL"
    BY <1>1 DEF NotConnected, TurnedAway, ConnInv, OneContext
  <2>2. ConnTypeOK'
    BY <1>1 DEF NotConnected, ConnInv, ConnTypeOK, ErrorKinds, Results,
                Redis!HiredisTypeOK
  <2>3. OneContext' /\ CallInv' /\ ErrorTellsOutcome'
    BY <1>1, <2>1 DEF NotConnected, ConnInv, OneContext, CallInv,
                      ErrorTellsOutcome
  <2> QED BY <2>2, <2>3 DEF ConnInv
<1>2. CASE NullContext(o)
  <2>1. ConnTypeOK'
    BY <1>2 DEF NullContext, ConnInv, ConnTypeOK, Results, Redis!HiredisTypeOK
  <2>2. OneContext' /\ CallInv' /\ ErrorTellsOutcome'
    BY <1>2 DEF NullContext, ConnInv, OneContext, CallInv, ErrorTellsOutcome
  <2> QED BY <2>1, <2>2 DEF ConnInv
<1>3. CASE \E outcome \in Redis!Outcomes : RoundTrip(o, outcome)
  <2>1. PICK outcome \in Redis!Outcomes : RoundTrip(o, outcome)
    BY <1>3
  <2>2. Redis!Command(outcome) \/ Redis!Auth(outcome)
    BY <2>1 DEF RoundTrip
  <2>3. Redis!HiredisTypeOK
    BY DEF ConnInv, ConnTypeOK
  <2>4. /\ Redis!HiredisTypeOK'
        /\ _redCtx # "NULL" /\ _redCtx' # "NULL"
        /\ Redis!ReplyTo(outcome) \in Redis!Replies
        /\ Redis!ReplyTo(outcome) = "NULL" <=> _redCtx' = "err"
    BY <2>2, <2>3, CommandEnds
  <2>5. CallInv' /\ replies' \in Nat /\ op' # "none"
    BY <2>1, <2>4 DEF RoundTrip, ConnInv, CallInv, Operations
  <2>6. ConnTypeOK'
    BY <2>1, <2>4, <2>5 DEF RoundTrip, TransactionStep, ConnInv, ConnTypeOK
  <2>7. OneContext' /\ ErrorTellsOutcome'
    BY <2>1, <2>4, <2>5 DEF RoundTrip, ConnInv, OneContext, ErrorTellsOutcome
  <2> QED BY <2>5, <2>6, <2>7 DEF ConnInv
<1> QED BY <1>1, <1>2, <1>3 DEF CallStep

(* A call ends without its reply, whatever it makes of it. *)
LEMMA ReturnStepKeeps ==
    ASSUME ConnInv, ReturnStep
    PROVE  ConnInv'
<1>1. op # "none" /\ Finish
  BY DEF ReturnStep, NullReturn, ErrorReturn, TrueReturn, NotFoundReturn,
         QueuedReturn, RawReturn
<1>2. _errStr' \in ErrorKinds /\ result' \in Results
  BY DEF ReturnStep, NullReturn, ErrorReturn, TrueReturn, NotFoundReturn,
         QueuedReturn, RawReturn, ErrorKinds, MethodErrors, Results, ConnInv,
         ConnTypeOK
<1>3. CallInv' /\ replies' = 0
  BY <1>1 DEF Finish, FreedReply, ConnInv, CallInv, Redis!Replies
<1>4. ConnTypeOK'
  BY <1>1, <1>2, <1>3 DEF Finish, ConnInv, ConnTypeOK, Redis!HiredisTypeOK
<1>5. OneContext'
  BY <1>1 DEF Finish, ConnInv, OneContext
<1>6. ErrorTellsOutcome'
  BY DEF ReturnStep, NullReturn, ErrorReturn, TrueReturn, NotFoundReturn,
         QueuedReturn, RawReturn, Finish, MethodErrors, ErrorTellsOutcome
<1> QED BY <1>3, <1>4, <1>5, <1>6 DEF ConnInv

LEMMA StutterKeeps ==
    ASSUME ConnInv, UNCHANGED connVars
    PROVE  ConnInv'
<1>1. ConnTypeOK'
  BY DEF connVars, ConnInv, ConnTypeOK, Redis!HiredisTypeOK
<1> QED
  BY <1>1 DEF connVars, ConnInv, OneContext, CallInv, ErrorTellsOutcome

THEOREM ConnInvariance == ConnSpec => []ConnInv
<1>1. ConnInit => ConnInv
  BY Initial
<1>2. ConnInv /\ [ConnNext]_connVars => ConnInv'
  BY ConnectionStepKeeps, CallStepKeeps, ReturnStepKeeps, StutterKeeps DEF ConnNext
<1> QED BY <1>1, <1>2, PTL DEF ConnSpec

-----------------------------------------------------------------------------
(* The variables of CRedisConn keep their types; nothing is freed twice. *)
THEOREM ConnTypes == ConnSpec => []ConnTypeOK
<1>1. ConnInv => ConnTypeOK
  BY DEF ConnInv
<1> QED BY <1>1, ConnInvariance, PTL

(* _connected and _redCtx agree, and the object holds the only context it has
   allocated and not freed (CRedisConn.cpp:104-151). *)
THEOREM ConnectionIsOne == ConnSpec => []OneContext
<1>1. ConnInv => OneContext
  BY DEF ConnInv
<1> QED BY <1>1, ConnInvariance, PTL

(* No call leaks its reply, by an exception or otherwise. *)
THEOREM NothingLeaks == ConnSpec => []RepliesAreFreed
<1>1. ConnInv => RepliesAreFreed
  BY DEF ConnInv, CallInv, RepliesAreFreed
<1> QED BY <1>1, ConnInvariance, PTL

(* getErrorStr tells of the last call, but for false results inside of a
   transaction (CRedisConn.cpp:529-532). *)
THEOREM ErrorIsCurrent == ConnSpec => []ErrorTellsOutcome
<1>1. ConnInv => ErrorTellsOutcome
  BY DEF ConnInv
<1> QED BY <1>1, ConnInvariance, PTL

(* A call that comes back over a broken link has no reply to go by (CallInv). *)
LEMMA ReturnTellsFailure ==
    ASSUME ConnInv, ReturnStep, _redCtx = "err"
    PROVE  _redCtx' = "err" /\ result' \in Failures(op)
<1>1. op # "none" /\ Finish
  BY DEF ReturnStep, NullReturn, ErrorReturn, TrueReturn, NotFoundReturn,
         QueuedReturn, RawReturn
<1>2. reply = "NULL"
  BY <1>1 DEF ConnInv, CallInv
<1> QED BY <1>1, <1>2 DEF ReturnStep, NullReturn, ErrorReturn, TrueReturn,
           NotFoundReturn, QueuedReturn, RawReturn, Finish, Failures

(* A call of redisCommand leaves a context in error as it is. *)
LEMMA RoundTripLeavesErrors ==
    ASSUME NEW o, NEW outcome, RoundTrip(o, outcome), _redCtx = "err"
    PROVE  _redCtx' = "err" /\ op = "none"
BY DEF RoundTrip, Redis!Auth, Redis!AuthMayEnd, Redis!Command, Redis!MayEnd

(* After a failure of the link every call says so, until connect (CRedisConn.cpp
   :41-42, :106-115). *)
THEOREM BrokenStaysBroken == ConnSpec => BrokenUntilReconnect
<1> DEFINE Step == _redCtx = "err" =>
              /\ op # "none" /\ op' = "none" => result' \in Failures(op)
              /\ _redCtx' = "ok" => op = "none" /\ result' = "true"
<1>1. ASSUME ConnInv, ConnNext PROVE Step
  <2>1. CASE ConnectionStep
    BY <2>1 DEF ConnectionStep, init, connect, connectTo, disConnect, destroy,
                Establish, DropContext
  <2>2. CASE \E o \in Operations : CallStep(o)
    BY <2>2, RoundTripLeavesErrors DEF CallStep, NotConnected, NullContext
  <2>3. CASE ReturnStep
    BY <1>1, <2>3, ReturnTellsFailure
  <2> QED BY <1>1, <2>1, <2>2, <2>3 DEF ConnNext
<1>2. ConnInv /\ [ConnNext]_connVars => [Step]_connVars
  BY <1>1
<1> QED BY <1>2, ConnInvariance, PTL DEF ConnSpec, BrokenUntilReconnect

-----------------------------------------------------------------------------
(* The session as its contract sees it. *)
LEMMA LinkStates ==
    ASSUME ConnTypeOK
    PROVE  _redCtx \in {"NULL", "ok", "err"}
BY DEF ConnTypeOK, Redis!HiredisTypeOK, Redis!ContextStates

LEMMA ConnectionIsASessionStep ==
    ASSUME ConnInv, ConnectionStep
    PROVE  Contract!SessionNext
<1>1. CASE init
  BY <1>1 DEF init, Contract!Configure, Contract!AtRest, Contract!SessionNext
<1>2. CASE connect \/ connectTo
  <2>1. Establish /\ Callable /\ op' = op
    BY <1>2 DEF connect, connectTo
  <2>2. \/ _redCtx' = "ok" /\ result' = "true"
        \/ _redCtx' = "NULL" /\ result' = "false"
    BY <2>1 DEF Establish
  <2> QED BY <2>1, <2>2 DEF Contract!Open, Contract!AtRest, Contract!SessionNext
<1>3. CASE disConnect \/ destroy
  <2>1. DropContext /\ Callable /\ op' = op /\ result' \in {"void", "destroyed"}
    BY <1>3 DEF disConnect, destroy
  <2>2. _redCtx' = "NULL"
    BY <2>1 DEF ConnInv, OneContext, DropContext
  <2> QED BY <2>1, <2>2 DEF Contract!Close, Contract!AtRest, Contract!SessionNext
<1> QED BY <1>1, <1>2, <1>3 DEF ConnectionStep

LEMMA CallIsASessionStep ==
    ASSUME ConnInv, NEW o \in Operations, CallStep(o)
    PROVE  Contract!SessionNext
<1>1. CASE NotConnected(o)
  <2>1. _redCtx = "NULL"
    BY <1>1 DEF NotConnected, TurnedAway, ConnInv, OneContext
  <2> QED BY <1>1, <2>1 DEF NotConnected, Contract!TurnAway, Contract!AtRest,
                            Contract!SessionNext
<1>2. CASE NullContext(o)
  BY <1>2 DEF NullContext, Contract!TurnAway, Contract!AtRest,
              Contract!SessionNext
<1>3. CASE \E outcome \in Redis!Outcomes : RoundTrip(o, outcome)
  <2>1. PICK outcome \in Redis!Outcomes : RoundTrip(o, outcome)
    BY <1>3
  <2>2. /\ _redCtx # "NULL" /\ _redCtx' \in {_redCtx, "err"}
        /\ Callable /\ op' = o /\ result' = result
    BY <2>1 DEF RoundTrip, Redis!Auth, Redis!AuthMayEnd, Redis!Command,
                Redis!MayEnd
  <2>3. _redCtx \in {"ok", "err"}
    BY <2>2, LinkStates DEF ConnInv
  <2> QED BY <2>2, <2>3 DEF Contract!Begin, Contract!AtRest, Operations,
                            Contract!SessionNext
<1> QED BY <1>1, <1>2, <1>3 DEF CallStep

(* A reply is missing if and only if the link has failed (CallInv), so that the
   verdict tells. *)
LEMMA ReturnIsASessionStep ==
    ASSUME ConnInv, ReturnStep
    PROVE  Contract!SessionNext
<1>1. op # "none" /\ op' = "none" /\ _redCtx' = _redCtx
  BY DEF ReturnStep, NullReturn, ErrorReturn, TrueReturn, NotFoundReturn,
         QueuedReturn, RawReturn, Finish
<1>2. _redCtx = "ok" \/ _redCtx = "err"
  BY <1>1, LinkStates DEF ConnInv, CallInv
<1>3. reply = "NULL" <=> _redCtx = "err"
  BY <1>1 DEF ConnInv, CallInv
<1>4. CASE op = "redisCmd"
  <2>1. result' = IF reply = "NULL" THEN "NULL" ELSE "reply"
    BY <1>4 DEF ReturnStep, NullReturn, ErrorReturn, TrueReturn,
                NotFoundReturn, QueuedReturn, RawReturn
  <2> QED BY <1>1, <1>2, <1>3, <1>4, <2>1 DEF Contract!End, Contract!SessionNext
<1>5. CASE op # "redisCmd"
  <2>1. \/ reply = "NULL" /\ result' = "exception"
        \/ reply # "NULL" /\ result' \in {"true", "false"}
    BY <1>5 DEF ReturnStep, NullReturn, ErrorReturn, TrueReturn,
                NotFoundReturn, QueuedReturn, RawReturn
  <2>2. op \in {"auth", "ping", "method"}
    BY <1>1, <1>5 DEF ConnInv, ConnTypeOK, Operations
  <2> QED BY <1>1, <1>2, <1>3, <1>5, <2>1, <2>2
          DEF Contract!End, Contract!SessionNext
<1> QED BY <1>4, <1>5

(* Whatever fails and in whatever order the calls come, a caller can tell from a
   result whether the link held during the call (a false of ping apart), and is
   turned away only while there is no connection (CRedisConn.cpp:38-43, :77, :219). *)
THEOREM AnswersTellTheSession == ConnSpec => ImplementsSession
<1>1. ConnInit => Contract!SessionInit
  BY DEF ConnInit, Redis!HiredisInit, Contract!SessionInit
<1>2. ASSUME ConnInv, [ConnNext]_connVars
      PROVE  [Contract!SessionNext]_Contract!sessionVars
  <2>1. CASE ConnNext
    BY <1>2, <2>1, ConnectionIsASessionStep, CallIsASessionStep,
       ReturnIsASessionStep DEF ConnNext
  <2>2. CASE UNCHANGED connVars
    BY <2>2 DEF connVars, Contract!sessionVars
  <2> QED BY <1>2, <2>1, <2>2
<1> QED BY <1>1, <1>2, ConnInvariance, PTL
       DEF ConnSpec, ImplementsSession, Contract!SessionSpec
=============================================================================
