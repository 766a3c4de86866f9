---------------------------- MODULE QuoteProofs ----------------------------
(***************************************************************************)
(* Proofs about Quote, for every number of ticks, all sets of time stamps  *)
(* and every choice of what may fail.                                      *)
(***************************************************************************)
EXTENDS Quote, TLAPS

USE DEF eventVars, redisVars, apiVars, replyVars, tickVars, MainPcs, Faults,
        Callbacks, NoReply, Locals

-----------------------------------------------------------------------------
(* One step of the event keeps its types. *)
LEMMA EventTypes ==
    ASSUME m_Event!EventTypeOK,
           \/ UNCHANGED eventVars
           \/ m_Event!WaitEvent("main")
           \/ m_Event!WaitReturn("main")
           \/ m_Event!WaitInternal("main")
           \/ m_Event!SignalEvent
    PROVE  m_Event!EventTypeOK'
<1> USE DEF m_Event!EventTypeOK, m_Event!Phases
<1>1. CASE m_Event!SignalEvent
  <2>1. signalled' \in [{"main"} -> BOOLEAN] /\ bIsSignal' \in BOOLEAN
    BY <1>1 DEF m_Event!SignalEvent, m_Event!Waiting, m_Event!PulseEvent,
                m_Event!CondSignal
  <2>2. phase' \in [{"main"} -> m_Event!Phases]
    BY <1>1 DEF m_Event!SignalEvent, m_Event!PulseEvent, m_Event!CondSignal
  <2> QED BY <2>1, <2>2
<1>2. CASE UNCHANGED eventVars
  BY <1>2
<1>3. CASE m_Event!WaitEvent("main") \/ m_Event!WaitReturn("main")
  BY <1>3 DEF m_Event!WaitEvent, m_Event!WaitReturn
<1>4. CASE m_Event!WaitInternal("main")
  BY <1>4 DEF m_Event!WaitInternal, m_Event!SpuriousWakeup, m_Event!WaitAgain,
              m_Event!ApcBegin, m_Event!ApcEnd
<1> QED BY <1>1, <1>2, <1>3, <1>4

(* A command leaves a context, puts at most one reply on the heap, and that
   reply is the one a later free takes away. *)
LEMMA CommandTypes ==
    ASSUME Redis!HiredisTypeOK, NEW outcome \in Redis!Outcomes,
           Command(outcome) \/ Redis!Auth(outcome)
    PROVE  /\ Redis!HiredisTypeOK'
           /\ redisCTX' # "NULL"
           /\ Redis!ReplyTo(outcome) \in {"NULL", "status", "error"}
           /\ Allocated(outcome) = Freed(Redis!ReplyTo(outcome))
           /\ Allocated(outcome) \in {0, 1}
<1> USE DEF Redis!Outcomes
<1>1. Redis!ReplyTo(outcome) \in {"NULL", "status", "error"}
  BY DEF Redis!ReplyTo
<1>2. Redis!HiredisTypeOK' /\ redisCTX' # "NULL"
  BY DEF Command, Redis!Command, Redis!MayEnd, Redis!Auth, Redis!AuthMayEnd,
         Redis!Executes, Redis!HiredisTypeOK, Redis!ContextStates
<1> QED BY <1>1, <1>2 DEF Allocated, Freed

(* The steps of Next, as the proofs below split them. *)
LEMMA Steps ==
    ASSUME [Next]_vars
    PROVE  \/ CreateTapQuoteAPI \/ ConnectRedis \/ Auth \/ SetHostAddress
           \/ Login \/ WaitEvent \/ WaitReturn \/ CheckReady
           \/ SubscribeItems \/ Exit \/ WaitInternal
           \/ OnRspLoginSuccess \/ OnRspLoginFailure \/ OnAPIReady
           \/ OnRspLoginReturn \/ OnDisconnect
           \/ OnRspSubscribeQuoteSuccess \/ OnRspSubscribeQuoteNoInfo
           \/ OnRtnQuote \/ OnRtnQuotePublish \/ OnRtnQuoteSet
           \/ OnRtnQuoteReturn
           \/ UNCHANGED vars
BY DEF Next, Main, LoginCallback, FinishCallback

-----------------------------------------------------------------------------
LEMMA ControlTypes ==
    ASSUME ControlTypeOK, [Next]_vars
    PROVE  ControlTypeOK'
<1>e. m_Event!EventTypeOK /\ Redis!HiredisTypeOK
  BY DEF ControlTypeOK
<1>1. CASE \/ CreateTapQuoteAPI \/ SetHostAddress \/ Login \/ CheckReady
           \/ SubscribeItems \/ Exit \/ OnRspLoginReturn \/ OnDisconnect
           \/ OnRspSubscribeQuoteNoInfo \/ OnRtnQuote \/ OnRtnQuoteReturn
           \/ UNCHANGED vars
  <2>1. UNCHANGED <<eventVars, redisVars>>
    BY <1>1 DEF CreateTapQuoteAPI, SetHostAddress, Login, CheckReady,
       SubscribeItems, Exit, OnRspLoginReturn, OnDisconnect,
       OnRspSubscribeQuoteNoInfo, OnRtnQuote, OnRtnQuoteReturn, vars
  <2>2. m_Event!EventTypeOK' /\ Redis!HiredisTypeOK'
    BY <1>e, <2>1 DEF m_Event!EventTypeOK, Redis!HiredisTypeOK
  <2> QED
    BY <1>1, <2>2 DEF ControlTypeOK, CreateTapQuoteAPI, SetHostAddress, Login,
       CheckReady, AfterWait, SubscribeItems, Exit, OnRspLoginReturn,
       OnDisconnect, OnRspSubscribeQuoteNoInfo, OnRtnQuote, OnRtnQuoteReturn,
       vars
<1>2. CASE ConnectRedis
  <2>1. Redis!HiredisTypeOK'
    BY <1>2 DEF ConnectRedis, Redis!Connect, Redis!ConnectOutcomes,
                Redis!Admission, Redis!HiredisTypeOK, Redis!ContextStates
  <2>2. m_Event!EventTypeOK'
    BY <1>2, <1>e, EventTypes DEF ConnectRedis
  <2> QED BY <1>2, <2>1, <2>2 DEF ConnectRedis, ControlTypeOK
<1>3. CASE WaitEvent \/ WaitReturn \/ WaitInternal \/ OnRspLoginFailure \/ OnAPIReady
  <2>1. m_Event!EventTypeOK'
    BY <1>3, <1>e, EventTypes
       DEF WaitEvent, WaitReturn, WaitInternal, OnRspLoginFailure, OnAPIReady
  <2>2. Redis!HiredisTypeOK'
    BY <1>3, <1>e DEF WaitEvent, WaitReturn, WaitInternal, OnRspLoginFailure,
       OnAPIReady, Redis!HiredisTypeOK
  <2> QED
    BY <1>3, <2>1, <2>2 DEF ControlTypeOK, WaitEvent, WaitReturn, WaitInternal,
       OnRspLoginFailure, OnAPIReady
<1>4. CASE \/ Auth \/ OnRspLoginSuccess \/ OnRspSubscribeQuoteSuccess
           \/ OnRtnQuotePublish \/ OnRtnQuoteSet
  <2>1. m_Event!EventTypeOK'
    BY <1>4, <1>e, EventTypes DEF Auth, OnRspLoginSuccess,
       OnRspSubscribeQuoteSuccess, OnRtnQuotePublish, OnRtnQuoteSet
  <2>2. Redis!HiredisTypeOK'
    <3>1. CASE UNCHANGED redisVars
      BY <3>1, <1>e DEF Redis!HiredisTypeOK
    <3>2. CASE \E outcome \in Redis!Outcomes : Command(outcome) \/ Redis!Auth(outcome)
      BY <3>2, <1>e, CommandTypes
    <3> QED
      BY <1>4, <3>1, <3>2 DEF Auth, OnRspLoginSuccess,
         OnRspSubscribeQuoteSuccess, OnRtnQuotePublish, OnRtnQuoteSet
  <2> QED
    BY <1>4, <2>1, <2>2 DEF ControlTypeOK, Auth, OnRspLoginSuccess,
       OnRspSubscribeQuoteSuccess, OnRtnQuotePublish, OnRtnQuoteSet
<1> QED BY <1>1, <1>2, <1>3, <1>4, Steps

-----------------------------------------------------------------------------
(* The login protocol.  The main thread can have been released only by a
   SignalEvent that came while it waited (SimpleEvent), and the API thread calls
   it only when the login is refused or the API is ready; a login that is under
   way when m_bIsAPIReady is raised has not yet signalled. *)
BeforeLogin == {"CreateTapQuoteAPI", "ConnectRedis", "Auth", "SetHostAddress",
                "Login"}

LoginInv ==
    /\ mainPc \in BeforeLogin => session = "none"
    /\ callback = "OnRspLogin" => session = "loggedIn" /\ ~m_bIsAPIReady
    /\ m_bIsAPIReady => session \in {"loggedIn", "ready"}
    /\ session = "loggedIn" => callback = "OnRspLogin" \/ m_bIsAPIReady
    /\ session = "ready" => m_bIsAPIReady
    /\ mainPc = "Waiting" <=> phase["main"] # "running"
    /\ m_Event!SignalEvidence
    /\ phase["main"] = "apc" => Compiler = "_MSC_VER" /\ KernelApc
    /\ SignalledRunIsAwake
    /\ mainPc = "Waiting" /\ signalled["main"] => session \in {"refused", "ready"}
    /\ mainPc = "CheckReady" => session \in {"refused", "ready"}
    /\ mainPc = "SubscribeItems" => session = "ready"
    /\ sub # "none" => mainPc \in {"getchar", "exited"} /\ session = "ready"
    /\ RunEndsWithCause
    /\ DiesOfRedisOnlyAtStart

LEMMA LoginInvStep ==
    ASSUME ControlTypeOK, LoginInv, [Next]_vars
    PROVE  LoginInv'
<1> USE DEF ControlTypeOK, LoginInv, BeforeLogin, RunEndsWithCause,
        DiesOfRedisOnlyAtStart, SignalledRunIsAwake, m_Event!SignalEvidence,
        m_Event!Waiting, m_Event!EventTypeOK
<1>a. CASE UNCHANGED vars
  BY <1>a DEF vars
<1>b. CASE Next
  <2>0. fault = "none"
    BY <1>b DEF Next, Alive
  <2>1. CASE CreateTapQuoteAPI \/ ConnectRedis \/ Auth \/ SetHostAddress \/ Login
    BY <2>1, <2>0 DEF CreateTapQuoteAPI, ConnectRedis, Auth, SetHostAddress, Login
  <2>2. CASE WaitEvent
    BY <2>2 DEF WaitEvent, m_Event!WaitEvent
  <2>3. CASE WaitReturn
    <3>1. signalled["main"]
      BY <2>3, SwitchAssumption DEF WaitReturn, m_Event!WaitReturn
    <3> QED BY <2>3, <3>1 DEF WaitReturn, m_Event!WaitReturn
  <2>4. CASE WaitInternal
    BY <2>4 DEF WaitInternal, m_Event!WaitInternal, m_Event!SpuriousWakeup,
       m_Event!WaitAgain, m_Event!ApcBegin, m_Event!ApcEnd
  <2>5. CASE CheckReady \/ SubscribeItems \/ Exit
    BY <2>5 DEF CheckReady, AfterWait, SubscribeItems, Exit
  <2>6. CASE OnRspLoginSuccess
    BY <2>6 DEF OnRspLoginSuccess, CanCallBack
  <2>7. CASE OnRspLoginReturn
    BY <2>7, <2>0 DEF OnRspLoginReturn
  <2>8. CASE OnRspLoginFailure \/ OnAPIReady
    <3>1. m_Event!SignalEvent /\ session' \in {"refused", "ready"}
      BY <2>8 DEF OnRspLoginFailure, OnAPIReady
    <3>2. m_Event!SignalEvidence'
      BY <3>1 DEF m_Event!SignalEvent, m_Event!PulseEvent, m_Event!CondSignal
    <3>3. phase'["main"] # "running" <=> phase["main"] # "running"
      BY <3>1 DEF m_Event!SignalEvent, m_Event!PulseEvent, m_Event!CondSignal
    <3>4. /\ phase["main"] = "blocked" => phase'["main"] = "woken"
          /\ phase["main"] # "blocked" => phase'["main"] = phase["main"]
          /\ Compiler = "__GNUC__" => bIsSignal'
      BY <3>1, SwitchAssumption
         DEF m_Event!SignalEvent, m_Event!PulseEvent, m_Event!CondSignal
    <3>5. phase["main"] \in {"running", "blocked", "apc", "woken"}
      BY DEF m_Event!Phases
    <3>6. mainPc' = mainPc
      BY <2>8 DEF OnRspLoginFailure, OnAPIReady
    <3>7. SignalledRunIsAwake' /\ (phase'["main"] = "apc" => Compiler = "_MSC_VER" /\ KernelApc)
      BY <3>4, <3>5, <3>6
    <3> HIDE DEF m_Event!SignalEvidence, SignalledRunIsAwake
    <3> QED
      BY <2>8, <3>1, <3>2, <3>3, <3>7 DEF OnRspLoginFailure, OnAPIReady, CanCallBack
  <2>9. CASE OnDisconnect \/ OnRspSubscribeQuoteSuccess \/ OnRspSubscribeQuoteNoInfo
    BY <2>9 DEF OnDisconnect, OnRspSubscribeQuoteSuccess,
       OnRspSubscribeQuoteNoInfo
  <2>10. CASE OnRtnQuote \/ OnRtnQuotePublish \/ OnRtnQuoteSet \/ OnRtnQuoteReturn
    BY <2>10 DEF OnRtnQuote, OnRtnQuotePublish, OnRtnQuoteSet, OnRtnQuoteReturn,
       CanCallBack
  <2> QED
    BY <1>a, <2>1, <2>2, <2>3, <2>4, <2>5, <2>6, <2>7, <2>8, <2>9, <2>10, Steps
<1> QED BY <1>a, <1>b

-----------------------------------------------------------------------------
(* The heap.  The locals hold something exactly while their callback runs; what
   is not freed is what they hold, the reply of AUTH and that of the SET of the
   subscription.  Ticks do not enter the sum. *)
LocalsMatchCallback ==
    /\ reply # NoReply <=> callback = "OnRspLogin"
    /\ pubReply # NoReply <=> callback \in {"OnRtnQuote.set", "OnRtnQuote.free"}
    /\ setReply # NoReply <=> callback = "OnRtnQuote.free"

Held == Freed(reply) + Freed(pubReply) + Freed(setReply)

LeakedByAuth ==
    IF mainPc \in {"CreateTapQuoteAPI", "ConnectRedis", "Auth"} THEN 0 ELSE 1

LeakedBySub == IF sub = "active" THEN 1 ELSE 0

HeapInv ==
    /\ LocalsMatchCallback
    /\ ReplyTypeOK
    /\ Held <= unfreed
    /\ unfreed <= Held + LeakedByAuth + LeakedBySub

LEMMA FreedTypes ==
    \A r \in Locals : /\ Freed(r) \in {0, 1}
                      /\ r \in {"none", "NULL"} => Freed(r) = 0
                      /\ r \in {"status", "error"} => Freed(r) = 1
BY DEF Freed, IsReply

LEMMA HeapInvStep ==
    ASSUME ControlTypeOK, LoginInv, HeapInv, [Next]_vars
    PROVE  HeapInv'
<1> USE FreedTypes DEF HeapInv, LocalsMatchCallback, ReplyTypeOK, Held,
        LeakedByAuth, LeakedBySub
<1>c. Redis!HiredisTypeOK
  BY DEF ControlTypeOK
<1>1. CASE \/ CreateTapQuoteAPI \/ ConnectRedis \/ SetHostAddress \/ Login
           \/ WaitEvent \/ WaitReturn \/ CheckReady \/ Exit \/ WaitInternal
           \/ OnRspLoginFailure \/ OnAPIReady \/ OnDisconnect
           \/ UNCHANGED vars
  <2>1. UNCHANGED <<replyVars, callback, sub>>
    BY <1>1 DEF CreateTapQuoteAPI, ConnectRedis, SetHostAddress, Login,
       WaitEvent, WaitReturn, CheckReady, Exit, WaitInternal,
       OnRspLoginFailure, OnAPIReady, OnDisconnect, vars
  <2>2. LeakedByAuth <= LeakedByAuth'
    BY <1>1 DEF CreateTapQuoteAPI, ConnectRedis, SetHostAddress, Login,
       WaitEvent, WaitReturn, CheckReady, AfterWait, Exit, WaitInternal,
       OnRspLoginFailure, OnAPIReady, OnDisconnect, vars
  <2>3. Held' = Held /\ LeakedBySub' = LeakedBySub
    <3>1. reply' = reply /\ pubReply' = pubReply /\ setReply' = setReply /\ sub' = sub
      BY <2>1
    <3> QED BY <3>1 DEF Freed, IsReply
  <2>4. LeakedByAuth \in Nat /\ LeakedByAuth' \in Nat /\ LeakedBySub \in Nat /\ Held \in Nat
    OBVIOUS
  <2>5. LocalsMatchCallback' /\ ReplyTypeOK'
    BY <2>1
  <2>6. unfreed' = unfreed /\ unfreed \in Nat
    BY <2>1
  <2>7. Held <= unfreed /\ unfreed <= Held + LeakedByAuth + LeakedBySub
    OBVIOUS
  <2>8. Held' <= unfreed' /\ unfreed' <= Held' + LeakedByAuth' + LeakedBySub'
    <3> HIDE DEF Held, LeakedByAuth, LeakedBySub, HeapInv
    <3>1. \A a, b, c, d \in Nat : a <= b /\ unfreed <= c + a + d => unfreed <= c + b + d
      BY <2>6
    <3> QED BY <2>2, <2>3, <2>4, <2>6, <2>7, <3>1
  <2> QED BY <2>5, <2>8
<1>2. CASE Auth
  BY <1>2, <1>c, CommandTypes DEF Auth
<1>3. CASE SubscribeItems \/ OnRspSubscribeQuoteNoInfo
  BY <1>3 DEF SubscribeItems, OnRspSubscribeQuoteNoInfo, LoginInv
<1>4. CASE OnRspLoginSuccess
  BY <1>4, <1>c, CommandTypes DEF OnRspLoginSuccess, CanCallBack
<1>5. CASE OnRspLoginReturn
  <2>1. CASE reply = "NULL"
    BY <1>5, <2>1 DEF OnRspLoginReturn, IsReply
  <2>2. CASE IsReply(reply)
    <3>1. Freed(reply) = 1 /\ Freed(reply') = 0 /\ unfreed' = unfreed - 1
      BY <1>5, <2>2 DEF OnRspLoginReturn, IsReply
    <3> QED BY <1>5, <2>2, <3>1 DEF OnRspLoginReturn, IsReply
  <2> QED BY <1>5, <2>1, <2>2 DEF OnRspLoginReturn
<1>6. CASE OnRspSubscribeQuoteSuccess
  BY <1>6, <1>c, CommandTypes DEF OnRspSubscribeQuoteSuccess
<1>7. CASE OnRtnQuote
  BY <1>7 DEF OnRtnQuote, CanCallBack
<1>8. CASE OnRtnQuotePublish
  BY <1>8, <1>c, CommandTypes DEF OnRtnQuotePublish
<1>9. CASE OnRtnQuoteSet
  BY <1>9, <1>c, CommandTypes DEF OnRtnQuoteSet
<1>10. CASE OnRtnQuoteReturn
  BY <1>10 DEF OnRtnQuoteReturn
<1> QED BY <1>1, <1>2, <1>3, <1>4, <1>5, <1>6, <1>7, <1>8, <1>9, <1>10, Steps

-----------------------------------------------------------------------------
(* The ticks.  Up to the tick whose PUBLISH is due, every tick was announced or
   refused as long as the context is good; once it is in error it stays so, and
   no command has an effect any more. *)
Processed == IF callback = "OnRtnQuote" THEN Len(delivered) - 1 ELSE Len(delivered)

TickInv ==
    /\ DataTypeOK
    /\ delivered # <<>> => sub = "active"
    /\ callback \in {"OnRtnQuote", "OnRtnQuote.set", "OnRtnQuote.free"}
          => delivered # <<>>
    /\ Announced \cup refusedTicks \subseteq 1..Processed
    /\ redisCTX = "ok" => 1..Processed \subseteq Announced \cup refusedTicks
    /\ LossIsASuffix
    /\ FiledWasAnnounced
    /\ KeysTellTheTruth

(* A command has an effect, or a reply that refuses it, only on a context that
   was good; it leaves it good only if it was answered. *)
LEMMA CommandEffect ==
    ASSUME NEW outcome \in Redis!Outcomes, Command(outcome)
    PROVE  /\ Redis!Executes(outcome) \/ outcome = "refused" => redisCTX = "ok"
           /\ redisCTX' = "ok" => /\ redisCTX = "ok"
                                  /\ Redis!Executes(outcome) \/ outcome = "refused"
BY DEF Command, Redis!Command, Redis!MayEnd, Redis!Executes, Redis!Outcomes

LEMMA TickType ==
    ASSUME DataTypeOK, delivered # <<>>
    PROVE  Tick \in 1..MaxTicks /\ Tick = Len(delivered)
           /\ Tick \in Nat /\ delivered[Tick] \in DateTimeStamps
BY MaxTicksAssumption DEF DataTypeOK, Tick

LEMMA AppendAnnounced ==
    ASSUME published \in Seq(1..MaxTicks), NEW t, published' = Append(published, t)
    PROVE  Announced' = Announced \cup {t}
BY DEF Announced

LEMMA TickInvStep ==
    ASSUME ControlTypeOK, LoginInv, TickInv, [Next]_vars
    PROVE  TickInv'
<1>d. /\ DataTypeOK /\ Len(delivered) \in Nat /\ delivered \in Seq(DateTimeStamps)
      /\ published \in Seq(1..MaxTicks)
  BY DEF TickInv, DataTypeOK
<1>1. CASE \/ CreateTapQuoteAPI \/ ConnectRedis \/ Auth \/ SetHostAddress
           \/ Login \/ WaitEvent \/ WaitReturn \/ CheckReady
           \/ SubscribeItems \/ Exit \/ WaitInternal
           \/ OnRspLoginSuccess \/ OnRspLoginFailure \/ OnAPIReady
           \/ OnRspLoginReturn \/ OnDisconnect
           \/ OnRspSubscribeQuoteSuccess \/ OnRspSubscribeQuoteNoInfo
           \/ UNCHANGED vars
  <2> USE DEF CreateTapQuoteAPI, ConnectRedis, Auth, SetHostAddress, Login,
          WaitEvent, WaitReturn, CheckReady, SubscribeItems, Exit, WaitInternal,
          OnRspLoginSuccess, OnRspLoginFailure, OnAPIReady, OnRspLoginReturn,
          OnDisconnect, OnRspSubscribeQuoteSuccess, OnRspSubscribeQuoteNoInfo,
          vars
  <2>1. UNCHANGED tickVars
    BY <1>1
  <2>2. delivered # <<>> \/ sub = "active" => sub' = "active" /\ sub = "active"
    BY <1>1 DEF LoginInv, TickInv
  <2>3. /\ callback' \in {"idle", "OnRspLogin"} \/ callback' = callback
        /\ callback \in {"idle", "OnRspLogin"} \/ callback' = callback
    BY <1>1 DEF CanCallBack
  <2>4. redisCTX' = "ok" => redisCTX = "ok" \/ delivered = <<>>
    BY <1>1 DEF LoginInv, TickInv, Command, Redis!Command, Redis!MayEnd,
                Redis!Auth, Redis!AuthMayEnd
  <2>5. /\ keys' \subseteq {"Login_UserNo", "Sub"}
        /\ "Login_UserNo" \in keys' => session' \in {"loggedIn", "ready"}
        /\ "Sub" \in keys' => sub' = "active"
    BY <1>1, <2>2 DEF LoginInv, BeforeLogin, TickInv, DataTypeOK, KeysTellTheTruth
  <2>6. Announced' = Announced /\ Processed' = Processed
    BY <2>1, <2>3 DEF Announced, Processed
  <2>7. DataTypeOK'
    BY <2>1, <2>5, <1>d DEF DataTypeOK
  <2>8. LossIsASuffix' /\ FiledWasAnnounced'
    BY <2>1, <2>6 DEF TickInv, LossIsASuffix, FiledWasAnnounced
  <2>9. delivered = <<>> => 1..Processed = {}
    BY <2>1, <2>3 DEF Processed, TickInv
  <2>10. KeysTellTheTruth'
    BY <2>1, <2>2, <2>5, <2>6 DEF TickInv, KeysTellTheTruth
  <2> QED
    BY <2>1, <2>2, <2>3, <2>4, <2>6, <2>7, <2>8, <2>9, <2>10 DEF TickInv
<1>2. CASE OnRtnQuote
  <2>1. /\ UNCHANGED <<published, refusedTicks, tickStore, redisVars, keys, sub, session>>
        /\ callback = "idle" /\ sub = "active"
    BY <1>2 DEF OnRtnQuote, CanCallBack
  <2>2. Announced' = Announced
    BY <2>1 DEF Announced
  <2>3. CASE UNCHANGED <<delivered, callback>>
    <3>1. Processed' = Processed
      BY <2>3 DEF Processed
    <3> QED
      BY <2>1, <2>2, <2>3, <3>1 DEF TickInv, DataTypeOK, LossIsASuffix,
         FiledWasAnnounced, KeysTellTheTruth
  <2>4. ASSUME NEW s \in DateTimeStamps, Len(delivered) < MaxTicks,
               delivered' = Append(delivered, s), callback' = "OnRtnQuote"
        PROVE  TickInv'
    <3>1. /\ delivered' \in Seq(DateTimeStamps) /\ delivered' # <<>>
          /\ Len(delivered') = Len(delivered) + 1
      BY <2>4, <1>d
    <3>2. Processed' = Processed
      BY <2>1, <2>4, <3>1, <1>d DEF Processed
    <3>3. DataTypeOK'
      BY <2>1, <2>4, <3>1, <1>d, MaxTicksAssumption DEF DataTypeOK
    <3> QED
      BY <2>1, <2>2, <2>4, <3>1, <3>2, <3>3 DEF TickInv, LossIsASuffix,
         FiledWasAnnounced, KeysTellTheTruth
  <2> QED BY <1>2, <2>3, <2>4 DEF OnRtnQuote
<1>3. CASE OnRtnQuotePublish
  <2>1. /\ UNCHANGED <<delivered, tickStore, keys, sub, session>>
        /\ callback = "OnRtnQuote" /\ callback' = "OnRtnQuote.set"
        /\ delivered # <<>> /\ sub = "active"
    BY <1>3 DEF OnRtnQuotePublish, TickInv
  <2>t. /\ Tick = Len(delivered) /\ Tick \in 1..MaxTicks /\ Tick \in Nat
        /\ Processed = Tick - 1 /\ Processed' = Tick
    BY <2>1, <1>d, TickType DEF Processed, Tick
  <2> PICK outcome \in Redis!Outcomes :
          /\ Command(outcome)
          /\ published' = IF Redis!Executes(outcome)
                          THEN Append(published, Tick) ELSE published
          /\ refusedTicks' = IF outcome = "refused"
                             THEN refusedTicks \cup {Tick} ELSE refusedTicks
    BY <1>3 DEF OnRtnQuotePublish
  <2>2. Announced' = IF Redis!Executes(outcome)
                     THEN Announced \cup {Tick} ELSE Announced
    BY <1>d, AppendAnnounced DEF Announced
  <2>3. DataTypeOK'
    <3>1. published' \in Seq(1..MaxTicks)
      <4>1. Append(published, Tick) \in Seq(1..MaxTicks)
        BY <1>d, <2>t
      <4> QED BY <1>d, <4>1
    <3>2. refusedTicks' \subseteq 1..MaxTicks
      BY <1>d, <2>t DEF DataTypeOK
    <3> QED BY <1>d, <2>1, <3>1, <3>2 DEF DataTypeOK
  <2>4. Announced' \cup refusedTicks' \subseteq 1..Tick
    BY <2>2, <2>t DEF TickInv
  <2>5. /\ redisCTX' = "ok" => Tick \in Announced' \cup refusedTicks' /\ redisCTX = "ok"
        /\ Announced' \cup refusedTicks' # Announced \cup refusedTicks => redisCTX = "ok"
    BY <2>2, CommandEffect
  <2>6. Announced \subseteq Announced' /\ refusedTicks \subseteq refusedTicks'
        /\ Announced' \subseteq Announced \cup {Tick}
    BY <2>2
  <2>7. redisCTX' = "ok" => 1..Tick \subseteq Announced' \cup refusedTicks'
    BY <2>5, <2>6, <2>t DEF TickInv
  <2>8. LossIsASuffix'
    <3> SUFFICES ASSUME NEW j \in Announced', NEW i \in 1..j
                 PROVE  i \in Announced' \cup refusedTicks'
      BY DEF LossIsASuffix
    <3>1. CASE j \in Announced
      BY <3>1, <2>6 DEF TickInv, LossIsASuffix
    <3>2. CASE j \notin Announced
      <4>1. j = Tick /\ redisCTX = "ok"
        BY <3>2, <2>2, CommandEffect
      <4>2. i = Tick \/ i \in 1..Processed
        BY <4>1, <2>t
      <4> QED BY <4>1, <4>2, <2>6, <2>t DEF TickInv
    <3> QED BY <3>1, <3>2
  <2>9. FiledWasAnnounced'
    BY <2>1, <2>6 DEF TickInv, FiledWasAnnounced
  <2>10. KeysTellTheTruth'
    BY <2>1 DEF TickInv, KeysTellTheTruth
  <2> QED
    BY <2>1, <2>t, <2>3, <2>4, <2>7, <2>8, <2>9, <2>10 DEF TickInv
<1>4. CASE OnRtnQuoteSet
  <2>1. /\ UNCHANGED <<delivered, published, refusedTicks, keys, sub, session>>
        /\ callback = "OnRtnQuote.set" /\ callback' = "OnRtnQuote.free"
        /\ delivered # <<>> /\ sub = "active"
    BY <1>4 DEF OnRtnQuoteSet, TickInv
  <2>2. Announced' = Announced /\ Processed' = Processed /\ Processed = Tick
    BY <2>1 DEF Announced, Processed, Tick
  <2>t. Tick \in 1..MaxTicks /\ Tick \in Nat /\ Tick >= 1 /\ delivered[Tick] \in DateTimeStamps
    BY <1>d, <2>1, TickType
  <2>3. /\ tickStore' = tickStore
           \/ /\ tickStore' = [tickStore EXCEPT ![delivered[Tick]] = Tick]
              /\ redisCTX = "ok"
        /\ redisCTX' = "ok" => redisCTX = "ok"
    BY <1>4, CommandEffect DEF OnRtnQuoteSet
  <2>4. DataTypeOK'
    BY <1>d, <2>1, <2>3, <2>t DEF DataTypeOK
  <2>5. FiledWasAnnounced'
    <3>1. redisCTX = "ok" => Tick \in Announced \cup refusedTicks
      BY <2>2, <2>t DEF TickInv
    <3> QED BY <1>d, <2>1, <2>2, <2>3, <2>t, <3>1 DEF TickInv, FiledWasAnnounced, DataTypeOK
  <2>6. LossIsASuffix' /\ KeysTellTheTruth'
    BY <2>1, <2>2 DEF TickInv, LossIsASuffix, KeysTellTheTruth
  <2> QED BY <2>1, <2>2, <2>3, <2>4, <2>5, <2>6 DEF TickInv
<1>5. CASE OnRtnQuoteReturn
  <2>1. /\ UNCHANGED <<tickVars, redisVars, keys, sub, session>>
        /\ callback = "OnRtnQuote.free" /\ callback' = "idle"
    BY <1>5 DEF OnRtnQuoteReturn
  <2>2. Announced' = Announced /\ Processed' = Processed
    BY <2>1 DEF Announced, Processed
  <2> QED
    BY <2>1, <2>2 DEF TickInv, DataTypeOK, LossIsASuffix, FiledWasAnnounced,
       KeysTellTheTruth
<1> QED BY <1>1, <1>2, <1>3, <1>4, <1>5, Steps

-----------------------------------------------------------------------------
(* All of it together. *)
IInv == ControlTypeOK /\ LoginInv /\ HeapInv /\ TickInv

LEMMA IInvInit == Init => IInv
<1> SUFFICES ASSUME Init PROVE IInv
  OBVIOUS
<1>1. ControlTypeOK
  BY DEF Init, ControlTypeOK, m_Event!EventInit, m_Event!EventTypeOK,
     m_Event!Phases, Redis!HiredisInit, Redis!HiredisTypeOK, Redis!ContextStates
<1>2. LoginInv
  BY DEF Init, LoginInv, BeforeLogin, RunEndsWithCause, DiesOfRedisOnlyAtStart,
     SignalledRunIsAwake, m_Event!EventInit, m_Event!SignalEvidence, m_Event!Waiting
<1>3. HeapInv
  BY DEF Init, HeapInv, LocalsMatchCallback, ReplyTypeOK, Held, LeakedByAuth,
     LeakedBySub, Freed, IsReply
<1>4. TickInv
  <2>1. Announced = {} /\ Processed = 0 /\ refusedTicks = {}
    BY DEF Init, Announced, Processed
  <2>2. DataTypeOK
    BY MaxTicksAssumption DEF Init, DataTypeOK
  <2> QED
    BY <2>1, <2>2 DEF Init, TickInv, LossIsASuffix, FiledWasAnnounced,
       KeysTellTheTruth, Redis!HiredisInit
<1> QED BY <1>1, <1>2, <1>3, <1>4 DEF IInv

LEMMA IInvStep == IInv /\ [Next]_vars => IInv'
BY ControlTypes, LoginInvStep, HeapInvStep, TickInvStep DEF IInv

THEOREM Invariance == Spec => []IInv
BY IInvInit, IInvStep, PTL DEF Spec

(* The variables keep their types. *)
THEOREM TypeCorrect == Spec => []TypeOK
<1>1. IInv => TypeOK
  BY DEF IInv, HeapInv, TickInv, TypeOK
<1> QED BY <1>1, Invariance, PTL

(* Run subscribes only after OnAPIReady, with either event and whatever kernel
   APCs, spurious wakeups, refusals and lost links come in between. *)
THEOREM SubscribesWhenReady == Spec => []SubscribesOnlyWhenReady
<1>1. IInv => SubscribesOnlyWhenReady
  BY DEF IInv, LoginInv, SubscribesOnlyWhenReady
<1> QED BY <1>1, Invariance, PTL

(* Run gives up only on a failed call or a refused login. *)
THEOREM RunEnds == Spec => []RunEndsWithCause
<1>1. IInv => RunEndsWithCause
  BY DEF IInv, LoginInv
<1> QED BY <1>1, Invariance, PTL

(* With either event, a signal during the wait is enough to end it. *)
THEOREM SignalsAreHeard == Spec => []SignalledRunIsAwake
<1>1. IInv => SignalledRunIsAwake
  BY DEF IInv, LoginInv
<1> QED BY <1>1, Invariance, PTL

(* Once it is ready the process does not die of a failure of Redis. *)
THEOREM SurvivesRedis == Spec => []DiesOfRedisOnlyAtStart
<1>1. IInv => DiesOfRedisOnlyAtStart
  BY DEF IInv, LoginInv
<1> QED BY <1>1, Invariance, PTL

(* However many ticks come, at most two replies are never freed. *)
THEOREM HeapIsBounded == Spec => []RepliesBounded
<1>1. IInv => RepliesBounded
  BY FreedTypes DEF IInv, HeapInv, LocalsMatchCallback, ReplyTypeOK, Held,
     LeakedByAuth, LeakedBySub, RepliesBounded
<1> QED BY <1>1, Invariance, PTL

(* For every number of ticks: what the channel misses, Redis refused, or it is
   the end of the stream. *)
THEOREM LossIsTheEnd == Spec => []LossIsASuffix
<1>1. IInv => LossIsASuffix
  BY DEF IInv, TickInv
<1> QED BY <1>1, Invariance, PTL

(* For every number of ticks no key is ahead of the channel. *)
THEOREM KeysFollowTheChannel == Spec => []FiledWasAnnounced
<1>1. IInv => FiledWasAnnounced
  BY DEF IInv, TickInv
<1> QED BY <1>1, Invariance, PTL

(* The keys tell the truth about the login and the subscription. *)
THEOREM TruthfulKeys == Spec => []KeysTellTheTruth
<1>1. IInv => KeysTellTheTruth
  BY DEF IInv, TickInv
<1> QED BY <1>1, Invariance, PTL

-----------------------------------------------------------------------------
LEMMA RelayStep ==
    ASSUME IInv, [Next]_vars
    PROVE  [Relay!RelayNext]_Relay!relayVars
<1> USE DEF Relay!relayVars
<1>d. delivered \in Seq(DateTimeStamps) /\ published \in Seq(1..MaxTicks)
  BY DEF IInv, TickInv, DataTypeOK
<1>1. CASE OnRtnQuote
  BY <1>1 DEF OnRtnQuote, Relay!RelayNext, Relay!Receive
<1>2. CASE OnRtnQuotePublish
  <2>1. delivered # <<>> /\ Announced \subseteq 1..(Len(delivered) - 1)
    BY <1>2 DEF OnRtnQuotePublish, IInv, TickInv, Processed
  <2>2. \A i \in 1..Len(published) : published[i] < Len(delivered)
    <3>1. ASSUME NEW i \in 1..Len(published)
          PROVE  published[i] \in 1..(Len(delivered) - 1)
      BY <2>1 DEF Announced
    <3>2. Len(delivered) \in Nat
      BY <1>d
    <3> QED BY <3>1, <3>2
  <2> QED
    BY <1>2, <2>1, <2>2 DEF OnRtnQuotePublish, Tick, Relay!RelayNext,
       Relay!Broadcast
<1>3. CASE OnRtnQuoteSet
  BY <1>3 DEF OnRtnQuoteSet, Tick, IInv, TickInv, Relay!RelayNext, Relay!File
<1>4. CASE UNCHANGED tickVars
  BY <1>4
<1> QED
  BY <1>1, <1>2, <1>3, <1>4, Steps DEF CreateTapQuoteAPI, ConnectRedis, Auth,
     SetHostAddress, Login, WaitEvent, WaitReturn, CheckReady, SubscribeItems,
     Exit, WaitInternal, OnRspLoginSuccess, OnRspLoginFailure, OnAPIReady,
     OnRspLoginReturn, OnDisconnect, OnRspSubscribeQuoteSuccess,
     OnRspSubscribeQuoteNoInfo, OnRtnQuoteReturn, vars

(* The pusher implements the abstract relay of ticks. *)
THEOREM Refinement == Spec => ImplementsTickRelay
<1>1. Init => Relay!RelayInit
  BY DEF Init, Relay!RelayInit
<1>2. IInv /\ [Next]_vars => [Relay!RelayNext]_Relay!relayVars
  BY RelayStep
<1> QED
  BY <1>1, <1>2, Invariance, PTL DEF Spec, ImplementsTickRelay, Relay!RelaySpec

RelayFacts == INSTANCE TickRelayProofs WITH
                 feed <- delivered, channel <- published, filed <- tickStore

(* Hence the readers of Redis see the ticks in order, once, and under their own
   time stamps. *)
THEOREM OrderForReaders == Spec => []RelayOrder
<1>1. Spec => RelayFacts!RelaySpec
  BY Refinement DEF ImplementsTickRelay, Relay!RelaySpec, Relay!RelayInit,
     Relay!RelayNext, Relay!relayVars, Relay!Receive, Relay!Broadcast,
     Relay!File, RelayFacts!RelaySpec, RelayFacts!RelayInit,
     RelayFacts!RelayNext, RelayFacts!relayVars, RelayFacts!Receive,
     RelayFacts!Broadcast, RelayFacts!File
<1>2. RelayFacts!RelayOrder => RelayOrder
  BY DEF RelayOrder, Relay!RelayOrder, RelayFacts!RelayOrder
<1> QED BY <1>1, <1>2, RelayFacts!RelayCorrect, PTL

-----------------------------------------------------------------------------
(* What the steps of the two threads are to the event. *)
LEMMA EventStep ==
    ASSUME [Next]_vars
    PROVE  [m_Event!EventNext]_m_Event!eventVars
<1>1. CASE WaitEvent \/ WaitReturn \/ WaitInternal
  BY <1>1 DEF WaitEvent, WaitReturn, WaitInternal, m_Event!EventNext
<1>2. CASE OnRspLoginFailure \/ OnAPIReady
  BY <1>2 DEF OnRspLoginFailure, OnAPIReady, m_Event!EventNext
<1>3. CASE UNCHANGED eventVars
  BY <1>3 DEF m_Event!eventVars
<1> QED
  BY <1>1, <1>2, <1>3, Steps DEF CreateTapQuoteAPI, ConnectRedis, Auth,
     SetHostAddress, Login, CheckReady, SubscribeItems, Exit,
     OnRspLoginSuccess, OnRspLoginReturn, OnDisconnect,
     OnRspSubscribeQuoteSuccess, OnRspSubscribeQuoteNoInfo, OnRtnQuote,
     OnRtnQuotePublish, OnRtnQuoteSet, OnRtnQuoteReturn, vars

(* Quote uses the event as SimpleEvent.cpp offers it (Quote.cpp:80, :175, :181):
   what its threads do to m_Event is a behaviour of SimpleEvent, whose theorems
   hold of it. *)
THEOREM QuoteUsesTheEvent == Spec => m_Event!EventSpec
<1>1. Init => m_Event!EventInit
  BY DEF Init
<1> QED BY <1>1, EventStep, PTL DEF Spec, m_Event!EventSpec

EventFacts == INSTANCE SimpleEventProofs WITH Threads <- {"main"}

(* Hence no Run goes on but for a SignalEvent that came while it waited: what
   CheckReady sees is never older than that (Quote.cpp:80-81). *)
THEOREM RunWaitsForASignal == Spec => m_Event!WaitReturnsOnlyIfSignalled
<1>1. Spec => EventFacts!EventSpec
  <2>1. Init => EventFacts!EventInit
    BY DEF Init, m_Event!EventInit, EventFacts!EventInit
  <2>2. [Next]_vars => [EventFacts!EventNext]_EventFacts!eventVars
    BY EventStep DEF m_Event!EventNext, m_Event!eventVars, m_Event!SignalEvent,
       m_Event!PulseEvent, m_Event!CondSignal, m_Event!Waiting,
       m_Event!WaitEvent, m_Event!WaitInternal, m_Event!WaitReturn,
       m_Event!SpuriousWakeup, m_Event!WaitAgain, m_Event!ApcBegin,
       m_Event!ApcEnd, EventFacts!EventNext, EventFacts!eventVars,
       EventFacts!SignalEvent, EventFacts!PulseEvent, EventFacts!CondSignal,
       EventFacts!Waiting, EventFacts!WaitEvent, EventFacts!WaitInternal,
       EventFacts!WaitReturn, EventFacts!SpuriousWakeup, EventFacts!WaitAgain,
       EventFacts!ApcBegin, EventFacts!ApcEnd
  <2> QED BY <2>1, <2>2, PTL DEF Spec, EventFacts!EventSpec
<1>2. EventFacts!WaitReturnsOnlyIfSignalled => m_Event!WaitReturnsOnlyIfSignalled
  BY DEF EventFacts!WaitReturnsOnlyIfSignalled, m_Event!WaitReturnsOnlyIfSignalled,
     EventFacts!Waiting, m_Event!Waiting, EventFacts!eventVars, m_Event!eventVars
<1> QED
  BY <1>1, <1>2, SwitchAssumption, EventFacts!NoReturnWithoutSignal

=============================================================================
