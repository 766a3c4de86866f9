------------------------------- MODULE Quote -------------------------------
(***************************************************************************)
(* The quote pusher: main of ConsoleApp.cpp and class Quote of Quote.cpp.  *)
(*                                                                         *)
(* Two threads run the code.  The main thread connects to Redis, logs in   *)
(* to the quote server, waits on an event until the vendor's API is ready, *)
(* subscribes to one contract and then waits for a key.  The API thread of *)
(* the vendor's library delivers callbacks, one at a time; each relays     *)
(* what it is told to Redis over the one context redisCTX.                 *)
(*                                                                         *)
(* A step of main is one call of Run or main.  A callback is cut where it  *)
(* talks to Redis: the command and its answer are one step, what follows   *)
(* is another.  The vendor's library and its server are the environment;   *)
(* session, connected and sub are what that side knows.                    *)
(*                                                                         *)
(* The queries of commodities and contracts are not here: Run issues none  *)
(* (Quote.cpp:86 is commented out), so their callbacks never come.         *)
(***************************************************************************)
EXTENDS Naturals, Sequences, FiniteSets

CONSTANTS
    MaxTicks,         \* bound: ticks the server sends
    DateTimeStamps,   \* well-formed time stamps of ticks
    ShortStamps,      \* time stamps of fewer than 20 characters
    ApiMayFail,       \* may the vendor's API fail, refuse or disconnect?
    LinkMayFail,      \* may the connection to Redis fail?
    ServerMayRefuse,  \* may Redis refuse commands and the password?
    Compiler,         \* the branch of SimpleEvent.cpp that is built
    KernelApc         \* may the kernel borrow the waiting thread?

ASSUME MaxTicksAssumption == MaxTicks \in Nat
ASSUME StampAssumption == DateTimeStamps \cap ShortStamps = {}
ASSUME SwitchAssumption ==
    /\ {ApiMayFail, LinkMayFail, ServerMayRefuse, KernelApc} \subseteq BOOLEAN
    /\ Compiler \in {"_MSC_VER", "__GNUC__"}

VARIABLES
    mainPc,         \* the next call of the main thread
    fault,          \* "none", or the call that killed the process
    phase, bIsSignal, signalled,    \* the event m_Event, see SimpleEvent
    m_bIsAPIReady,
    redisCTX, admitted,             \* the context and its server session
    session,        \* how far the login has got, as the API knows it
    connected,      \* FALSE once OnDisconnect was called
    sub,            \* the subscription, as the API knows it
    callback,       \* the API thread: "idle", or where in which callback
    reply, pubReply, setReply,      \* the callbacks' locals
    unfreed,        \* replies hiredis allocated that nobody has freed
    keys,           \* the keys set in Redis, those of ticks excluded
    delivered,      \* history: the time stamps of the ticks received
    published,      \* history: the ticks PUBLISH was run for, in order
    refusedTicks,   \* history: the ticks whose PUBLISH Redis refused
    tickStore       \* in Redis: the tick under each time stamp, 0 if none

eventVars == <<phase, bIsSignal, signalled>>
redisVars == <<redisCTX, admitted>>
apiVars == <<session, connected, sub>>
replyVars == <<reply, pubReply, setReply, unfreed>>
tickVars == <<delivered, published, refusedTicks, tickStore>>
vars == <<mainPc, fault, eventVars, m_bIsAPIReady, redisVars, apiVars,
          callback, replyVars, keys, tickVars>>

m_Event == INSTANCE SimpleEvent WITH Threads <- {"main"}
Redis == INSTANCE Hiredis WITH context <- redisCTX

-----------------------------------------------------------------------------
MainPcs == {"CreateTapQuoteAPI", "ConnectRedis", "Auth", "SetHostAddress",
            "Login", "WaitEvent", "Waiting", "CheckReady", "SubscribeItems",
            "getchar", "exited"}
Faults == {"none", "SetAPINotify", "redisCommand", "freeReplyObject",
           "out_of_range"}
Callbacks == {"idle", "OnRspLogin", "OnRtnQuote", "OnRtnQuote.set",
              "OnRtnQuote.free"}
NoReply == "none"
Locals == {NoReply, "NULL", "status", "error"}

ControlTypeOK ==
    /\ mainPc \in MainPcs
    /\ fault \in Faults
    /\ m_Event!EventTypeOK
    /\ m_bIsAPIReady \in BOOLEAN
    /\ Redis!HiredisTypeOK
    /\ session \in {"none", "linking", "refused", "loggedIn", "ready"}
    /\ connected \in BOOLEAN
    /\ sub \in {"none", "requested", "active", "refused"}
    /\ callback \in Callbacks

ReplyTypeOK ==
    /\ reply \in Locals /\ pubReply \in Locals /\ setReply \in Locals
    /\ unfreed \in Nat

DataTypeOK ==
    /\ keys \subseteq {"Login_UserNo", "Sub"}
    /\ delivered \in Seq(DateTimeStamps) /\ Len(delivered) <= MaxTicks
    /\ published \in Seq(1..MaxTicks)
    /\ refusedTicks \subseteq 1..MaxTicks
    /\ tickStore \in [DateTimeStamps -> 0..MaxTicks]

TypeOK == ControlTypeOK /\ ReplyTypeOK /\ DataTypeOK

Init ==
    /\ mainPc = "CreateTapQuoteAPI"
    /\ fault = "none"
    /\ m_Event!EventInit
    /\ m_bIsAPIReady = FALSE
    /\ Redis!HiredisInit
    /\ session = "none" /\ connected = TRUE /\ sub = "none"
    /\ callback = "idle"
    /\ reply = NoReply /\ pubReply = NoReply /\ setReply = NoReply
    /\ unfreed = 0
    /\ keys = {}
    /\ delivered = <<>> /\ published = <<>> /\ refusedTicks = {}
    /\ tickStore = [s \in DateTimeStamps |-> 0]

IsReply(r) == r \in {"status", "error"}

(* The replies a command that ended so adds to the heap. *)
Allocated(outcome) == IF IsReply(Redis!ReplyTo(outcome)) THEN 1 ELSE 0

(* Mutant: the reply is dropped without freeReplyObject. *)
ForgottenReply(r) == 0

(* Mutant: what freeReplyObject is handed is freed, reply or not. *)
FreedUnseen(r) == 1

(* What "if (r != NULL) freeReplyObject(r)" takes from the heap. *)
Freed(r) == IF IsReply(r) THEN 1 ELSE 0

(* Mutant: a context in error is replaced by a new connection. *)
CommandReconnecting(outcome) ==
    IF redisCTX = "err"
    THEN outcome = "executed" /\ redisCTX' = "ok" /\ UNCHANGED admitted
    ELSE Redis!Command(outcome)

(* redisCommand(redisCTX, ...): whatever the state of the context. *)
Command(outcome) == Redis!Command(outcome)

-----------------------------------------------------------------------------
(* main, up to SetAPI.  A NULL API is reported and then used all the same. *)
CreateTapQuoteAPI ==
    /\ mainPc = "CreateTapQuoteAPI"
    /\ \/ mainPc' = "ConnectRedis" /\ UNCHANGED fault
       \/ /\ ApiMayFail
          /\ fault' = "SetAPINotify"
          /\ UNCHANGED mainPc
    /\ UNCHANGED <<eventVars, m_bIsAPIReady, redisVars, apiVars, callback,
                   replyVars, keys, tickVars>>

(* ConnectRedis, up to its last line: an error is only printed. *)
ConnectRedis ==
    /\ mainPc = "ConnectRedis"
    /\ mainPc' = "Auth"
    /\ Redis!Connect
    /\ UNCHANGED <<fault, eventVars, m_bIsAPIReady, apiVars, callback,
                   replyVars, keys, tickVars>>

(* The last line of ConnectRedis.  The reply is neither read nor freed. *)
Auth ==
    /\ mainPc = "Auth"
    /\ \/ /\ redisCTX = "NULL"
          /\ fault' = "redisCommand"
          /\ UNCHANGED <<mainPc, redisVars, unfreed>>
       \/ \E outcome \in Redis!Outcomes :
             /\ Redis!Auth(outcome)
             /\ unfreed' = unfreed + Allocated(outcome)
             /\ mainPc' = "SetHostAddress"
             /\ UNCHANGED fault
    /\ UNCHANGED <<eventVars, m_bIsAPIReady, apiVars, callback, reply,
                   pubReply, setReply, keys, tickVars>>

(* Run returns to main, which waits for a key, when the host is refused. *)
SetHostAddress ==
    /\ mainPc = "SetHostAddress"
    /\ \/ mainPc' = "Login"
       \/ ApiMayFail /\ mainPc' = "getchar"
    /\ UNCHANGED <<fault, eventVars, m_bIsAPIReady, redisVars, apiVars,
                   callback, replyVars, keys, tickVars>>

(* The asynchronous request: from here on the API thread may call back. *)
Login ==
    /\ mainPc = "Login"
    /\ \/ mainPc' = "WaitEvent" /\ session' = "linking"
       \/ ApiMayFail /\ mainPc' = "getchar" /\ UNCHANGED session
    /\ UNCHANGED <<fault, eventVars, m_bIsAPIReady, redisVars, connected, sub,
                   callback, replyVars, keys, tickVars>>

WaitEvent ==
    /\ mainPc = "WaitEvent"
    /\ mainPc' = "Waiting"
    /\ m_Event!WaitEvent("main")
    /\ UNCHANGED <<fault, m_bIsAPIReady, redisVars, apiVars, callback,
                   replyVars, keys, tickVars>>

WaitReturn ==
    /\ mainPc = "Waiting"
    /\ mainPc' = "CheckReady"
    /\ m_Event!WaitReturn("main")
    /\ UNCHANGED <<fault, m_bIsAPIReady, redisVars, apiVars, callback,
                   replyVars, keys, tickVars>>

(* Mutant: Run subscribes without a look at m_bIsAPIReady. *)
AfterWaitUnchecked == "SubscribeItems"

AfterWait == IF m_bIsAPIReady THEN "SubscribeItems" ELSE "getchar"

CheckReady ==
    /\ mainPc = "CheckReady"
    /\ mainPc' = AfterWait
    /\ UNCHANGED <<fault, eventVars, m_bIsAPIReady, redisVars, apiVars,
                   callback, replyVars, keys, tickVars>>

(* A refusal by the API (iErr) is only printed. *)
SubscribeItems ==
    /\ mainPc = "SubscribeItems"
    /\ mainPc' = "getchar"
    /\ \/ sub' = "requested"
       \/ ApiMayFail /\ sub' = "refused"
    /\ UNCHANGED <<fault, eventVars, m_bIsAPIReady, redisVars, session,
                   connected, callback, replyVars, keys, tickVars>>

(* A key is pressed: main returns and the process ends. *)
Exit ==
    /\ mainPc = "getchar"
    /\ mainPc' = "exited"
    /\ UNCHANGED <<fault, eventVars, m_bIsAPIReady, redisVars, apiVars,
                   callback, replyVars, keys, tickVars>>

(* What happens to the main thread inside WaitEvent. *)
WaitInternal ==
    /\ m_Event!WaitInternal("main")
    /\ UNCHANGED <<mainPc, fault, m_bIsAPIReady, redisVars, apiVars, callback,
                   replyVars, keys, tickVars>>

-----------------------------------------------------------------------------
(* The API thread starts a callback only when the previous one has returned,
   and none after it has reported that the link is lost. *)
CanCallBack == callback = "idle" /\ connected

(* SET Login_UserNo, and the reply that freeReplyObject will be handed. *)
OnRspLoginSuccess ==
    /\ CanCallBack /\ session = "linking"
    /\ session' = "loggedIn"
    /\ callback' = "OnRspLogin"
    /\ \E outcome \in Redis!Outcomes :
          /\ Command(outcome)
          /\ reply' = Redis!ReplyTo(outcome)
          /\ unfreed' = unfreed + Allocated(outcome)
          /\ keys' = IF Redis!Executes(outcome)
                     THEN keys \cup {"Login_UserNo"} ELSE keys
    /\ UNCHANGED <<mainPc, fault, eventVars, m_bIsAPIReady, connected, sub,
                   pubReply, setReply, tickVars>>

(* freeReplyObject(reply), then m_bIsAPIReady = true.  The library of lib/
   reads through the pointer it is given, NULL or not. *)
OnRspLoginReturn ==
    /\ callback = "OnRspLogin"
    /\ \/ /\ reply = "NULL"
          /\ fault' = "freeReplyObject"
          /\ UNCHANGED <<callback, reply, unfreed, m_bIsAPIReady>>
       \/ /\ IsReply(reply)
          /\ unfreed' = unfreed - Freed(reply)
          /\ m_bIsAPIReady' = TRUE
          /\ callback' = "idle" /\ reply' = NoReply
          /\ UNCHANGED fault
    /\ UNCHANGED <<mainPc, eventVars, redisVars, apiVars, pubReply, setReply,
                   keys, tickVars>>

OnRspLoginFailure ==
    /\ ApiMayFail
    /\ CanCallBack /\ session = "linking"
    /\ session' = "refused"
    /\ m_Event!SignalEvent
    /\ UNCHANGED <<mainPc, fault, m_bIsAPIReady, redisVars, connected, sub,
                   callback, replyVars, keys, tickVars>>

(* Mutant: the API is ready and nobody is told. *)
OnAPIReadyUnsignalled ==
    /\ CanCallBack /\ session = "loggedIn"
    /\ session' = "ready"
    /\ UNCHANGED <<mainPc, fault, eventVars, m_bIsAPIReady, redisVars,
                   connected, sub, callback, replyVars, keys, tickVars>>

OnAPIReady ==
    /\ CanCallBack /\ session = "loggedIn"
    /\ session' = "ready"
    /\ m_Event!SignalEvent
    /\ UNCHANGED <<mainPc, fault, m_bIsAPIReady, redisVars, connected, sub,
                   callback, replyVars, keys, tickVars>>

(* Mutant: the loss of the link ends the wait. *)
OnDisconnectSignals ==
    /\ ApiMayFail
    /\ CanCallBack /\ session # "none"
    /\ connected' = FALSE
    /\ m_Event!SignalEvent
    /\ UNCHANGED <<mainPc, fault, m_bIsAPIReady, redisVars, session, sub,
                   callback, replyVars, keys, tickVars>>

(* The loss of the link is only printed. *)
OnDisconnect ==
    /\ ApiMayFail
    /\ CanCallBack /\ session # "none"
    /\ connected' = FALSE
    /\ UNCHANGED <<mainPc, fault, eventVars, m_bIsAPIReady, redisVars, session,
                   sub, callback, replyVars, keys, tickVars>>

(* SET exchange:Sub:commodity, whose reply is never freed. *)
OnRspSubscribeQuoteSuccess ==
    /\ CanCallBack /\ sub = "requested"
    /\ sub' = "active"
    /\ \E outcome \in Redis!Outcomes :
          /\ Command(outcome)
          /\ unfreed' = unfreed + Allocated(outcome)
          /\ keys' = IF Redis!Executes(outcome) THEN keys \cup {"Sub"} ELSE keys
    /\ UNCHANGED <<mainPc, fault, eventVars, m_bIsAPIReady, session, connected,
                   callback, reply, pubReply, setReply, tickVars>>

(* Mutant: the key is set before errorCode is looked at. *)
SubKeyFirst ==
    /\ ApiMayFail
    /\ CanCallBack /\ sub = "requested"
    /\ sub' \in {"active", "refused"}
    /\ keys' = keys \cup {"Sub"}
    /\ UNCHANGED <<mainPc, fault, eventVars, m_bIsAPIReady, redisVars, session,
                   connected, callback, replyVars, tickVars>>

(* A failed subscription, or a successful one without a quote (info NULL). *)
OnRspSubscribeQuoteNoInfo ==
    /\ ApiMayFail
    /\ CanCallBack /\ sub = "requested"
    /\ sub' \in {"active", "refused"}
    /\ UNCHANGED <<mainPc, fault, eventVars, m_bIsAPIReady, redisVars, session,
                   connected, callback, replyVars, keys, tickVars>>

-----------------------------------------------------------------------------
(* A tick arrives and its time stamp is converted.  datetime_timestamp prints
   that a short one is invalid and goes on: std::string::substr then throws,
   and nothing catches it. *)
OnRtnQuote ==
    /\ CanCallBack /\ sub = "active"
    /\ Len(delivered) < MaxTicks
    /\ \/ \E s \in DateTimeStamps :
             /\ delivered' = Append(delivered, s)
             /\ callback' = "OnRtnQuote"
             /\ UNCHANGED fault
       \/ /\ ShortStamps # {}
          /\ fault' = "out_of_range"
          /\ UNCHANGED <<delivered, callback>>
    /\ UNCHANGED <<mainPc, eventVars, m_bIsAPIReady, redisVars, apiVars,
                   replyVars, keys, published, refusedTicks, tickStore>>

(* Mutant: the commands are built from the tick before. *)
PreviousTick == IF Len(delivered) > 1 THEN Len(delivered) - 1 ELSE 1

Tick == Len(delivered)      \* the tick the callback is working on

OnRtnQuotePublish ==
    /\ callback = "OnRtnQuote"
    /\ callback' = "OnRtnQuote.set"
    /\ \E outcome \in Redis!Outcomes :
          /\ Command(outcome)
          /\ pubReply' = Redis!ReplyTo(outcome)
          /\ unfreed' = unfreed + Allocated(outcome)
          /\ published' = IF Redis!Executes(outcome)
                          THEN Append(published, Tick) ELSE published
          /\ refusedTicks' = IF outcome = "refused"
                             THEN refusedTicks \cup {Tick} ELSE refusedTicks
    /\ UNCHANGED <<mainPc, fault, eventVars, m_bIsAPIReady, apiVars, reply,
                   setReply, keys, delivered, tickStore>>

OnRtnQuoteSet ==
    /\ callback = "OnRtnQuote.set"
    /\ callback' = "OnRtnQuote.free"
    /\ \E outcome \in Redis!Outcomes :
          /\ Command(outcome)
          /\ setReply' = Redis!ReplyTo(outcome)
          /\ unfreed' = unfreed + Allocated(outcome)
          /\ tickStore' = IF Redis!Executes(outcome)
                          THEN [tickStore EXCEPT ![delivered[Tick]] = Tick]
                          ELSE tickStore
    /\ UNCHANGED <<mainPc, fault, eventVars, m_bIsAPIReady, apiVars, reply,
                   pubReply, keys, delivered, published, refusedTicks>>

(* Mutant: the replies are freed without a look at them. *)
OnRtnQuoteReturnUnguarded ==
    /\ callback = "OnRtnQuote.free"
    /\ "NULL" \in {pubReply, setReply}
    /\ fault' = "freeReplyObject"
    /\ UNCHANGED <<mainPc, eventVars, m_bIsAPIReady, redisVars, apiVars,
                   callback, replyVars, keys, tickVars>>

(* Both replies are freed, each unless it is NULL. *)
OnRtnQuoteReturn ==
    /\ callback = "OnRtnQuote.free"
    /\ callback' = "idle"
    /\ unfreed' = unfreed - Freed(pubReply) - Freed(setReply)
    /\ pubReply' = NoReply /\ setReply' = NoReply
    /\ UNCHANGED <<mainPc, fault, eventVars, m_bIsAPIReady, redisVars, apiVars,
                   reply, keys, tickVars>>

-----------------------------------------------------------------------------
Alive == fault = "none" /\ mainPc # "exited"

Main ==
    \/ CreateTapQuoteAPI
    \/ ConnectRedis
    \/ Auth
    \/ SetHostAddress
    \/ Login
    \/ WaitEvent
    \/ WaitReturn
    \/ CheckReady
    \/ SubscribeItems

(* The callbacks of the login sequence: the API promises them after Login. *)
LoginCallback ==
    \/ OnRspLoginSuccess
    \/ OnRspLoginFailure
    \/ OnAPIReady

(* What a callback that has begun still has to do. *)
FinishCallback ==
    \/ OnRspLoginReturn
    \/ OnRtnQuotePublish
    \/ OnRtnQuoteSet
    \/ OnRtnQuoteReturn

Next ==
    /\ Alive
    /\ \/ Main
       \/ WaitInternal
       \/ Exit
       \/ LoginCallback
       \/ FinishCallback
       \/ OnDisconnect
       \/ OnRspSubscribeQuoteSuccess
       \/ OnRspSubscribeQuoteNoInfo
       \/ OnRtnQuote

Spec == Init /\ [][Next]_vars

(* Both threads are scheduled, a woken waiter gets the processor and the API
   does go through the login sequence.  Nobody is bound to press a key, the
   kernel need not interrupt the wait and no failure need happen. *)
Fairness ==
    /\ WF_vars(Alive /\ Main)
    /\ WF_vars(Alive /\ LoginCallback)
    /\ WF_vars(Alive /\ FinishCallback)

FairSpec == Spec /\ Fairness

-----------------------------------------------------------------------------
(* SubscribeQuote is called only after OnAPIReady, as the vendor demands: Run
   (Quote.cpp:81-87) has no other evidence of it than the event and a flag that
   was raised earlier, by OnRspLogin. *)
SubscribesOnlyWhenReady == sub # "none" => session = "ready"

(* Run gives up without subscribing (Quote.cpp:66, :78, :83) only because a
   call of the API failed or the login was refused; a lost link, a spurious
   wakeup or a login that is still under way does not end it. *)
RunEndsWithCause ==
    (mainPc \in {"getchar", "exited"} /\ sub = "none")
        => session \in {"none", "refused"}

(* A signal that comes while Run waits (Quote.cpp:80, :175, :181) is not lost:
   Run is awake from then on, and nothing that happens inside WaitEvent keeps
   it from going on; but for a pulse that a kernel APC hides from it. *)
SignalledRunIsAwake ==
    (mainPc = "Waiting" /\ signalled["main"]) =>
        \/ phase["main"] = "woken" /\ (Compiler = "__GNUC__" => bIsSignal)
        \/ Compiler = "_MSC_VER" /\ KernelApc

Announced == {published[i] : i \in 1..Len(published)}

(* A subscriber of the channel misses a tick (Quote.cpp:326) only if Redis
   answered its PUBLISH with an error or if nothing comes any more: once a
   command has failed there is no hole, the stream ends. *)
LossIsASuffix ==
    \A j \in Announced : \A i \in 1..j : i \in Announced \cup refusedTicks

(* A tick found under its time stamp (Quote.cpp:329) was published before, or
   Redis refused to publish it: the keys never run ahead of the channel. *)
FiledWasAnnounced ==
    \A s \in DateTimeStamps :
        tickStore[s] # 0 => tickStore[s] \in Announced \cup refusedTicks

(* The process leaks the replies of AUTH and of the subscription (Quote.cpp:51,
   :289), and no others: however many ticks it relays, its heap does not grow. *)
RepliesBounded == callback = "idle" => unfreed <= 2

(* Redis being unreachable kills the process while it starts (Quote.cpp:51,
   :170), and no more once it is ready: OnRtnQuote survives every failure. *)
DiesOfRedisOnlyAtStart ==
    m_bIsAPIReady => fault \notin {"redisCommand", "freeReplyObject"}

(* What a reader of Redis infers from the keys is true: a user key means the
   login succeeded; a subscription key, a published or a filed tick means the
   exchange accepted the subscription (Quote.cpp:169, :289, :326, :329). *)
KeysTellTheTruth ==
    /\ "Login_UserNo" \in keys => session \in {"loggedIn", "ready"}
    /\ ("Sub" \in keys \/ Announced # {} \/ \E s \in DateTimeStamps : tickStore[s] # 0)
          => sub = "active"

Relay == INSTANCE TickRelay WITH
            feed <- delivered, channel <- published, filed <- tickStore

(* The pusher is a relay of ticks: it broadcasts and files only the newest
   tick, each at most once and under its own time stamp (Quote.cpp:302-351). *)
ImplementsTickRelay == Relay!RelaySpec

(* Channel and keys as their readers see them: ticks in the order of the feed,
   none twice, each under its own time stamp. *)
RelayOrder == Relay!RelayOrder

(* A Run that waits before the login sequence has ended is released by its end
   (Quote.cpp:175, :181), unless the link or the process is lost first. *)
WaitingRunIsReleased ==
    (mainPc = "Waiting" /\ session \in {"linking", "loggedIn"})
        ~> (mainPc # "Waiting" \/ ~connected \/ ~Alive)

-----------------------------------------------------------------------------
(* What follows is said of the program by a comment or a document, and is not
   so: see the findings in the README. *)

(* "Wait for APIReady" (Quote.cpp:80): once the API is ready, Run goes on. *)
ReadyReleasesRun ==
    session = "ready" ~> mainPc \notin {"WaitEvent", "Waiting"}

(* "invalid string - cant convert to timestamp" (Quote.cpp:148): a short time
   stamp is not converted. *)
InvalidStampIsNotConverted == fault # "out_of_range"
=============================================================================
