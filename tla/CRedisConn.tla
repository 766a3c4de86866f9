----------------------------- MODULE CRedisConn -----------------------------
(***************************************************************************)
(* The connection half of class CRedisConn (CRedisConn.cpp): connecting,   *)
(* authenticating, disconnecting, and the frame all the list and hash      *)
(* methods share: a look at the connection, redisCmd, _getError, what the  *)
(* method makes of the answer, freeReplyObject.  What the methods do to    *)
(* the data of the server is in RedisMethods.                              *)
(*                                                                         *)
(* An object belongs to one thread.  A call that talks to the server takes *)
(* two steps: the round trip, and what the caller gets.  result is what    *)
(* the last call came to; "void" for a call that returns nothing.          *)
(***************************************************************************)
EXTENDS Naturals

CONSTANTS
    LinkMayFail,       \* may the connection to Redis fail?
    ServerMayRefuse    \* may Redis refuse commands and the password?

ASSUME ConnSwitchAssumption == {LinkMayFail, ServerMayRefuse} \subseteq BOOLEAN

VARIABLES
    _redCtx,      \* the hiredis context
    admitted,     \* the server runs the commands of this connection
    queueing,     \* it answers them by "QUEUED": redisCmd sent a MULTI
    _connected,
    _password,    \* TRUE: a password is on record
    _errStr,      \* which kind of text getErrorStr returns
    op,           \* the call in progress, or "none"
    reply,        \* the local of that call
    result,       \* what the last call came to
    contexts,     \* hiredis contexts allocated and not freed
    replies       \* replies allocated and not freed

connVars == <<_redCtx, admitted, queueing, _connected, _password, _errStr, op,
              reply, result, contexts, replies>>

Redis == INSTANCE Hiredis WITH context <- _redCtx

-----------------------------------------------------------------------------
MethodErrors == {"ERR_NO_PIVOT", "ERR_NO_KEY", "ERR_NO_FIELD", "ERR_INDEX"}
ErrorKinds == MethodErrors \cup
    {"ERR_NO_ERROR", "ERR_NULL", "ERR_NO_CONNECT", "reply->str", "errstr"}
Operations == {"auth", "ping", "method", "redisCmd"}
Results == {"none", "void", "true", "false", "exception", "crash", "reply",
            "NULL", "destroyed"}

ConnTypeOK ==
    /\ Redis!HiredisTypeOK
    /\ queueing \in BOOLEAN
    /\ _connected \in BOOLEAN
    /\ _password \in BOOLEAN
    /\ _errStr \in ErrorKinds
    /\ op \in Operations \cup {"none"}
    /\ reply \in Redis!Replies \cup {"none"}
    /\ result \in Results
    /\ contexts \in Nat
    /\ replies \in Nat

(* The constructor. *)
ConnInit ==
    /\ Redis!HiredisInit
    /\ queueing = FALSE
    /\ _connected = FALSE
    /\ _password = FALSE
    /\ _errStr = "ERR_NO_ERROR"
    /\ op = "none" /\ reply = "none" /\ result = "none"
    /\ contexts = 0 /\ replies = 0

(* The object can be called: it exists and no call is in progress. *)
Callable == op = "none" /\ result \notin {"crash", "destroyed"}

Count(b) == IF b THEN 1 ELSE 0

-----------------------------------------------------------------------------
init ==
    /\ Callable
    /\ _password' \in BOOLEAN
    /\ result' = "void"
    /\ UNCHANGED <<_redCtx, admitted, queueing, _connected, _errStr, op, reply,
                   contexts, replies>>

(* Mutant: disConnect frees without a look at the object. *)
FreedAlways == 1

(* What disConnect frees. *)
FreedByDisConnect == Count(_connected /\ _redCtx # "NULL")

(* Mutant: the old context is overwritten. *)
FreedByConnectNothing == 0

(* connect frees the old context only if _connected says there is one. *)
FreedByConnect == FreedByDisConnect

(* What connect does to the connection.  On an error the new context is freed
   again.  The password is not sent: CRedisConn.cpp:130-140 is commented out. *)
Establish ==
    \E c \in Redis!ConnectOutcomes :
        /\ _redCtx' = IF c = "ok" THEN "ok" ELSE "NULL"
        /\ admitted' \in Redis!Admission(c)
        /\ queueing' = FALSE
        /\ _connected' = (c = "ok")
        /\ contexts' = contexts - FreedByConnect + Count(c = "ok")
        /\ _errStr' = CASE c = "ok"   -> "ERR_NO_ERROR"
                        [] c = "err"  -> "errstr"
                        [] c = "NULL" -> "ERR_NULL"
        /\ result' = IF c = "ok" THEN "true" ELSE "false"

(* connect() and reconnect(). *)
connect ==
    /\ Callable
    /\ Establish
    /\ UNCHANGED <<_password, op, reply, replies>>

(* connect(host, port, password, timeout). *)
connectTo ==
    /\ Callable
    /\ _password' \in BOOLEAN
    /\ Establish
    /\ UNCHANGED <<op, reply, replies>>

DropContext ==
    /\ contexts' = contexts - FreedByDisConnect
    /\ _redCtx' = IF _connected THEN "NULL" ELSE _redCtx
    /\ admitted' = (admitted /\ ~_connected)
    /\ queueing' = (queueing /\ ~_connected)
    /\ _connected' = FALSE

disConnect ==
    /\ Callable
    /\ DropContext
    /\ result' = "void"
    /\ UNCHANGED <<_password, _errStr, op, reply, replies>>

(* The destructor. *)
destroy ==
    /\ Callable
    /\ DropContext
    /\ result' = "destroyed"
    /\ UNCHANGED <<_password, _errStr, op, reply, replies>>

-----------------------------------------------------------------------------
(* auth looks at _connected only, redisCmd at nothing. *)
TurnedAway(o) ==
    \/ o = "auth" /\ ~_connected
    \/ o \in {"ping", "method"} /\ (~_connected \/ _redCtx = "NULL")

NotConnected(o) ==
    /\ Callable /\ TurnedAway(o)
    /\ _errStr' = "ERR_NO_CONNECT"
    /\ result' = "false"
    /\ UNCHANGED <<_redCtx, admitted, queueing, _connected, _password, op, reply,
                   contexts, replies>>

(* redisCommand and redisvCommand write through the context they are given. *)
NullContext(o) ==
    /\ Callable /\ ~TurnedAway(o)
    /\ _redCtx = "NULL"
    /\ result' = "crash"
    /\ UNCHANGED <<_redCtx, admitted, queueing, _connected, _password, _errStr, op,
                   reply, contexts, replies>>

(* A transaction begins and ends by redisCmd alone: with MULTI, with EXEC or
   DISCARD, with an EXEC that is refused. *)
TransactionStep(o, outcome) ==
    /\ queueing' \in BOOLEAN
    /\ queueing' # queueing =>
          o = "redisCmd" /\ (outcome = "executed" \/ (queueing /\ outcome = "refused"))

(* The round trip of call o, which the server or the link ends in outcome. *)
RoundTrip(o, outcome) ==
    /\ Callable /\ ~TurnedAway(o)
    /\ IF o = "auth" THEN Redis!Auth(outcome) ELSE Redis!Command(outcome)
    /\ TransactionStep(o, outcome)
    /\ op' = o
    /\ reply' = Redis!ReplyTo(outcome)
    /\ replies' = replies + Count(reply' # "NULL")
    /\ _password' = (_password \/ o = "auth")
    /\ UNCHANGED <<_connected, _errStr, result, contexts>>

(* Mutant: a method that fails returns early. *)
FreedOnSuccess == Count(reply = "status")

(* What "if (NULL != reply) freeReplyObject(reply)" frees. *)
FreedReply == Count(reply # "NULL")

(* The end of a call. *)
Finish ==
    /\ op' = "none" /\ reply' = "none"
    /\ replies' = replies - FreedReply
    /\ UNCHANGED <<_redCtx, admitted, queueing, _connected, _password, contexts>>

(* Mutant: a method or auth reports a missing reply as an ordinary failure. *)
NullReturnFalse ==
    /\ op \in {"auth", "ping", "method"} /\ reply = "NULL"
    /\ _errStr' = "ERR_NULL"
    /\ result' = IF op = "ping" THEN "exception" ELSE "false"
    /\ Finish

(* _getError throws: NullReplyException passes the free, but there is nothing
   to be freed. *)
NullReturn ==
    /\ op \in {"auth", "ping", "method"} /\ reply = "NULL"
    /\ _errStr' = "ERR_NULL"
    /\ result' = "exception"
    /\ Finish

ErrorReturn ==
    /\ op \in {"auth", "ping", "method"} /\ reply = "error"
    /\ _errStr' = "reply->str"
    /\ result' = "false"
    /\ Finish

(* _getError finds no error, and clears the text of an earlier one. *)
TrueReturn ==
    /\ op \in {"auth", "ping", "method"} /\ reply = "status"
    /\ _errStr' = "ERR_NO_ERROR"
    /\ result' = "true"
    /\ Finish

(* Mutant: the method leaves the text that _getError cleared. *)
NotFoundSilently(error) ==
    /\ op = "method" /\ reply = "status"
    /\ _errStr' = "ERR_NO_ERROR"
    /\ result' = "false"
    /\ Finish

(* A method takes an answer that is no error for a failure, and says why. *)
NotFoundReturn(error) ==
    /\ op = "method" /\ reply = "status"
    /\ _errStr' = error
    /\ result' = "false"
    /\ Finish

(* linsert has a branch for an answer that is neither an error nor an integer,
   which "QUEUED" is: a failure for which it gives no reason. *)
QueuedReturn ==
    /\ op = "method" /\ reply = "status" /\ queueing
    /\ _errStr' = "ERR_NO_ERROR"
    /\ result' = "false"
    /\ Finish

(* redisCmd hands the reply to its caller, who frees it. *)
RawReturn ==
    /\ op = "redisCmd"
    /\ result' = IF reply = "NULL" THEN "NULL" ELSE "reply"
    /\ Finish
    /\ UNCHANGED _errStr

-----------------------------------------------------------------------------
ConnectionStep == init \/ connect \/ connectTo \/ disConnect \/ destroy

CallStep(o) ==
    \/ NotConnected(o)
    \/ NullContext(o)
    \/ \E outcome \in Redis!Outcomes : RoundTrip(o, outcome)

ReturnStep ==
    \/ NullReturn
    \/ ErrorReturn
    \/ TrueReturn
    \/ \E error \in MethodErrors : NotFoundReturn(error)
    \/ QueuedReturn
    \/ RawReturn

ConnNext ==
    \/ ConnectionStep
    \/ \E o \in Operations : CallStep(o)
    \/ ReturnStep

ConnSpec == ConnInit /\ [][ConnNext]_connVars

-----------------------------------------------------------------------------
(* The guards of the methods test two variables (CRedisConn.cpp:164, :219, ...)
   and connect and disConnect trust one of them (:106, :145): they agree after
   every sequence of calls, so auth never meets a NULL context, and there is
   never a context that nobody will free. *)
OneContext ==
    /\ _connected <=> _redCtx # "NULL"
    /\ contexts = Count(_redCtx # "NULL")

(* No call leaks its reply, not even one that ends in NullReplyException, which
   skips the free at the end of the method (CRedisConn.cpp:42, :97-100). *)
RepliesAreFreed == op = "none" => replies = 0

(* getErrorStr explains the last call, not an earlier one: "no error" after
   true, an error after false, the NULL reply after an exception.  Inside a
   transaction a false result may come with "no error" (CRedisConn.cpp:38,
   :529-532). *)
ErrorTellsOutcome ==
    /\ result = "true" /\ op = "none" => _errStr = "ERR_NO_ERROR"
    /\ result = "false" /\ op = "none" => _errStr # "ERR_NO_ERROR" \/ queueing
    /\ result = "exception" /\ op = "none" => _errStr = "ERR_NULL"

(* How each call can fail of a link that is broken.  CRedisConn.h:117 has ping
   return false, where the code throws; either tells the caller. *)
Failures(o) ==
    CASE o \in {"auth", "method"} -> {"exception"}
      [] o = "ping"               -> {"exception", "false"}
      [] o = "redisCmd"           -> {"NULL"}

(* Once the link has failed under a call, that call and every later one fail,
   and say so: isConneced still says true, and nothing but connect makes the
   object usable again (CRedisConn.cpp:41-42, :106-115). *)
BrokenUntilReconnect ==
    [][_redCtx = "err" =>
          /\ op # "none" /\ op' = "none" => result' \in Failures(op)
          /\ _redCtx' = "ok" => op = "none" /\ result' = "true"]_connVars

Contract == INSTANCE Session WITH
    link    <- CASE _redCtx = "NULL" -> "closed"
                 [] _redCtx = "ok"   -> "open"
                 [] _redCtx = "err"  -> "broken",
    calling <- op,
    verdict <- result

(* The object is a session whose answers tell its state: it turns a call away
   only while closed, and a method or auth that went out returns true or false if
   and only if the link held, an exception if and only if it did not, although
   the guards look at _connected, which a failure leaves TRUE (CRedisConn.cpp
   :38-43, :77, :164, :219).  Of ping it says that it is true of no broken link. *)
ImplementsSession == Contract!SessionSpec

-----------------------------------------------------------------------------
(* "If the password is not empty, auth is called automatically" (CRedisConn.h
   :103): after a connect with the password the server runs the commands.  This
   is said of the class, and is not so. *)
ConnectAuthenticates ==
    [][(connectTo /\ result' = "true" /\ _password') => admitted']_connVars
=============================================================================
