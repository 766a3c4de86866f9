------------------------------ MODULE Hiredis ------------------------------
(***************************************************************************)
(* One blocking hiredis context and the session the Redis server keeps for *)
(* it, as the programs of this repository use them.  The hiredis sources   *)
(* are not part of the repository (lib/ has the library, hiredis.h the     *)
(* interface), so this module is the environment of Quote and CRedisConn.  *)
(*                                                                         *)
(* A blocking call ends in one of four ways:                               *)
(*   executed  the server ran the command and its answer was read          *)
(*   refused   the server answered with an error (not authenticated, out   *)
(*             of memory, ...) and did nothing                             *)
(*   unsent    the call failed and the server never ran the command        *)
(*   lost      the server ran the command, then the call failed            *)
(* After a failure the context stays in error: every later call on it      *)
(* fails without reaching the server.                                      *)
(***************************************************************************)

CONSTANTS
    LinkMayFail,      \* may connecting fail, may a command fail half-way?
    ServerMayRefuse   \* may the server refuse commands and passwords?

VARIABLES
    context,    \* the redisContext: no object, usable, or in error
    admitted    \* the server runs the commands of this connection

ContextStates == {"NULL", "ok", "err"}
Outcomes == {"executed", "refused", "unsent", "lost"}
Replies == {"NULL", "status", "error"}

HiredisTypeOK ==
    /\ context \in ContextStates
    /\ admitted \in BOOLEAN

HiredisInit ==
    /\ context = "NULL"
    /\ admitted = FALSE

-----------------------------------------------------------------------------
(* redisConnectWithTimeout: an allocation failure yields no context at all. *)
ConnectOutcomes == IF LinkMayFail THEN ContextStates ELSE {"ok"}

(* A server that asks for no password admits a new connection at once. *)
Admission(c) == IF c = "ok" THEN BOOLEAN ELSE {FALSE}

Connect ==
    /\ context' \in ConnectOutcomes
    /\ admitted' \in Admission(context')

(* How a command may end in the present state of the connection. *)
MayEnd(outcome) ==
    /\ context # "NULL"
    /\ \/ context = "err" /\ outcome = "unsent"
       \/ context = "ok"  /\ \/ outcome = "executed" /\ admitted
                             \/ outcome = "refused" /\ (ServerMayRefuse \/ ~admitted)
                             \/ outcome = "unsent" /\ LinkMayFail
                             \/ outcome = "lost" /\ LinkMayFail /\ admitted

ReplyTo(outcome) ==
    CASE outcome = "executed" -> "status"
      [] outcome = "refused"  -> "error"
      [] OTHER                -> "NULL"

Executes(outcome) == outcome \in {"executed", "lost"}

(* redisCommand, but for what the server does to its data. *)
Command(outcome) ==
    /\ MayEnd(outcome)
    /\ context' = IF outcome \in {"unsent", "lost"} THEN "err" ELSE context
    /\ UNCHANGED admitted

(* redisCommand with AUTH: a right password admits the connection.  A wrong
   one, or a server that asks for none, gives an error reply. *)
AuthMayEnd(outcome) ==
    /\ context # "NULL"
    /\ \/ context = "err" /\ outcome = "unsent"
       \/ context = "ok"  /\ \/ outcome = "executed"
                             \/ outcome = "refused" /\ (ServerMayRefuse \/ admitted)
                             \/ outcome \in {"unsent", "lost"} /\ LinkMayFail

Auth(outcome) ==
    /\ AuthMayEnd(outcome)
    /\ context' = IF outcome \in {"unsent", "lost"} THEN "err" ELSE context
    /\ admitted' = (admitted \/ Executes(outcome))
=============================================================================
