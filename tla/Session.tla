------------------------------ MODULE Session ------------------------------
(***************************************************************************)
(* What the connection half of class CRedisConn promises its caller: a     *)
(* session with the server that is closed, open or broken, whose every     *)
(* answer tells which.  The context, the flag _connected, the replies and  *)
(* the ways a round trip may end are left out.                             *)
(*                                                                         *)
(* A caller told true or false by a call that went out knows that the link *)
(* held; an exception, or a NULL reply of redisCmd, means that it did not. *)
(* ping, which is there to find out, may say false of a broken link.       *)
(***************************************************************************)
VARIABLES
    link,       \* the session: "closed", "open" or "broken"
    calling,    \* the call that talks to the server, or "none"
    verdict     \* what the last call came to

sessionVars == <<link, calling, verdict>>

SessionInit ==
    /\ link = "closed"
    /\ calling = "none"
    /\ verdict = "none"

AtRest == calling = "none" /\ verdict \notin {"crash", "destroyed"}

-----------------------------------------------------------------------------
(* Whatever the session was, it is a new one or none. *)
Open ==
    /\ AtRest
    /\ \/ link' = "open" /\ verdict' = "true"
       \/ link' = "closed" /\ verdict' = "false"
    /\ UNCHANGED calling

Close ==
    /\ AtRest
    /\ link' = "closed"
    /\ verdict' \in {"void", "destroyed"}
    /\ UNCHANGED calling

Configure ==
    /\ AtRest
    /\ verdict' = "void"
    /\ UNCHANGED <<link, calling>>

(* A call on a closed session is turned away, or dies of it (redisCmd). *)
TurnAway ==
    /\ AtRest /\ link = "closed"
    /\ verdict' \in {"false", "crash"}
    /\ UNCHANGED <<link, calling>>

(* Every other call goes out, and may find or leave the session broken. *)
Begin ==
    /\ AtRest /\ link # "closed"
    /\ calling' \in {"auth", "ping", "method", "redisCmd"}
    /\ link' \in {link, "broken"}
    /\ UNCHANGED verdict

(* It comes back, and its verdict tells a broken session from an open one. *)
End ==
    /\ calling # "none" /\ calling' = "none"
    /\ verdict' \in
          CASE link = "open" /\ calling # "redisCmd" -> {"true", "false"}
            [] link = "open" /\ calling = "redisCmd" -> {"reply"}
            [] link = "broken" /\ calling \in {"auth", "method"} -> {"exception"}
            [] link = "broken" /\ calling = "ping" -> {"exception", "false"}
            [] link = "broken" /\ calling = "redisCmd" -> {"NULL"}
    /\ UNCHANGED link

SessionNext == Open \/ Close \/ Configure \/ TurnAway \/ Begin \/ End

SessionSpec == SessionInit /\ [][SessionNext]_sessionVars
=============================================================================
