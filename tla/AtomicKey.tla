----------------------------- MODULE AtomicKey -----------------------------
(***************************************************************************)
(* What the list and hash methods of class CRedisConn promise a caller     *)
(* who is alone on a key, with the connection, the round trip and the      *)
(* answer of the server left out.                                          *)
(*                                                                         *)
(* A call takes effect as a whole and at one instant, the one at which it  *)
(* returns: told true, the caller may rely on the effect and on its        *)
(* variables; told false, on no effect; an exception means one or the      *)
(* other, never a part, never something else.                              *)
(***************************************************************************)
EXTENDS Integers, SequencesExt

CONSTANTS
    Values,   \* list elements and values of fields
    Fields    \* fields of the hash

VARIABLES
    key,       \* the data of the key: [list, hash], of which one is empty
    calling,   \* the call in progress
    told       \* what the last call came to, and the caller's variables

keyVars == <<key, calling, told>>

NoHash == <<>>
NoCall == [m |-> "none"]
Nothing == [result |-> "none"]

ListCalls ==
    [m: {"lpush", "rpush"}, value: Values]
    \cup [m: {"lpop", "rpop", "llen"}]
    \cup [m: {"lindex"}, index: Int]
    \cup [m: {"lrange"}, start: Int, stop: Int]
    \cup [m: {"linsert"}, position: {"BEFORE", "AFTER"}, pivot: Values, value: Values]

HashCalls ==
    [m: {"hget", "hdel"}, field: Fields]
    \cup [m: {"hset"}, field: Fields, value: Values]
    \cup [m: {"hgetall"}]

-----------------------------------------------------------------------------
(* A value is put next to the first element that equals pivot. *)
Inserted(position, pivot, v, l, new) ==
    \E i \in 1..Len(l) :
        LET left  == SubSeq(l, 1, i - 1)
            right == SubSeq(l, i + 1, Len(l))
        IN  /\ l[i] = pivot
            /\ \A j \in 1..i - 1 : l[j] # pivot
            /\ new = left \o (IF position = "BEFORE" THEN <<v, pivot>>
                                                     ELSE <<pivot, v>>) \o right

(* Call c makes of list l the list new. *)
ListEffect(c, l, new) ==
    /\ c.m = "lpush" => new = <<c.value>> \o l
    /\ c.m = "rpush" => new = Append(l, c.value)
    /\ c.m = "lpop" => l # <<>> /\ new = Tail(l)
    /\ c.m = "rpop" => l # <<>> /\ new = Front(l)
    /\ c.m = "linsert" => Inserted(c.position, c.pivot, c.value, l, new)
    /\ c.m \in {"llen", "lindex", "lrange"} => new = l

(* Call c makes of hash h the hash new. *)
HashEffect(c, h, new) ==
    /\ c.m = "hset" =>
          new = [f \in DOMAIN h \cup {c.field} |-> IF f = c.field THEN c.value ELSE h[f]]
    /\ c.m = "hdel" =>
          c.field \in DOMAIN h /\ new = [f \in DOMAIN h \ {c.field} |-> h[f]]
    /\ c.m \in {"hget", "hgetall"} => new = h

(* No method works on a key of the other kind. *)
Effect(c, old, new) ==
    \/ /\ c \in ListCalls
       /\ old.hash = NoHash /\ new.hash = NoHash
       /\ ListEffect(c, old.list, new.list)
    \/ /\ c \in HashCalls
       /\ old.list = <<>> /\ new.list = <<>>
       /\ HashEffect(c, old.hash, new.hash)

(* The elements from start to stop, indexes from 0 or, negative, from the end. *)
Interval(l, start, stop) ==
    LET From(i) == IF i < 0 THEN i + Len(l) ELSE i
        Inside  == {j \in 1..Len(l) : From(start) < j /\ j <= From(stop) + 1}
    IN  [i \in 1..Cardinality(Inside) |-> l[Min(Inside) + i - 1]]

(* The caller's variables, out, tell of the effect of call c and of the key. *)
Shows(c, old, new, out) ==
    /\ c.m \in {"lpush", "rpush", "linsert"} => out.retval = Len(new.list)
    /\ c.m = "lpop" => out.value = Head(old.list)
    /\ c.m = "rpop" => out.value = Last(old.list)
    /\ c.m = "llen" => old.list # <<>> /\ out.retval = Len(old.list)
    /\ c.m = "lindex" =>
          LET i == IF c.index < 0 THEN c.index + Len(old.list) ELSE c.index
          IN  i \in 0..Len(old.list) - 1 /\ out.value = old.list[i + 1]
    /\ c.m = "lrange" =>
          out.list # <<>> /\ out.list = Interval(old.list, c.start, c.stop)
    /\ c.m = "hget" =>
          c.field \in DOMAIN old.hash /\ out.value = old.hash[c.field]
    /\ c.m = "hset" => out.retval = IF c.field \in DOMAIN old.hash THEN 0 ELSE 1
    /\ c.m = "hdel" => out.retval = 1
    /\ c.m = "hgetall" => old.hash # NoHash /\ out.map = old.hash

-----------------------------------------------------------------------------
KeyInit ==
    /\ key = [list |-> <<>>, hash |-> NoHash]
    /\ calling = NoCall
    /\ told = Nothing

Invoke ==
    /\ calling = NoCall
    /\ calling' \in ListCalls \cup HashCalls
    /\ told' = Nothing
    /\ UNCHANGED key

Return(result) ==
    /\ calling # NoCall /\ calling' = NoCall
    /\ told'.result = result

Succeed ==
    /\ Return("true")
    /\ Effect(calling, key, key')
    /\ Shows(calling, key, key', told'.out)

Fail ==
    /\ Return("false")
    /\ UNCHANGED key

Throw ==
    /\ Return("exception")
    /\ Effect(calling, key, key') \/ UNCHANGED key

(* A call that does not concern the key, or that found no connection. *)
Elsewhere ==
    /\ calling = NoCall
    /\ told' = Nothing
    /\ UNCHANGED <<key, calling>>

KeyNext == Invoke \/ Succeed \/ Fail \/ Throw \/ Elsewhere

KeySpec == KeyInit /\ [][KeyNext]_keyVars

=============================================================================
