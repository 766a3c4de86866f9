---------------------------- MODULE RedisMethods ----------------------------
(***************************************************************************)
(* The list and hash methods of class CRedisConn, against the data of a    *)
(* Redis server (CRedisConn.cpp:216-730).  A method works on one key and   *)
(* keys do not interact, so the model has one: a list, a hash, or absent   *)
(* when both are empty.                                                    *)
(*                                                                         *)
(* Each method is a round trip, an action of its own below, and a return   *)
(* that makes of the answer a result and the values of the variables the   *)
(* caller passed by reference.  No other client writes to the key, and the *)
(* caller sends no MULTI through redisCmd: inside of a transaction every   *)
(* method would take the status QUEUED for its answer.  What that does to  *)
(* the results is in CRedisConn (QueuedReturn).                            *)
(***************************************************************************)
EXTENDS CRedisConn, Integers, SequencesExt

CONSTANTS
    Values,          \* list elements and values of fields
    Fields,          \* fields of the hash
    Starts,          \* first arguments of lrange: unsigned integers
    Stops,           \* second arguments of lrange, indexes of lindex: signed
    IntBits,         \* the width of those integers
    FreshVariables,  \* does the caller pass new variables to every call?
    MaxLen,          \* bound: elements of the list
    MaxDoubts        \* bound: calls that end in an exception

ASSUME MethodsAssumption ==
    /\ ServerMayRefuse      \* as it does when the type of the key is wrong
    /\ FreshVariables \in BOOLEAN
    /\ IntBits \in Nat \ {0} /\ MaxLen \in Nat /\ MaxDoubts \in Nat
    /\ Starts \subseteq 0..2^IntBits - 1
    /\ Stops \subseteq -(2^(IntBits - 1))..2^(IntBits - 1) - 1

VARIABLES
    list, hash,     \* the key, on the server
    call,           \* the method called last, and its arguments
    answer,         \* the payload of the reply
    out,            \* the caller's variables
    before, after,  \* history: the key when the call came, when it had run
    ledger,         \* history: the length of the list, as the results tell it
    doubts          \* history: calls whose end left their effect unknown

dataVars == <<list, hash, call, answer, out, before, after, ledger, doubts>>
methodVars == <<connVars, dataVars>>

ListWriters == {"lpush", "rpush", "linsert", "lpop", "rpop"}
ListMethods == ListWriters \cup {"lrange", "lindex", "llen"}
HashMethods == {"hget", "hset", "hdel", "hgetall"}

NIL == "nil"

(* The reply nil has a type of its own and no str (CRedisConn.cpp:266, :459): no
   string of the key is it. *)
ASSUME NilAssumption == NIL \notin Values

NoHash == <<>>
NoCall == [m |-> "none"]
Uninitialised == 99
Key == [list |-> list, hash |-> hash]
FreshOut == [retval |-> Uninitialised, value |-> "", list |-> <<>>, map |-> NoHash]

Hashes == UNION {[D -> Values] : D \in SUBSET Fields}
Lists == UNION {[1..n -> Values] : n \in 0..MaxLen}

MethodsTypeOK ==
    /\ ConnTypeOK
    /\ list \in Lists /\ hash \in Hashes
    /\ list = <<>> \/ hash = NoHash
    /\ call.m \in ListMethods \cup HashMethods \cup {"none"}
    /\ out.retval \in Nat
    /\ ledger \in Int /\ doubts \in 0..MaxDoubts

MethodsInit ==
    /\ ConnInit
    /\ list = <<>> /\ hash = NoHash
    /\ call = NoCall /\ answer = NIL /\ out = FreshOut
    /\ before = Key /\ after = Key
    /\ ledger = 0 /\ doubts = 0

-----------------------------------------------------------------------------
WrongType(m) == IF m \in ListMethods THEN hash # NoHash ELSE list # <<>>

(* What a method does to the caller's variables before it asks the server:
   only the pushes reset theirs. *)
Passed(m) ==
    LET given == IF FreshVariables THEN FreshOut ELSE out
    IN  IF m \in {"lpush", "rpush"} THEN [given EXCEPT !.retval = 0] ELSE given

(* The round trip of call c: it makes the key newList and newHash and is
   answered by a, if the server runs it. *)
Ask(c, newList, newHash, a) ==
    /\ doubts < MaxDoubts
    /\ \E outcome \in Redis!Outcomes :
          /\ WrongType(c.m) => ~Redis!Executes(outcome)
          /\ RoundTrip("method", outcome)
          /\ IF Redis!Executes(outcome)
             THEN list' = newList /\ hash' = newHash
             ELSE UNCHANGED <<list, hash>>
          /\ answer' = IF outcome = "executed" THEN a ELSE NIL
    /\ call' = c
    /\ out' = Passed(c.m)
    /\ before' = Key
    /\ after' = [list |-> list', hash |-> hash']
    /\ UNCHANGED <<ledger, doubts>>

Reads(c, a) == Ask(c, list, hash, a)
WritesList(c, newList, a) == Ask(c, newList, hash, a)
WritesHash(c, newHash, a) == Ask(c, list, newHash, a)

-----------------------------------------------------------------------------
lpush == \E v \in Values :
    /\ Len(list) < MaxLen
    /\ WritesList([m |-> "lpush", value |-> v], <<v>> \o list, Len(list) + 1)

rpush == \E v \in Values :
    /\ Len(list) < MaxLen
    /\ WritesList([m |-> "rpush", value |-> v], Append(list, v), Len(list) + 1)

lpop ==
    IF list = <<>> THEN Reads([m |-> "lpop"], NIL)
    ELSE WritesList([m |-> "lpop"], Tail(list), Head(list))

rpop ==
    IF list = <<>> THEN Reads([m |-> "rpop"], NIL)
    ELSE WritesList([m |-> "rpop"], Front(list), Last(list))

(* Redis counts a negative index from the end of the list. *)
Position(i) == IF i < 0 THEN i + Len(list) ELSE i

lindex == \E i \in Stops :
    Reads([m |-> "lindex", index |-> i],
          IF Position(i) \in 0..Len(list) - 1 THEN list[Position(i) + 1] ELSE NIL)

(* start is unsigned and printed by "%d", which keeps the smaller half. *)
IsIndex(start) == start < 2^(IntBits - 1)
AsInt(start) == IF IsIndex(start) THEN start ELSE start - 2^IntBits

lrange == \E start \in Starts, stop \in Stops :
    LET first == IF Position(AsInt(start)) < 0 THEN 0 ELSE Position(AsInt(start))
        last  == IF Position(stop) < Len(list) THEN Position(stop) ELSE Len(list) - 1
    IN  Reads([m |-> "lrange", start |-> start, stop |-> stop],
              SubSeq(list, first + 1, last + 1))

linsert == \E position \in {"BEFORE", "AFTER"}, pivot, v \in Values :
    LET c == [m |-> "linsert", position |-> position, pivot |-> pivot, value |-> v]
        i == SelectInSeq(list, LAMBDA e : e = pivot)
    IN  /\ Len(list) < MaxLen
        /\ IF list = <<>> THEN Reads(c, 0)
           ELSE IF i = 0 THEN Reads(c, -1)
           ELSE WritesList(c, InsertAt(list, IF position = "BEFORE" THEN i ELSE i + 1, v),
                           Len(list) + 1)

llen == Reads([m |-> "llen"], Len(list))

Known(f) == f \in DOMAIN hash

hget == \E f \in Fields :
    Reads([m |-> "hget", field |-> f], IF Known(f) THEN hash[f] ELSE NIL)

hset == \E f \in Fields, v \in Values :
    WritesHash([m |-> "hset", field |-> f, value |-> v],
               [g \in DOMAIN hash \cup {f} |-> IF g = f THEN v ELSE hash[g]],
               Count(~Known(f)))

hdel == \E f \in Fields :
    WritesHash([m |-> "hdel", field |-> f], Restrict(hash, DOMAIN hash \ {f}),
               Count(Known(f)))

hgetall == Reads([m |-> "hgetall"], hash)

-----------------------------------------------------------------------------
(* Mutant: an answer that is no error is a success. *)
FoundAlways == TRUE

(* Mutant: a field that was overwritten counts as a failure of hset. *)
FoundUnlessZero ==
    CASE call.m \in {"lpush", "rpush"}                -> TRUE
      [] call.m = "linsert"                           -> answer > 0
      [] call.m \in {"llen", "hset", "hdel"}          -> answer # 0
      [] call.m \in {"lpop", "rpop", "lindex", "hget"} -> answer # NIL
      [] call.m = "lrange"                            -> answer # <<>>
      [] call.m = "hgetall"                           -> answer # NoHash

(* Mutant: lrange takes an interval that ends after the list for an error. *)
FoundIfComplete ==
    CASE call.m \in {"lpush", "rpush", "hset"}        -> TRUE
      [] call.m = "linsert"                           -> answer \notin {-1, 0}
      [] call.m \in {"llen", "hdel"}                  -> answer # 0
      [] call.m \in {"lpop", "rpop", "lindex", "hget"} -> answer # NIL
      [] call.m = "lrange"  -> answer # <<>> /\ call.stop < Len(list)
      [] call.m = "hgetall"                           -> answer # NoHash

(* What a method takes for a success.  LINSERT answers by an integer outside of
   a transaction. *)
Found ==
    CASE call.m \in {"lpush", "rpush", "hset"}        -> TRUE
      [] call.m = "linsert"                           -> answer \notin {-1, 0}
      [] call.m \in {"llen", "hdel"}                  -> answer # 0
      [] call.m \in {"lpop", "rpop", "lindex", "hget"} -> answer # NIL
      [] call.m = "lrange"                            -> answer # <<>>
      [] call.m = "hgetall"                           -> answer # NoHash

(* Mutant: the two failures of LINSERT are taken for one another. *)
WhyNotSwapped ==
    IF call.m = "linsert" /\ answer = 0 THEN "ERR_NO_PIVOT"
    ELSE IF call.m \in {"linsert", "lpop", "rpop", "llen", "hgetall"} THEN "ERR_NO_KEY"
    ELSE IF call.m \in {"hget", "hdel"} THEN "ERR_NO_FIELD"
    ELSE "ERR_INDEX"

(* Why the others fail: ERR_INDEX and ERR_NO_FIELD stand for "that, or
   ERR_NO_KEY". *)
WhyNot ==
    CASE call.m = "linsert" /\ answer = -1            -> "ERR_NO_PIVOT"
      [] call.m = "linsert" /\ answer = 0             -> "ERR_NO_KEY"
      [] call.m \in {"lpop", "rpop", "llen", "hgetall"} -> "ERR_NO_KEY"
      [] call.m \in {"lindex", "lrange"}              -> "ERR_INDEX"
      [] OTHER                                        -> "ERR_NO_FIELD"

(* What std::map's insert makes of map m: an old entry stays as it was. *)
Inserted(m, new) ==
    [f \in DOMAIN m \cup DOMAIN new |-> IF f \in DOMAIN m THEN m[f] ELSE new[f]]

(* Mutant: a push reports the length of the list before it. *)
FilledLate ==
    IF call.m \in {"lpush", "rpush"} THEN [out EXCEPT !.retval = answer - 1]
    ELSE IF call.m \in {"linsert", "llen", "hset", "hdel"}
    THEN [out EXCEPT !.retval = answer]
    ELSE IF call.m = "lrange" THEN [out EXCEPT !.list = @ \o answer]
    ELSE IF call.m = "hgetall" THEN [out EXCEPT !.map = Inserted(@, answer)]
    ELSE [out EXCEPT !.value = answer]

(* The caller's variables after a success.  lrange appends to a list, hgetall
   inserts into a map. *)
Filled ==
    CASE call.m \in {"lpush", "rpush", "linsert", "llen", "hset", "hdel"}
                              -> [out EXCEPT !.retval = answer]
      [] call.m \in {"lpop", "rpop", "lindex", "hget"}
                              -> [out EXCEPT !.value = answer]
      [] call.m = "lrange"    -> [out EXCEPT !.list = @ \o answer]
      [] call.m = "hgetall"   -> [out EXCEPT !.map = Inserted(@, answer)]

(* And after "not found": three methods clear theirs. *)
Cleared ==
    IF call.m \in {"lpop", "rpop", "lindex"} THEN [out EXCEPT !.value = ""] ELSE out

(* What a true result tells of the length of the list. *)
Growth ==
    CASE call.m \in {"lpush", "rpush", "linsert"} -> 1
      [] call.m \in {"lpop", "rpop"}              -> -1
      [] OTHER                                    -> 0

ReturnFound ==
    /\ TrueReturn /\ Found
    /\ out' = Filled
    /\ ledger' = ledger + Growth
    /\ UNCHANGED doubts

ReturnNotFound ==
    /\ reply = "status" /\ ~Found
    /\ NotFoundReturn(WhyNot)
    /\ out' = Cleared
    /\ UNCHANGED <<ledger, doubts>>

ReturnError ==
    /\ ErrorReturn
    /\ UNCHANGED <<out, ledger, doubts>>

ReturnException ==
    /\ NullReturn
    /\ doubts' = doubts + 1
    /\ UNCHANGED <<out, ledger>>

Return ==
    /\ op = "method"
    /\ \/ ReturnFound \/ ReturnNotFound \/ ReturnError \/ ReturnException
    /\ UNCHANGED <<list, hash, call, answer, before, after>>

(* Calls that do not reach the data. *)
Aside ==
    /\ connect \/ disConnect \/ NotConnected("method")
    /\ call' = NoCall
    /\ UNCHANGED <<list, hash, answer, out, before, after, ledger, doubts>>

MethodsNext ==
    \/ lpush \/ rpush \/ lpop \/ rpop
    \/ lindex \/ lrange \/ linsert \/ llen
    \/ hget \/ hset \/ hdel \/ hgetall
    \/ Return
    \/ Aside

MethodsSpec == MethodsInit /\ [][MethodsNext]_methodVars

-----------------------------------------------------------------------------
Returned(m, r) == op = "none" /\ call.m = m /\ result = r

(* A method that returned false has changed nothing on the server: whatever it
   makes of the answer, it may be called again (CRedisConn.cpp:266, :347, :513). *)
FalseMeansNoEffect ==
    (op = "none" /\ call.m # "none" /\ result = "false") => after = before

(* The elements from start to stop, indexes from 0 or, negative, from the end. *)
Interval(l, start, stop) ==
    LET From(i) == IF i < 0 THEN i + Len(l) ELSE i
        Inside  == {j \in 1..Len(l) : From(start) < j /\ j <= From(stop) + 1}
    IN  [i \in 1..Cardinality(Inside) |-> l[Min(Inside) + i - 1]]

(* A method that returned true did what CRedisConn.h says of it, and left in
   the caller's variables what the key held (CRedisConn.h:155-254): lengths
   after the change, the element or value that was there, new field or old.  Of
   lrange this is claimed for the smaller half of the starts only. *)
TrueMeansDone ==
    /\ \A m \in {"lpush", "rpush", "linsert"} : Returned(m, "true")
          => out.retval = Len(after.list) /\ Len(after.list) = Len(before.list) + 1
    /\ Returned("lpop", "true") => before.list = <<out.value>> \o after.list
    /\ Returned("rpop", "true") => before.list = Append(after.list, out.value)
    /\ Returned("llen", "true") => out.retval = Len(before.list)
    /\ Returned("lindex", "true") =>
          \/ call.index >= 0 /\ out.value = before.list[call.index + 1]
          \/ call.index < 0  /\ out.value = Reverse(before.list)[-call.index]
    /\ Returned("lrange", "true") /\ IsIndex(call.start) =>
          out.list = Interval(before.list, call.start, call.stop)
    /\ Returned("hget", "true") => before.hash[call.field] = out.value
    /\ Returned("hset", "true") =>
          /\ after.hash[call.field] = call.value
          /\ out.retval = 0 <=> call.field \in DOMAIN before.hash
    /\ Returned("hdel", "true") =>
          /\ out.retval = 1
          /\ DOMAIN before.hash = DOMAIN after.hash \cup {call.field}
    /\ Returned("hgetall", "true") => out.map = before.hash

(* The reason a method gives for a failure is the case
   (CRedisConn.cpp:268, :349, :461, :515-520, :562, :601, :675, :714).  The text
   of lindex and lrange names the index first or second, and the key with it:
   there is no such element, be it for want of a list. *)
ReasonIsTrue ==
    (op = "none" /\ call.m # "none" /\ result = "false") =>
        /\ _errStr = "ERR_NO_KEY" =>
              IF call.m = "hgetall" THEN before.hash = NoHash ELSE before.list = <<>>
        /\ _errStr = "ERR_NO_PIVOT" =>
              before.list # <<>> /\ call.pivot \notin ToSet(before.list)
        /\ _errStr = "ERR_NO_FIELD" => call.field \notin DOMAIN before.hash
        /\ _errStr = "ERR_INDEX" =>
              \/ /\ call.m = "lindex"
                 /\ call.index \notin -Len(before.list)..Len(before.list) - 1
              \/ /\ call.m = "lrange"
                 /\ IsIndex(call.start) =>
                       Interval(before.list, call.start, call.stop) = <<>>

(* A caller that adds up the results of its pushes, insertions and pops knows
   the length of the list, up to one for each call that threw: a lost answer
   (CRedisConn.cpp:230, :505, :259) is the one thing that leaves a doubt, and a
   caller that repeats such a push may push twice. *)
ResultsAccountForTheList ==
    op = "none" => Len(list) - ledger \in -doubts..doubts

(* The key as its caller sees it: a call in progress has not touched it. *)
SeenKey == IF op = "method" THEN before ELSE Key

(* The call as the server sees it: the start of a range is signed. *)
Signed(c) == IF c.m = "lrange" THEN [c EXCEPT !.start = AsInt(@)] ELSE c

Atomic == INSTANCE AtomicKey WITH
    key     <- SeenKey,
    calling <- IF op = "method" THEN Signed(call) ELSE NoCall,
    told    <- IF op = "method" \/ call = NoCall THEN [result |-> "none"]
               ELSE [result |-> result, out |-> out]

(* A call takes effect as a whole and only when it returns, with exactly the
   effect of its Redis command, and the result says whether it did; after an
   exception (CRedisConn.cpp:42) the caller cannot know, but the key is as it was
   or as the whole call leaves it. *)
ImplementsAtomicKey == Atomic!KeySpec

-----------------------------------------------------------------------------
(* What follows is said of the methods by CRedisConn.h, and is not so. *)

(* "valueMap: the values obtained", "valueList: the list of the interval"
   (CRedisConn.h:250, :171): of this call, not of earlier ones. *)
OutputIsOfThisCall ==
    /\ Returned("hgetall", "true") => out.map = before.hash
    /\ Returned("lrange", "true") /\ IsIndex(call.start) =>
          out.list = Interval(before.list, call.start, call.stop)

(* "start: the index at which the interval begins", a uint32_t (CRedisConn.h
   :171, :173): an index that counts from the start of the list, however large. *)
RangeBeginsAtStart ==
    Returned("lrange", "true") =>
        out.list = Interval(before.list, call.start, call.stop)
=============================================================================
