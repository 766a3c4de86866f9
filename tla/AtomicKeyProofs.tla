-------------------------- MODULE AtomicKeyProofs --------------------------
(***************************************************************************)
(* The list and hash methods implement AtomicKey, for a caller that passes *)
(* new variables: each step of the methods is a step of AtomicKey, or one  *)
(* that it does not see.                                                   *)
(***************************************************************************)
EXTENDS RedisMethodsProofs

-----------------------------------------------------------------------------
(* Of two lists that differ by one element at an end. *)
LEMMA EndOfList ==
    ASSUME NEW l \in Seq(Values), NEW a
    PROVE  /\ Head(<<a>> \o l) = a
           /\ Atomic!Last(Append(l, a)) = a
<1>1. Len(l) \in Nat
  BY LenProperties
<1>2. Head(<<a>> \o l) = a
  <2> DEFINE S == Values \cup {a}
             s == <<a>>
  <2>1. s \in Seq(S) /\ l \in Seq(S) /\ Len(s) = 1 /\ s[1] = a
    BY <1>1
  <2> HIDE DEF S, s
  <2>2. /\ s \o l \in Seq(S) /\ Len(s \o l) = Len(s) + Len(l)
        /\ \A i \in 1..Len(s) + Len(l) :
              (s \o l)[i] = IF i <= Len(s) THEN s[i] ELSE l[i - Len(s)]
    BY <2>1, ConcatProperties
  <2>3. Head(s \o l) = (s \o l)[1]
    BY <1>1, <2>1, <2>2
  <2>4. (s \o l)[1] = s[1]
    BY <1>1, <2>1, <2>2
  <2> QED BY <2>1, <2>3, <2>4 DEF s
<1>3. Atomic!Last(Append(l, a)) = a
  BY <1>1 DEF Atomic!Last
<1> QED BY <1>2, <1>3

(* AtomicKey means the same by an interval. *)
LEMMA SameInterval ==
    ASSUME NEW l, NEW i, NEW j
    PROVE  Atomic!Interval(l, i, j) = Interval(l, i, j)
<1>1. ASSUME NEW S PROVE Atomic!Cardinality(S) = Cardinality(S) /\ Atomic!Min(S) = Min(S)
  BY DEF Atomic!Cardinality, Cardinality, Atomic!Min, Min
<1> DEFINE From(k) == IF k < 0 THEN k + Len(l) ELSE k
           Inside  == {k \in 1..Len(l) : From(i) < k /\ k <= From(j) + 1}
<1>2. Atomic!Interval(l, i, j)
      = [k \in 1..Atomic!Cardinality(Inside) |-> l[Atomic!Min(Inside) + k - 1]]
  BY DEF Atomic!Interval
<1>3. Interval(l, i, j)
      = [k \in 1..Cardinality(Inside) |-> l[Min(Inside) + k - 1]]
  BY DEF Interval
<1> HIDE DEF Inside
<1> QED BY <1>1, <1>2, <1>3

(* New variables of the caller show, after a success, what AtomicKey says. *)
LEMMA FilledShows ==
    ASSUME DOMAIN out = DOMAIN FreshOut, out.list = <<>>, out.map = NoHash,
           Done(call, answer, before, after), Taken(call.m, answer),
           IsCall(call), before.list \in Lists, after.list \in Lists,
           out' = Filled
    PROVE  Atomic!Shows(Signed(call), before, after, out')
<1> DEFINE c == Signed(call)
<1>1. c.m = call.m
  BY CallIsOfAMethod
<1>2. /\ before.list \in Seq(Values) /\ Len(before.list) \in Nat
      /\ after.list \in Seq(Values)
      /\ Len(before.list) # 0 => before.list # <<>>
  BY ListsAreSequences, LenProperties, EmptySeq
<1>3. /\ c.m \in Numbered => out'.retval = answer
      /\ c.m \in {"lpop", "rpop", "lindex", "hget"} => out'.value = answer
  BY <1>1 DEF Filled, FreshOut, Numbered
<1>4. c.m = "lrange" => out'.list = answer
  <2>1. call.m = "lrange" => out'.list = <<>> \o answer /\ answer \in Seq(Values)
    BY DEF Filled, FreshOut, Done
  <2> QED BY <1>1, <2>1
<1>5. c.m = "hgetall" => out'.map = answer
  <2>1. call.m = "hgetall" => out'.map = Inserted(NoHash, answer) /\ answer \in Hashes
    BY DEF Filled, FreshOut, Done
  <2> QED BY <1>1, <2>1, InsertedIntoNothing
<1>6. c.m # "lrange" => c = call
  BY <1>1 DEF Signed
<1> HIDE DEF c
<1>7. c.m \in {"lpush", "rpush", "linsert"} => out'.retval = Len(after.list)
  BY <1>1, <1>3 DEF Done, Numbered
<1>8. c.m = "lpop" => out'.value = Head(before.list)
  BY <1>1, <1>2, <1>3, EndOfList DEF Done
<1>9. c.m = "rpop" => out'.value = Atomic!Last(before.list)
  BY <1>1, <1>2, <1>3, EndOfList DEF Done
<1>10. c.m = "llen" => before.list # <<>> /\ out'.retval = Len(before.list)
  BY <1>1, <1>2, <1>3 DEF Done, Taken, Numbered
<1>11. ASSUME c.m = "lindex"
       PROVE  LET i == IF c.index < 0 THEN c.index + Len(before.list) ELSE c.index
              IN  i \in 0..Len(before.list) - 1 /\ out'.value = before.list[i + 1]
  <2>1. c.index \in Int /\ c = call
    BY <1>1, <1>6, <1>11, IndexOfCall
  <2>2. CASE c.index \in 0..Len(before.list) - 1 /\ answer = before.list[c.index + 1]
    BY <1>2, <1>3, <1>11, <2>1, <2>2
  <2>3. CASE /\ -c.index \in 1..Len(before.list)
             /\ answer = Reverse(before.list)[-c.index]
    <3>1. Reverse(before.list)[-c.index] = before.list[Len(before.list) - (-c.index) + 1]
      BY <2>3 DEF Reverse
    <3>2. Len(before.list) - (-c.index) + 1 = c.index + Len(before.list) + 1
      BY <1>2, <2>1
    <3> QED BY <1>2, <1>3, <1>11, <2>1, <2>3, <3>1, <3>2
  <2> QED BY <1>11, <2>1, <2>2, <2>3 DEF Done
<1>12. ASSUME c.m = "lrange"
       PROVE  out'.list # <<>> /\ out'.list = Atomic!Interval(before.list, c.start, c.stop)
  <2>1. c = [call EXCEPT !.start = AsInt(@)]
    BY <1>1, <1>12 DEF c, Signed
  <2>2. Signed(call) \in Atomic!ListCalls
    BY <1>1, <1>12 DEF IsCall, HashMethods
  <2>3. c \in [m: {"lrange"}, start: Int, stop: Int]
    BY <1>12, <2>2 DEF c, Atomic!ListCalls
  <2>4. c.start = AsInt(call.start) /\ c.stop = call.stop
    BY <2>1, <2>3
  <2>5. answer # <<>> /\ answer = Interval(before.list, c.start, c.stop)
    BY <1>1, <1>12, <2>4 DEF Done, Taken
  <2> QED BY <1>4, <1>12, <2>4, <2>5, SameInterval
<1>13. /\ c.m = "hget" =>
             c.field \in DOMAIN before.hash /\ out'.value = before.hash[c.field]
       /\ c.m = "hset" => out'.retval = IF c.field \in DOMAIN before.hash THEN 0 ELSE 1
       /\ c.m = "hdel" => out'.retval = 1
  BY <1>1, <1>3, <1>6 DEF Done, Numbered
<1>14. c.m = "hgetall" => before.hash # NoHash /\ out'.map = before.hash
  BY <1>1, <1>5 DEF Done, Taken
<1> QED
  BY <1>7, <1>8, <1>9, <1>10, <1>11, <1>12, <1>13, <1>14
     DEF Atomic!Shows, Atomic!NoHash, NoHash, c

-----------------------------------------------------------------------------
LEMMA InitIsKeyInit == MethodsInit => Atomic!KeyInit
<1> SUFFICES ASSUME MethodsInit PROVE Atomic!KeyInit
  OBVIOUS
<1>1. list = <<>> /\ hash = NoHash /\ call = NoCall /\ op = "none"
  BY DEF MethodsInit, ConnInit
<1> QED BY <1>1 DEF Atomic!KeyInit, Atomic!NoHash, Atomic!NoCall, Atomic!Nothing,
                    SeenKey, Key, NoHash, NoCall

(* The round trip is where a call begins: nobody sees yet what it did. *)
LEMMA AskIsInvoke ==
    ASSUME LawfulAsk
    PROVE  Atomic!Invoke
<1>1. PICK c, newList, newHash, a :
          Ask(c, newList, newHash, a) /\ Lawful(c, newList, newHash, a)
  BY DEF LawfulAsk
<1>2. op = "none" /\ op' = "method" /\ call' = c /\ before' = Key
  BY <1>1 DEF Ask, RoundTrip, Callable
<1>3. Signed(call') \in Atomic!ListCalls \cup Atomic!HashCalls
  BY <1>1, <1>2 DEF Lawful, IsCall
<1> QED BY <1>2, <1>3 DEF Atomic!Invoke, Atomic!NoCall, NoCall, Atomic!Nothing, SeenKey

(* Every end of a call is an end that AtomicKey knows. *)
LEMMA ReturnIsReturn ==
    ASSUME DataInv, FreshVariables, Return
    PROVE  Atomic!Succeed \/ Atomic!Fail \/ Atomic!Throw
<1>1. /\ op = "method" /\ op' = "none"
      /\ UNCHANGED <<list, hash, call, answer, before, after>>
  BY DEF Return, ReturnFound, ReturnNotFound, ReturnError, ReturnException,
         TrueReturn, NotFoundReturn, ErrorReturn, NullReturn, Finish
<1>2. /\ IsCall(call)
      /\ reply = "error" => after = before
      /\ reply = "NULL" => after = before \/ Atomic!Effect(Signed(call), before, after)
      /\ reply = "status" =>
            /\ Tells(call, answer, before, after)
            /\ Taken(call.m, answer) => Atomic!Effect(Signed(call), before, after)
  BY <1>1 DEF DataInv, Pending
<1>3. call.m \in ListMethods \cup HashMethods /\ Signed(call).m # "none" /\ call # NoCall
  <2>1. call.m \in ListMethods \cup HashMethods /\ Signed(call).m = call.m
    BY <1>2, CallIsOfAMethod
  <2> QED BY <2>1 DEF ListMethods, ListWriters, HashMethods, NoCall
<1>4. SeenKey = before /\ SeenKey' = after
  BY <1>1 DEF SeenKey, Key, DataInv
<1>5. ASSUME NEW r, result' = r PROVE Atomic!Return(r)
  BY <1>1, <1>3, <1>5 DEF Atomic!Return, Atomic!NoCall, NoCall
<1>6. CASE ReturnFound
  <2>1. reply = "status" /\ result' = "true" /\ Found /\ out' = Filled
    BY <1>6 DEF ReturnFound, TrueReturn
  <2>2. Taken(call.m, answer)
    BY <1>3, <2>1, FoundIsTaken
  <2>3. Done(call, answer, before, after)
    BY <1>2, <2>1, <2>2 DEF Tells
  <2>4. DOMAIN out = DOMAIN FreshOut /\ out.list = <<>> /\ out.map = NoHash
    BY <1>1 DEF DataInv, Fresh
  <2>5. before.list \in Lists /\ after.list \in Lists
    BY DEF DataInv, MethodsTypeOK, Key
  <2>6. Atomic!Shows(Signed(call), before, after, out')
    BY <1>2, <2>1, <2>2, <2>3, <2>4, <2>5, FilledShows
  <2>7. Atomic!Effect(Signed(call), before, after)
    BY <1>2, <2>1, <2>2
  <2> QED BY <1>1, <1>3, <1>4, <1>5, <2>1, <2>6, <2>7 DEF Atomic!Succeed
<1>7. CASE ReturnNotFound
  <2>1. reply = "status" /\ result' = "false" /\ ~Taken(call.m, answer)
    BY <1>3, <1>7, FoundIsTaken DEF ReturnNotFound, NotFoundReturn
  <2>2. after = before
    BY <1>2, <2>1 DEF Tells
  <2> QED BY <1>4, <1>5, <2>1, <2>2 DEF Atomic!Fail
<1>8. CASE ReturnError
  <2>1. result' = "false" /\ after = before
    BY <1>2, <1>8 DEF ReturnError, ErrorReturn
  <2> QED BY <1>4, <1>5, <2>1 DEF Atomic!Fail
<1>9. CASE ReturnException
  <2>1. result' = "exception" /\ reply = "NULL"
    BY <1>9 DEF ReturnException, NullReturn
  <2> QED BY <1>1, <1>2, <1>4, <1>5, <2>1 DEF Atomic!Throw
<1> QED BY <1>6, <1>7, <1>8, <1>9 DEF Return

LEMMA AsideIsElsewhere == ASSUME Aside PROVE Atomic!Elsewhere
<1>1. op = "none" /\ op' = "none" /\ call' = NoCall /\ UNCHANGED <<list, hash>>
  BY DEF Aside, connect, disConnect, NotConnected, Callable
<1> QED BY <1>1 DEF Atomic!Elsewhere, Atomic!NoCall, Atomic!Nothing, NoCall, SeenKey, Key

LEMMA StutterIsUnseen ==
    ASSUME UNCHANGED methodVars
    PROVE  UNCHANGED Atomic!keyVars
BY DEF methodVars, connVars, dataVars, Atomic!keyVars, SeenKey, Key

LEMMA StepIsAKeyStep ==
    ASSUME DataInv, FreshVariables, [MethodsNext]_methodVars
    PROVE  [Atomic!KeyNext]_Atomic!keyVars
<1>1. list \in Lists /\ hash \in Hashes
  BY DEF DataInv, MethodsTypeOK
<1>2. CASE MethodsNext /\ ~Return /\ ~Aside
  <2>1. LawfulAsk
    BY <1>1, <1>2, MethodIsLawful DEF MethodsNext
  <2> QED BY <2>1, AskIsInvoke DEF Atomic!KeyNext
<1>3. CASE Return
  BY <1>3, ReturnIsReturn DEF Atomic!KeyNext
<1>4. CASE Aside
  BY <1>4, AsideIsElsewhere DEF Atomic!KeyNext
<1>5. CASE UNCHANGED methodVars
  BY <1>5, StutterIsUnseen
<1> QED BY <1>2, <1>3, <1>4, <1>5

(* A call takes effect as a whole and only when it returns, with exactly the
   effect of its Redis command; true promises the effect and tells of it, false
   promises that there was none, an exception leaves the two as the only
   possibilities (CRedisConn.cpp:216-730). *)
THEOREM MethodsAreAtomic ==
    ASSUME FreshVariables
    PROVE  MethodsSpec => ImplementsAtomicKey
<1>1. DataInv /\ [MethodsNext]_methodVars => [Atomic!KeyNext]_Atomic!keyVars
  BY StepIsAKeyStep
<1> QED
  BY <1>1, InitIsKeyInit, MethodsInvariance, PTL
     DEF MethodsSpec, ImplementsAtomicKey, Atomic!KeySpec

=============================================================================
