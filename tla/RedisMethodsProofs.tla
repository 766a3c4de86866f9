------------------------- MODULE RedisMethodsProofs -------------------------
(***************************************************************************)
(* Proofs about the list and hash methods, for lists and hashes of any     *)
(* values and fields, and for every width of the integers.                 *)
(***************************************************************************)
EXTENDS RedisMethods, CRedisConnProofs, SequenceTheorems,
        WellFoundedInduction, FiniteSetTheorems

-----------------------------------------------------------------------------
(* A set of naturals that is not empty has a smallest member. *)
LEMMA MinIsMember ==
    ASSUME NEW I, I \subseteq Nat, I # {}
    PROVE  Min(I) \in I /\ \A y \in I : Min(I) =< y
<1>1. PICK x \in I : \A y \in I : <<y, x>> \notin OpToRel(<, Nat)
  BY NatLessThanWellFounded, WFMin
<1>2. \A y \in I : ~(y < x)
  <2> TAKE y \in I
  <2>1. <<y, x>> \in Nat \X Nat
    OBVIOUS
  <2>2. <<y, x>> \notin OpToRel(<, Nat)
    BY <1>1
  <2> QED BY <2>1, <2>2 DEF OpToRel
<1>3. \A y \in I : x =< y
  BY <1>2
<1> QED BY <1>3 DEF Min

(* Lists is the set of sequences that are not too long. *)
LEMMA ListsAreSequences ==
    ASSUME NEW l
    PROVE  l \in Lists <=> l \in Seq(Values) /\ Len(l) =< MaxLen
<1>1. ASSUME l \in Lists PROVE l \in Seq(Values) /\ Len(l) =< MaxLen
  <2>1. PICK n \in 0..MaxLen : l \in [1..n -> Values]
    BY <1>1 DEF Lists
  <2>2. n \in Nat
    BY <2>1, MethodsAssumption
  <2>3. l \in Seq(Values)
    BY <2>1, <2>2
  <2>4. Len(l) = n
    BY <2>1, <2>2
  <2> QED BY <2>1, <2>2, <2>3, <2>4, MethodsAssumption
<1>2. ASSUME l \in Seq(Values), Len(l) =< MaxLen PROVE l \in Lists
  <2>1. Len(l) \in Nat /\ l \in [1..Len(l) -> Values]
    BY <1>2, LenProperties
  <2>2. Len(l) \in 0..MaxLen
    BY <1>2, <2>1, MethodsAssumption
  <2> QED BY <2>1, <2>2 DEF Lists
<1> QED BY <1>1, <1>2

(* An insertion makes a list longer by one. *)
LEMMA Insertion ==
    ASSUME NEW l \in Seq(Values), NEW i \in 1..Len(l) + 1, NEW v \in Values
    PROVE  InsertAt(l, i, v) \in Seq(Values) /\ Len(InsertAt(l, i, v)) = Len(l) + 1
<1>1. Len(l) \in Nat /\ \A j \in 1..Len(l) : l[j] \in Values
  BY LenProperties
<1>2. SubSeq(l, 1, i - 1) \in Seq(Values) /\ Len(SubSeq(l, 1, i - 1)) = i - 1
  BY <1>1
<1>3. SubSeq(l, i, Len(l)) \in Seq(Values)
      /\ Len(SubSeq(l, i, Len(l))) = Len(l) - i + 1
  BY <1>1
<1>4. <<v>> \in Seq(Values) /\ Len(<<v>>) = 1
  OBVIOUS
<1>5. SubSeq(l, 1, i - 1) \o <<v>> \in Seq(Values)
      /\ Len(SubSeq(l, 1, i - 1) \o <<v>>) = i
  BY <1>1, <1>2, <1>4, ConcatProperties
<1> DEFINE start == SubSeq(l, 1, i - 1) \o <<v>>
           end   == SubSeq(l, i, Len(l))
<1>6. start \o end \in Seq(Values) /\ Len(start \o end) = Len(start) + Len(end)
  <2> HIDE DEF start, end
  <2>1. start \in Seq(Values) /\ end \in Seq(Values)
    BY <1>3, <1>5 DEF start, end
  <2> QED BY <2>1, ConcatProperties
<1>7. Len(start) + Len(end) = Len(l) + 1
  BY <1>1, <1>3, <1>5
<1> QED BY <1>6, <1>7 DEF InsertAt

(* Concatenation is associative, in the form in which it is used here. *)
LEMMA Associated ==
    ASSUME NEW s \in Seq(Values), NEW t \in Seq(Values), NEW u \in Seq(Values)
    PROVE  s \o (t \o u) = (s \o t) \o u
BY ConcatAssociative

(* The element inserted at a position, or after it, is next to the one there. *)
LEMMA InsertionIsNextTo ==
    ASSUME NEW l \in Seq(Values), NEW i \in 1..Len(l), NEW v \in Values
    PROVE  LET left  == SubSeq(l, 1, i - 1)
               right == SubSeq(l, i + 1, Len(l))
           IN  /\ InsertAt(l, i, v) = left \o <<v, l[i]>> \o right
               /\ InsertAt(l, i + 1, v) = left \o <<l[i], v>> \o right
<1> DEFINE left  == SubSeq(l, 1, i - 1)
           right == SubSeq(l, i + 1, Len(l))
           e     == l[i]
<1>1. Len(l) \in Nat /\ i \in Nat /\ e \in Values
  BY LenProperties
<1>2. left \in Seq(Values) /\ right \in Seq(Values)
  BY <1>1
<1>3. SubSeq(l, i, i) = <<e>>
  <2>1. /\ SubSeq(l, i, i) \in Seq(Values) /\ Len(SubSeq(l, i, i)) = 1
        /\ SubSeq(l, i, i)[1] = e
    BY <1>1
  <2>2. <<e>> \in Seq(Values) /\ Len(<<e>>) = 1 /\ <<e>>[1] = e
    BY <1>1
  <2> DEFINE s == SubSeq(l, i, i)
             t == <<e>>
  <2>3. \A j \in 1..1 : s[j] = t[j]
    BY <2>1, <2>2
  <2> HIDE DEF s, t
  <2>4. s = t
    BY <2>1, <2>2, <2>3, SeqEqual DEF s, t
  <2> QED BY <2>4 DEF s, t
<1>4. SubSeq(l, i, Len(l)) = <<e>> \o right
  BY <1>1, <1>3, ConcatAdjacentSubSeq
<1>5. SubSeq(l, 1, i) = left \o <<e>>
  <2>1. (i - 1) + 1 = i
    BY <1>1
  <2>2. SubSeq(l, 1, i - 1) \o SubSeq(l, (i - 1) + 1, i) = SubSeq(l, 1, i)
    BY <1>1, ConcatAdjacentSubSeq
  <2> QED BY <1>3, <2>1, <2>2
<1> HIDE DEF left, right, e
<1>6. /\ <<v>> \in Seq(Values) /\ <<e>> \in Seq(Values)
      /\ <<v>> \o <<e>> = <<v, e>> /\ <<e>> \o <<v>> = <<e, v>>
      /\ left \o <<v>> \in Seq(Values) /\ left \o <<e>> \in Seq(Values)
  <2>1. <<v>> \in Seq(Values) /\ <<e>> \in Seq(Values)
    BY <1>1
  <2>2. ASSUME NEW x \in Values, NEW y \in Values PROVE <<x>> \o <<y>> = <<x, y>>
    <3> DEFINE s == <<x>> \o <<y>>
               t == <<x, y>>
    <3>1. s \in Seq(Values) /\ Len(s) = 2 /\ s[1] = x /\ s[2] = y
      <4>1. <<x>> \in Seq(Values) /\ <<y>> \in Seq(Values)
            /\ Len(<<x>>) = 1 /\ Len(<<y>>) = 1 /\ <<x>>[1] = x /\ <<y>>[1] = y
        OBVIOUS
      <4> DEFINE a == <<x>>
                 b == <<y>>
      <4> HIDE DEF a, b
      <4>2. /\ a \o b \in Seq(Values) /\ Len(a \o b) = 2
            /\ (a \o b)[1] = a[1] /\ (a \o b)[2] = b[1]
        BY <4>1, ConcatProperties DEF a, b
      <4> QED BY <4>1, <4>2 DEF a, b
    <3>2. t \in Seq(Values) /\ Len(t) = 2 /\ t[1] = x /\ t[2] = y
      OBVIOUS
    <3> HIDE DEF s, t
    <3>3. s = t
      BY <3>1, <3>2, SeqEqual
    <3> QED BY <3>3 DEF s, t
  <2> QED BY <1>1, <1>2, <2>1, <2>2, ConcatProperties
<1>7. InsertAt(l, i, v) = left \o <<v, e>> \o right
  <2>1. InsertAt(l, i, v) = (left \o <<v>>) \o (<<e>> \o right)
    BY <1>4 DEF InsertAt, left
  <2>2. (left \o <<v>>) \o (<<e>> \o right) = ((left \o <<v>>) \o <<e>>) \o right
    BY <1>2, <1>6, Associated
  <2>3. (left \o <<v>>) \o <<e>> = left \o <<v, e>>
    BY <1>2, <1>6, ConcatAssociative
  <2> QED BY <2>1, <2>2, <2>3
<1>8. InsertAt(l, i + 1, v) = left \o <<e, v>> \o right
  <2>1. (i + 1) - 1 = i
    BY <1>1
  <2>2. InsertAt(l, i + 1, v) = ((left \o <<e>>) \o <<v>>) \o right
    BY <1>5, <2>1 DEF InsertAt, right
  <2>3. (left \o <<e>>) \o <<v>> = left \o <<e, v>>
    BY <1>2, <1>6, ConcatAssociative
  <2> QED BY <2>2, <2>3
<1> QED BY <1>7, <1>8 DEF left, right, e

-----------------------------------------------------------------------------
(* Found and Growth, of a method and an answer. *)
Taken(m, a) ==
    /\ m = "linsert" => a \notin {-1, 0}
    /\ m \in {"llen", "hdel"} => a # 0
    /\ m \in {"lpop", "rpop", "lindex", "hget"} => a # NIL
    /\ m = "lrange" => a # <<>>
    /\ m = "hgetall" => a # NoHash

Grown(m) ==
    IF m \in {"lpush", "rpush", "linsert"} THEN 1
    ELSE IF m \in {"lpop", "rpop"} THEN -1 ELSE 0

(* The methods that write their answer into a number of the caller. *)
Numbered == {"lpush", "rpush", "linsert", "llen", "hset", "hdel"}

(* Answer a, taken for a failure of call c, tells the truth of the key that has
   list l and hash h. *)
Honest(c, a, l, h) ==
    /\ c.m = "linsert" => \/ a = -1 /\ l # <<>> /\ c.pivot \notin ToSet(l)
                          \/ a = 0  /\ l = <<>>
    /\ c.m \in {"lpop", "rpop", "llen"} => l = <<>>
    /\ c.m = "hgetall" => h = NoHash
    /\ c.m \in {"hget", "hdel"} => c.field \notin DOMAIN h
    /\ c.m = "lindex" => c.index \notin -Len(l)..Len(l) - 1
    /\ c.m = "lrange" => Interval(l, AsInt(c.start), c.stop) = <<>>

(* Answer a, taken for a success of call c, tells the truth of the key before
   and after. *)
Done(c, a, old, new) ==
    /\ c.m \in {"lpush", "rpush", "linsert"} => a = Len(new.list)
    /\ c.m = "lpop" => old.list = <<a>> \o new.list
    /\ c.m = "rpop" => old.list = Append(new.list, a)
    /\ c.m = "llen" => a = Len(old.list)
    /\ c.m = "lindex" =>
          \/ /\ c.index \in 0..Len(old.list) - 1
             /\ a = old.list[c.index + 1]
          \/ /\ -c.index \in 1..Len(old.list)
             /\ a = Reverse(old.list)[-c.index]
    /\ c.m = "lrange" =>
          a \in Seq(Values) /\ a = Interval(old.list, AsInt(c.start), c.stop)
    /\ c.m = "hget" => c.field \in DOMAIN old.hash /\ old.hash[c.field] = a
    /\ c.m = "hset" => /\ new.hash[c.field] = c.value
                       /\ a = IF c.field \in DOMAIN old.hash THEN 0 ELSE 1
    /\ c.m = "hdel" => /\ a = 1
                       /\ DOMAIN old.hash = DOMAIN new.hash \cup {c.field}
    /\ c.m = "hgetall" => a \in Hashes /\ a = old.hash

(* A call with the arguments of its method. *)
IsCall(c) ==
    \/ c.m \in ListMethods /\ Signed(c) \in Atomic!ListCalls
    \/ c.m \in HashMethods /\ Signed(c) \in Atomic!HashCalls

(* Call c makes of one key the other, as far as they are of its kind. *)
Changes(c, old, new) ==
    /\ c.m \in ListMethods => Atomic!ListEffect(Signed(c), old.list, new.list)
    /\ c.m \in HashMethods => Atomic!HashEffect(Signed(c), old.hash, new.hash)

(* What the answer a to call c tells of the key before and after it. *)
Tells(c, a, old, new) ==
    /\ Taken(c.m, a) => /\ Len(new.list) = Len(old.list) + Grown(c.m)
                        /\ c.m \in Numbered => a \in Nat
                        /\ Done(c, a, old, new)
                        /\ Changes(c, old, new)
    /\ ~Taken(c.m, a) => new = old /\ Honest(c, a, old.list, old.hash)

(* A round trip of call c that would make the key newList and newHash and be
   answered by a. *)
Lawful(c, newList, newHash, a) ==
    /\ IsCall(c)
    /\ newList \in Lists /\ newHash \in Hashes
    /\ newHash = hash \/ (c.m \in HashMethods /\ newList = list)
    /\ newList = list \/ (c.m \in ListMethods /\ newHash = hash)
    /\ Tells(c, a, Key, [list |-> newList, hash |-> newHash])

LawfulAsk == \E c, newList, newHash, a :
    Ask(c, newList, newHash, a) /\ Lawful(c, newList, newHash, a)

(* The call in progress. *)
Pending ==
    op = "method" =>
        /\ doubts < MaxDoubts
        /\ IsCall(call)
        /\ Len(before.list) - ledger \in -doubts..doubts
        /\ reply = "error" => after = before
        /\ reply = "NULL" =>
              /\ Len(after.list) - Len(before.list) \in -1..1
              /\ after = before \/ Atomic!Effect(Signed(call), before, after)
        /\ reply = "status" =>
              /\ Tells(call, answer, before, after)
              /\ Taken(call.m, answer) => Atomic!Effect(Signed(call), before, after)

(* The caller passed new variables to the call in progress. *)
Fresh ==
    op = "method" /\ FreshVariables =>
        /\ DOMAIN out = DOMAIN FreshOut
        /\ out.list = <<>> /\ out.map = NoHash

DataInv ==
    /\ MethodsTypeOK
    /\ "retval" \in DOMAIN out
    /\ after = Key
    /\ before.list \in Lists
    /\ Pending
    /\ Fresh
    /\ FalseMeansNoEffect
    /\ FreshVariables => TrueMeansDone
    /\ ReasonIsTrue
    /\ ResultsAccountForTheList

-----------------------------------------------------------------------------
(* A method that makes the list longer by one, or that leaves the key alone, is
   lawful. *)
LEMMA GrowingIsLawful ==
    ASSUME list \in Seq(Values), hash \in Hashes, Len(list) < MaxLen,
           NEW c, c.m \in {"lpush", "rpush", "linsert"}, IsCall(c),
           NEW l \in Seq(Values), Len(l) = Len(list) + 1,
           Atomic!ListEffect(c, list, l)
    PROVE  Lawful(c, l, hash, Len(list) + 1)
<1>1. Len(list) \in Nat
  BY LenProperties
<1>2. Len(l) =< MaxLen
  BY <1>1, MethodsAssumption
<1>3. l \in Lists
  BY <1>2, ListsAreSequences
<1>4. c.m \in ListMethods /\ c.m \notin HashMethods /\ Signed(c) = c
  BY DEF ListMethods, ListWriters, HashMethods, Signed
<1>5. Taken(c.m, Len(list) + 1)
  BY <1>1 DEF Taken
<1>6. Grown(c.m) = 1
  BY DEF Grown
<1>7. Done(c, Len(list) + 1, Key, [list |-> l, hash |-> hash])
  BY DEF Done
<1>8. Changes(c, Key, [list |-> l, hash |-> hash])
  BY <1>4 DEF Changes, Key
<1>9. Tells(c, Len(list) + 1, Key, [list |-> l, hash |-> hash])
  BY <1>1, <1>5, <1>6, <1>7, <1>8 DEF Tells, Key
<1> QED BY <1>3, <1>4, <1>9 DEF Lawful

(* A method that only reads leaves the key as it was. *)
LEMMA ReadingChangesNothing ==
    ASSUME NEW c, c.m \in {"llen", "lindex", "lrange", "hget", "hgetall"}
    PROVE  Changes(c, Key, Key)
<1>1. Signed(c).m = c.m
  BY DEF Signed
<1>2. c.m \in ListMethods => Atomic!ListEffect(Signed(c), Key.list, Key.list)
  BY <1>1 DEF Atomic!ListEffect, ListMethods, ListWriters
<1>3. c.m \in HashMethods => Atomic!HashEffect(Signed(c), Key.hash, Key.hash)
  BY <1>1 DEF Atomic!HashEffect, HashMethods
<1> QED BY <1>2, <1>3 DEF Changes

LEMMA ReadingIsLawful ==
    ASSUME list \in Lists, hash \in Hashes,
           NEW c, IsCall(c), NEW a,
           Taken(c.m, a) => /\ c.m \in {"llen", "lindex", "lrange", "hget", "hgetall"}
                            /\ c.m \in Numbered => a \in Nat
                            /\ Done(c, a, Key, Key),
           ~Taken(c.m, a) => Honest(c, a, list, hash)
    PROVE  Lawful(c, list, hash, a)
<1>1. Len(list) \in Nat
  BY ListsAreSequences, LenProperties
<1>2. Key = [list |-> list, hash |-> hash]
  BY DEF Key
<1>3. Taken(c.m, a) => Grown(c.m) = 0 /\ Changes(c, Key, Key)
  BY ReadingChangesNothing DEF Grown
<1>4. Tells(c, a, Key, [list |-> list, hash |-> hash])
  BY <1>1, <1>2, <1>3 DEF Tells
<1> QED BY <1>4 DEF Lawful

(* Each method is a lawful round trip. *)
LEMMA PushIsLawful ==
    ASSUME list \in Lists, hash \in Hashes, lpush \/ rpush
    PROVE  LawfulAsk
<1>1. list \in Seq(Values) /\ Len(list) \in Nat
  BY ListsAreSequences, LenProperties
<1>2. CASE lpush
  <2>1. PICK v \in Values : /\ Len(list) < MaxLen
           /\ WritesList([m |-> "lpush", value |-> v], <<v>> \o list, Len(list) + 1)
    BY <1>2 DEF lpush
  <2>2. <<v>> \o list \in Seq(Values) /\ Len(<<v>> \o list) = Len(list) + 1
    BY <1>1
  <2>3. Len(list) < MaxLen
    BY <2>1
  <2> DEFINE c == [m |-> "lpush", value |-> v]
             l == <<v>> \o list
  <2>4. c.m \in {"lpush", "rpush", "linsert"}
    OBVIOUS
  <2>5. l \in Seq(Values) /\ Len(l) = Len(list) + 1
    BY <2>2
  <2>6. IsCall(c)
    BY DEF IsCall, Signed, Atomic!ListCalls, ListMethods, ListWriters
  <2>7. Atomic!ListEffect(c, list, l)
    BY DEF Atomic!ListEffect
  <2> HIDE DEF c, l
  <2>8. Lawful(c, l, hash, Len(list) + 1)
    BY <1>1, <2>3, <2>4, <2>5, <2>6, <2>7, GrowingIsLawful
  <2> QED BY <2>1, <2>8 DEF LawfulAsk, WritesList, c, l
<1>3. CASE rpush
  <2>1. PICK v \in Values : /\ Len(list) < MaxLen
           /\ WritesList([m |-> "rpush", value |-> v], Append(list, v), Len(list) + 1)
    BY <1>3 DEF rpush
  <2>2. Append(list, v) \in Seq(Values) /\ Len(Append(list, v)) = Len(list) + 1
    BY <1>1
  <2>3. Len(list) < MaxLen
    BY <2>1
  <2> DEFINE c == [m |-> "rpush", value |-> v]
             l == Append(list, v)
  <2>4. c.m \in {"lpush", "rpush", "linsert"}
    OBVIOUS
  <2>5. l \in Seq(Values) /\ Len(l) = Len(list) + 1
    BY <2>2
  <2>6. IsCall(c)
    BY DEF IsCall, Signed, Atomic!ListCalls, ListMethods, ListWriters
  <2>7. Atomic!ListEffect(c, list, l)
    BY DEF Atomic!ListEffect
  <2> HIDE DEF c, l
  <2>8. Lawful(c, l, hash, Len(list) + 1)
    BY <1>1, <2>3, <2>4, <2>5, <2>6, <2>7, GrowingIsLawful
  <2> QED BY <2>1, <2>8 DEF LawfulAsk, WritesList, c, l
<1> QED BY <1>2, <1>3

LEMMA PopIsLawful ==
    ASSUME list \in Lists, hash \in Hashes, lpop \/ rpop
    PROVE  LawfulAsk
<1>1. list \in Seq(Values) /\ Len(list) \in Nat /\ Len(list) =< MaxLen
  BY ListsAreSequences, LenProperties
<1>2. ASSUME NEW m \in {"lpop", "rpop"}, list = <<>>, Reads([m |-> m], NIL)
      PROVE  LawfulAsk
  <2>1. ~Taken(m, NIL)
    BY <1>2 DEF Taken
  <2>2. Honest([m |-> m], NIL, list, hash)
    BY <1>2 DEF Honest
  <2>3. IsCall([m |-> m])
    BY <1>2 DEF IsCall, Signed, Atomic!ListCalls, ListMethods, ListWriters
  <2>4. Lawful([m |-> m], list, hash, NIL)
    BY <2>1, <2>2, <2>3, ReadingIsLawful
  <2> QED BY <1>2, <2>4 DEF LawfulAsk, Reads
<1>3. ASSUME NEW m \in {"lpop", "rpop"}, NEW l \in Seq(Values), NEW a \in Values,
             list # <<>>, Len(l) = Len(list) - 1, WritesList([m |-> m], l, a),
             m = "lpop" => list = <<a>> \o l /\ l = Tail(list),
             m = "rpop" => list = Append(l, a) /\ l = Front(list)
      PROVE  LawfulAsk
  <2>1. l \in Lists
    <3>1. Len(l) =< MaxLen
      BY <1>1, <1>3, MethodsAssumption
    <3> QED BY <3>1, ListsAreSequences
  <2>2. Taken(m, a) /\ Grown(m) = -1 /\ m \notin Numbered
    BY <1>3, NilAssumption DEF Taken, Grown, Numbered
  <2> DEFINE c == [m |-> m]
  <2>3. c.m = m /\ Signed(c) = c
    BY <1>3 DEF Signed
  <2>4. IsCall(c)
    BY <1>3, <2>3 DEF IsCall, Atomic!ListCalls, ListMethods, ListWriters
  <2> HIDE DEF c
  <2>5. Done(c, a, Key, [list |-> l, hash |-> hash])
    BY <1>3, <2>3 DEF Done, Key
  <2>6. c.m \in ListMethods /\ c.m \notin HashMethods
    BY <1>3, <2>3 DEF ListMethods, ListWriters, HashMethods
  <2>7. Changes(c, Key, [list |-> l, hash |-> hash])
    <3>1. Atomic!ListEffect(c, list, l)
      BY <1>3, <2>3 DEF Atomic!ListEffect, Front, Atomic!Front
    <3> QED BY <2>3, <2>6, <3>1 DEF Changes, Key
  <2>8. Tells(c, a, Key, [list |-> l, hash |-> hash])
    BY <1>1, <1>3, <2>2, <2>3, <2>5, <2>7 DEF Tells, Key
  <2>9. Lawful(c, l, hash, a)
    BY <2>1, <2>4, <2>6, <2>8 DEF Lawful
  <2> QED BY <1>3, <2>9 DEF LawfulAsk, WritesList, c
<1>4. CASE list = <<>>
  BY <1>2, <1>4 DEF lpop, rpop
<1>5. CASE list # <<>>
  <2>1. Tail(list) \in Seq(Values) /\ Len(Tail(list)) = Len(list) - 1
        /\ Head(list) \in Values
    BY <1>1, <1>5, HeadTailProperties
  <2>2. Front(list) \in Seq(Values) /\ Len(Front(list)) = Len(list) - 1
        /\ Last(list) \in Values
    <3>1. Len(list) \in Nat \ {0} /\ \A i \in 1..Len(list) : list[i] \in Values
      BY <1>1, <1>5, EmptySeq, LenProperties
    <3>2. \A i \in 1..Len(list) - 1 : list[i] \in Values
      BY <3>1
    <3>3. PICK n \in Nat : n = Len(list) - 1
      BY <3>1
    <3>4. SubSeq(list, 1, n) \in Seq(Values) /\ Len(SubSeq(list, 1, n)) = n
      <4>1. \A i \in 1..n : list[i] \in Values
        BY <3>2, <3>3
      <4> QED BY <3>3, <4>1
    <3> QED BY <3>1, <3>3, <3>4 DEF Front, Last
  <2>3. list = <<Head(list)>> \o Tail(list)
    BY <1>1, <1>5
  <2>4. list = Append(Front(list), Last(list))
    BY <1>1, <1>5, <2>2 DEF Front, Last
  <2>5. CASE lpop
    BY <1>3, <1>5, <2>1, <2>3, <2>5 DEF lpop
  <2>6. CASE rpop
    BY <1>3, <1>5, <2>2, <2>4, <2>6 DEF rpop
  <2> QED BY <2>5, <2>6
<1> QED BY <1>4, <1>5

LEMMA LinsertIsLawful ==
    ASSUME list \in Lists, hash \in Hashes, linsert
    PROVE  LawfulAsk
<1>1. PICK position \in {"BEFORE", "AFTER"}, pivot \in Values, v \in Values :
        LET c == [m |-> "linsert", position |-> position, pivot |-> pivot, value |-> v]
            i == SelectInSeq(list, LAMBDA e : e = pivot)
        IN  /\ Len(list) < MaxLen
            /\ IF list = <<>> THEN Reads(c, 0)
               ELSE IF i = 0 THEN Reads(c, -1)
               ELSE WritesList(c, InsertAt(list, IF position = "BEFORE" THEN i ELSE i + 1, v),
                               Len(list) + 1)
  BY DEF linsert
<1> DEFINE c == [m |-> "linsert", position |-> position, pivot |-> pivot, value |-> v]
           I == {i \in 1..Len(list) : list[i] = pivot}
           i == SelectInSeq(list, LAMBDA e : e = pivot)
           at == IF position = "BEFORE" THEN i ELSE i + 1
<1>2. list \in Seq(Values) /\ Len(list) \in Nat /\ Len(list) < MaxLen
  BY <1>1, ListsAreSequences, LenProperties
<1>3. /\ list = <<>> => Reads(c, 0)
      /\ list # <<>> /\ i = 0 => Reads(c, -1)
      /\ list # <<>> /\ i # 0 => WritesList(c, InsertAt(list, at, v), Len(list) + 1)
  BY <1>1
<1>4. i = IF I # {} THEN Min(I) ELSE 0
  BY DEF SelectInSeq
<1>5. /\ c.m = "linsert" /\ c.position = position /\ c.pivot = pivot
      /\ c.value = v
  OBVIOUS
<1>6. IsCall(c)
  BY DEF IsCall, Signed, Atomic!ListCalls, ListMethods, ListWriters
<1> HIDE DEF c, i, I
<1>7. CASE list = <<>>
  <2>1. ~Taken(c.m, 0) /\ Honest(c, 0, list, hash)
    BY <1>5, <1>7 DEF Taken, Honest
  <2>2. Lawful(c, list, hash, 0)
    BY <1>6, <2>1, ReadingIsLawful
  <2> QED BY <1>3, <1>7, <2>2 DEF LawfulAsk, Reads
<1>8. CASE list # <<>> /\ I = {}
  <2>1. i = 0
    BY <1>4, <1>8
  <2>2. pivot \notin ToSet(list)
    BY <1>2, <1>8, LenProperties DEF I, ToSet
  <2>3. ~Taken(c.m, -1) /\ Honest(c, -1, list, hash)
    BY <1>5, <1>8, <2>2 DEF Taken, Honest
  <2>4. Lawful(c, list, hash, -1)
    BY <1>6, <2>3, ReadingIsLawful
  <2> QED BY <1>3, <1>8, <2>1, <2>4 DEF LawfulAsk, Reads
<1>9. CASE list # <<>> /\ I # {}
  <2>1. I \subseteq Nat /\ I \subseteq 1..Len(list)
    BY <1>2 DEF I
  <2>2. i \in I /\ \A j \in I : i =< j
    BY <1>4, <1>9, <2>1, MinIsMember
  <2>3. i \in 1..Len(list) /\ list[i] = pivot /\ \A j \in 1..i - 1 : list[j] # pivot
    BY <1>2, <2>2 DEF I
  <2>4. at \in 1..Len(list) + 1 /\ i # 0
    BY <1>2, <2>3
  <2> DEFINE l == InsertAt(list, at, v)
  <2>5. l = SubSeq(list, 1, i - 1)
              \o (IF position = "BEFORE" THEN <<v, pivot>> ELSE <<pivot, v>>)
              \o SubSeq(list, i + 1, Len(list))
    BY <1>2, <2>3, InsertionIsNextTo
  <2> HIDE DEF at
  <2>6. l \in Seq(Values) /\ Len(l) = Len(list) + 1
    BY <1>2, <2>4, Insertion
  <2> HIDE DEF l
  <2>7. Atomic!Inserted(position, pivot, v, list, l)
    BY <2>3, <2>5 DEF Atomic!Inserted
  <2>8. Atomic!ListEffect(c, list, l)
    BY <1>5, <2>7 DEF Atomic!ListEffect
  <2>9. Lawful(c, l, hash, Len(list) + 1)
    BY <1>2, <1>5, <1>6, <2>6, <2>8, GrowingIsLawful
  <2> QED BY <1>3, <1>9, <2>4, <2>9 DEF LawfulAsk, WritesList, l
<1> QED BY <1>7, <1>8, <1>9

(* The indexes of the programs are integers. *)
LEMMA IndexesAreIntegers ==
    /\ \A i \in Stops : i \in Int
    /\ \A start \in Starts : AsInt(start) \in Int
<1>1. 2^IntBits \in Int /\ 2^(IntBits - 1) \in Int
  BY MethodsAssumption
<1> QED BY <1>1, MethodsAssumption DEF AsInt, IsIndex

(* A start in the smaller half is the index that the server sees. *)
LEMMA IndexIsItself ==
    ASSUME NEW start, IsIndex(start)
    PROVE  AsInt(start) = start
BY DEF AsInt

(* What Redis answers to LRANGE is the interval. *)
LEMMA RangeIsInterval ==
    ASSUME list \in Seq(Values), NEW start \in Starts, NEW stop \in Stops,
           NEW a, NEW b,
           a = 1 + (IF Position(AsInt(start)) < 0 THEN 0 ELSE Position(AsInt(start))),
           b = 1 + (IF Position(stop) < Len(list) THEN Position(stop) ELSE Len(list) - 1)
    PROVE  /\ SubSeq(list, a, b) \in Seq(Values)
           /\ SubSeq(list, a, b) = Interval(list, AsInt(start), stop)
<1> DEFINE from   == Position(AsInt(start))
           to     == Position(stop)
           Inside == {j \in 1..Len(list) : from < j /\ j <= to + 1}
<1>1. Len(list) \in Nat /\ \A j \in 1..Len(list) : list[j] \in Values
  BY LenProperties
<1>2. from \in Int /\ to \in Int
  BY <1>1, IndexesAreIntegers DEF Position
<1>3. Interval(list, AsInt(start), stop)
        = [i \in 1..Cardinality(Inside) |-> list[Min(Inside) + i - 1]]
  BY DEF Interval, Position
<1> HIDE DEF from, to
<1>4. /\ a = 1 + (IF from < 0 THEN 0 ELSE from)
      /\ b = 1 + (IF to < Len(list) THEN to ELSE Len(list) - 1)
  BY DEF from, to
<1>5. a \in Int /\ b \in Int /\ a >= 1 /\ b <= Len(list)
  BY <1>1, <1>2, <1>4
<1>6. Inside = a..b
  BY <1>1, <1>2, <1>4, <1>5
<1> HIDE DEF Inside
<1>7. CASE a <= b
  <2>1. Inside \subseteq Nat /\ a \in Inside
    BY <1>5, <1>6, <1>7
  <2>2. Min(Inside) \in a..b /\ Min(Inside) =< a
    BY <1>6, <2>1, MinIsMember
  <2>3. Min(Inside) = a
    BY <1>5, <2>2
  <2>4. Cardinality(Inside) = b - a + 1
    <3>1. Cardinality(a..b) = IF a > b THEN 0 ELSE b - a + 1
      BY <1>5, FS_Interval
    <3> QED BY <1>5, <1>6, <1>7, <3>1
  <2>5. Interval(list, AsInt(start), stop) = [i \in 1..b - a + 1 |-> list[a + i - 1]]
    BY <1>3, <2>3, <2>4
  <2> DEFINE n == b - a + 1
             t == [i \in 1..n |-> list[a + i - 1]]
  <2>6. n \in Nat /\ \A i \in 1..n : a + i - 1 \in 1..Len(list)
    BY <1>1, <1>5, <1>7
  <2> HIDE DEF n
  <2>7. t \in Seq(Values) /\ Len(t) = n /\ \A i \in 1..n : t[i] = list[a + i - 1]
    <3>1. \A i \in 1..n : list[a + i - 1] \in Values
      BY <1>1, <2>6
    <3>2. t \in [1..n -> Values]
      BY <3>1
    <3> QED BY <2>6, <3>2
  <2>8. /\ SubSeq(list, a, b) \in Seq(Values) /\ Len(SubSeq(list, a, b)) = n
        /\ \A i \in 1..n : SubSeq(list, a, b)[i] = list[a + i - 1]
    <3>1. \A j \in a..b : list[j] \in Values
      BY <1>1, <1>5
    <3> QED BY <1>5, <1>7, <3>1, SubSeqProperties DEF n
  <2> HIDE DEF t
  <2>9. SubSeq(list, a, b) = t
    BY <2>7, <2>8, SeqEqual
  <2> QED BY <2>5, <2>8, <2>9 DEF t, n
<1>8. CASE b < a
  <2>1. Cardinality(Inside) = 0
    BY <1>5, <1>6, <1>8, FS_Interval
  <2>2. SubSeq(list, a, b) = <<>>
    BY <1>5, <1>8, SubSeqEmpty
  <2>3. Interval(list, AsInt(start), stop) = <<>>
    BY <1>3, <2>1
  <2> QED BY <2>2, <2>3, EmptySeq
<1> QED BY <1>5, <1>7, <1>8

LEMMA ListReadIsLawful ==
    ASSUME list \in Lists, hash \in Hashes, lindex \/ lrange \/ llen
    PROVE  LawfulAsk
<1>1. list \in Seq(Values) /\ Len(list) \in Nat /\ (Len(list) = 0 => list = <<>>)
  BY ListsAreSequences, LenProperties, EmptySeq
<1>2. ASSUME NEW c, NEW a, c.m \in {"lindex", "lrange"}, IsCall(c), Reads(c, a),
             Taken(c.m, a) => Done(c, a, Key, Key),
             ~Taken(c.m, a) => Honest(c, a, list, hash)
      PROVE  LawfulAsk
  <2>1. c.m \notin Numbered
    BY <1>2 DEF Numbered
  <2>2. Lawful(c, list, hash, a)
    BY <1>2, <2>1, ReadingIsLawful
  <2> QED BY <1>2, <2>2 DEF LawfulAsk, Reads
<1>3. CASE lindex
  <2>1. PICK i \in Stops :
          Reads([m |-> "lindex", index |-> i],
                IF Position(i) \in 0..Len(list) - 1 THEN list[Position(i) + 1] ELSE NIL)
    BY <1>3 DEF lindex
  <2> DEFINE c == [m |-> "lindex", index |-> i]
             a == IF Position(i) \in 0..Len(list) - 1 THEN list[Position(i) + 1] ELSE NIL
  <2>2. c.m = "lindex" /\ c.index = i
    OBVIOUS
  <2>3. i \in Int
    BY IndexesAreIntegers
  <2>4. a # NIL => \/ i \in 0..Len(list) - 1 /\ a = list[i + 1]
                   \/ -i \in 1..Len(list) /\ a = Reverse(list)[-i]
    <3>1. CASE Position(i) \in 0..Len(list) - 1 /\ i >= 0
      BY <2>3, <3>1 DEF Position
    <3>2. CASE Position(i) \in 0..Len(list) - 1 /\ i < 0
      <4>1. -i \in 1..Len(list) /\ Position(i) = i + Len(list)
        BY <1>1, <2>3, <3>2 DEF Position
      <4>2. Reverse(list)[-i] = list[Len(list) - (-i) + 1]
        BY <4>1 DEF Reverse
      <4>3. Len(list) - (-i) + 1 = Position(i) + 1
        BY <1>1, <2>3, <4>1
      <4> QED BY <3>2, <4>1, <4>2, <4>3
    <3> QED BY <2>3, <3>1, <3>2
  <2>5. Reads(c, a)
    BY <2>1
  <2>6. IsCall(c)
    BY <2>3 DEF IsCall, Signed, Atomic!ListCalls, ListMethods
  <2> HIDE DEF c, a
  <2>7. Taken(c.m, a) => Done(c, a, Key, Key)
    BY <2>2, <2>4 DEF Taken, Done, Key
  <2>8. ~Taken(c.m, a) => Honest(c, a, list, hash)
    <3>1. Position(i) \in 0..Len(list) - 1 => list[Position(i) + 1] \in Values
      BY <1>1, <2>3, LenProperties DEF Position
    <3>2. a = NIL => Position(i) \notin 0..Len(list) - 1
      BY <3>1, NilAssumption DEF a
    <3>3. i \in -Len(list)..Len(list) - 1 => Position(i) \in 0..Len(list) - 1
      BY <1>1, <2>3 DEF Position
    <3> QED BY <2>2, <3>2, <3>3 DEF Taken, Honest
  <2> QED BY <1>2, <2>2, <2>5, <2>6, <2>7, <2>8
<1>4. CASE lrange
  <2>1. PICK start \in Starts, stop \in Stops :
          LET first == IF Position(AsInt(start)) < 0 THEN 0 ELSE Position(AsInt(start))
              last  == IF Position(stop) < Len(list) THEN Position(stop) ELSE Len(list) - 1
          IN  Reads([m |-> "lrange", start |-> start, stop |-> stop],
                    SubSeq(list, first + 1, last + 1))
    BY <1>4 DEF lrange
  <2> DEFINE first == IF Position(AsInt(start)) < 0 THEN 0 ELSE Position(AsInt(start))
             last  == IF Position(stop) < Len(list) THEN Position(stop) ELSE Len(list) - 1
             c == [m |-> "lrange", start |-> start, stop |-> stop]
  <2>2. c.m = "lrange" /\ c.start = start /\ c.stop = stop
    OBVIOUS
  <2>3. Reads(c, SubSeq(list, first + 1, last + 1))
    BY <2>1
  <2>4. first \in Int /\ last \in Int
    BY <1>1, IndexesAreIntegers DEF Position
  <2>5. /\ SubSeq(list, first + 1, last + 1) \in Seq(Values)
        /\ SubSeq(list, first + 1, last + 1) = Interval(list, AsInt(start), stop)
    <3>1. first + 1 = 1 + first /\ last + 1 = 1 + last
      BY <2>4
    <3> QED BY <1>1, <3>1, RangeIsInterval
  <2>6. IsCall(c)
    <3>1. Signed(c) = [m |-> "lrange", start |-> AsInt(start), stop |-> stop]
      BY DEF Signed
    <3>2. AsInt(start) \in Int /\ stop \in Int
      BY IndexesAreIntegers
    <3> QED BY <3>1, <3>2 DEF IsCall, Atomic!ListCalls, ListMethods
  <2> HIDE DEF c, first, last
  <2>7. Done(c, SubSeq(list, first + 1, last + 1), Key, Key)
    BY <2>2, <2>5 DEF Done, Key
  <2>8. ~Taken(c.m, SubSeq(list, first + 1, last + 1))
          => Honest(c, SubSeq(list, first + 1, last + 1), list, hash)
    BY <2>2, <2>5 DEF Taken, Honest
  <2> QED BY <1>2, <2>2, <2>3, <2>6, <2>7, <2>8
<1>5. CASE llen
  <2> DEFINE c == [m |-> "llen"]
  <2>1. c.m = "llen"
    OBVIOUS
  <2>2. IsCall(c)
    BY DEF IsCall, Signed, Atomic!ListCalls, ListMethods
  <2> HIDE DEF c
  <2>3. ~Taken(c.m, Len(list)) => Honest(c, Len(list), list, hash)
    BY <1>1, <2>1 DEF Taken, Honest
  <2>4. Done(c, Len(list), Key, Key)
    BY <2>1 DEF Done, Key
  <2>5. Lawful(c, list, hash, Len(list))
    BY <1>1, <2>1, <2>2, <2>3, <2>4, ReadingIsLawful
  <2> QED BY <1>5, <2>5 DEF LawfulAsk, Reads, llen, c
<1> QED BY <1>3, <1>4, <1>5

LEMMA HashMethodIsLawful ==
    ASSUME list \in Lists, hash \in Hashes, hget \/ hset \/ hdel \/ hgetall
    PROVE  LawfulAsk
<1>1. PICK D \in SUBSET Fields : hash \in [D -> Values]
  BY DEF Hashes
<1>2. DOMAIN hash = D /\ \A f \in D : hash[f] \in Values
  BY <1>1
<1>3. Len(list) \in Nat
  BY ListsAreSequences, LenProperties
(* A write of the hash that succeeds, with a number for an answer. *)
<1>4. ASSUME NEW c, c.m \in {"hset", "hdel"}, IsCall(c),
             NEW h \in Hashes, NEW a \in Nat, WritesHash(c, h, a),
             ~Taken(c.m, a) => h = hash /\ Honest(c, a, list, hash),
             Taken(c.m, a) => /\ Done(c, a, Key, [list |-> list, hash |-> h])
                              /\ Atomic!HashEffect(c, hash, h)
      PROVE  LawfulAsk
  <2>1. /\ c.m \in HashMethods /\ c.m \notin ListMethods
        /\ Grown(c.m) = 0 /\ Signed(c) = c
    BY <1>4 DEF HashMethods, ListMethods, ListWriters, Grown, Signed
  <2>2. Taken(c.m, a) => Changes(c, Key, [list |-> list, hash |-> h])
    BY <1>4, <2>1 DEF Changes, Key
  <2>3. Tells(c, a, Key, [list |-> list, hash |-> h])
    BY <1>3, <1>4, <2>1, <2>2 DEF Tells, Key
  <2>4. Lawful(c, list, h, a)
    BY <1>4, <2>1, <2>3 DEF Lawful
  <2> QED BY <1>4, <2>4 DEF LawfulAsk, WritesHash
<1>5. CASE hget
  <2>1. PICK f \in Fields :
          Reads([m |-> "hget", field |-> f], IF Known(f) THEN hash[f] ELSE NIL)
    BY <1>5 DEF hget
  <2> DEFINE c == [m |-> "hget", field |-> f]
             a == IF Known(f) THEN hash[f] ELSE NIL
  <2>2. c.m = "hget" /\ c.field = f
    OBVIOUS
  <2>3. (a = NIL => f \notin DOMAIN hash) /\ (a # NIL => f \in DOMAIN hash)
    BY <1>2, NilAssumption DEF Known
  <2>4. IsCall(c) /\ c.m \notin Numbered
    BY DEF IsCall, Signed, Atomic!HashCalls, HashMethods, Numbered
  <2> HIDE DEF c, a
  <2>5. ~Taken(c.m, a) => Honest(c, a, list, hash)
    BY <2>2, <2>3 DEF Taken, Honest
  <2>6. Taken(c.m, a) => Done(c, a, Key, Key)
    <3>1. a # NIL => a = hash[f]
      BY DEF a
    <3> QED BY <2>2, <2>3, <3>1 DEF Taken, Done, Key
  <2>7. Lawful(c, list, hash, a)
    BY <2>2, <2>4, <2>5, <2>6, ReadingIsLawful
  <2> QED BY <2>1, <2>7 DEF LawfulAsk, Reads, c, a
<1>6. CASE hset
  <2>1. PICK f \in Fields, v \in Values :
          WritesHash([m |-> "hset", field |-> f, value |-> v],
                     [g \in DOMAIN hash \cup {f} |-> IF g = f THEN v ELSE hash[g]],
                     Count(~Known(f)))
    BY <1>6 DEF hset
  <2> DEFINE c == [m |-> "hset", field |-> f, value |-> v]
             h == [g \in DOMAIN hash \cup {f} |-> IF g = f THEN v ELSE hash[g]]
  <2>2. h \in [D \cup {f} -> Values]
    BY <1>1
  <2>3. h \in Hashes
    BY <1>1, <2>2 DEF Hashes
  <2>4. c.m = "hset" /\ c.field = f /\ c.value = v /\ h[f] = v
    OBVIOUS
  <2>5. Count(~Known(f)) \in Nat
        /\ Count(~Known(f)) = IF f \in DOMAIN hash THEN 0 ELSE 1
    BY DEF Count, Known
  <2>6. IsCall(c) /\ Atomic!HashEffect(c, hash, h)
    BY DEF IsCall, Signed, Atomic!HashCalls, Atomic!HashEffect, HashMethods
  <2> HIDE DEF c, h
  <2>7. Taken(c.m, Count(~Known(f)))
    BY <2>4 DEF Taken
  <2>8. WritesHash(c, h, Count(~Known(f)))
    BY <2>1 DEF c, h
  <2>9. Done(c, Count(~Known(f)), Key, [list |-> list, hash |-> h])
    BY <2>4, <2>5 DEF Done, Key
  <2> QED BY <1>4, <2>3, <2>4, <2>5, <2>6, <2>7, <2>8, <2>9
<1>7. CASE hdel
  <2>1. PICK f \in Fields :
          WritesHash([m |-> "hdel", field |-> f], Restrict(hash, DOMAIN hash \ {f}),
                     Count(Known(f)))
    BY <1>7 DEF hdel
  <2> DEFINE c == [m |-> "hdel", field |-> f]
             h == Restrict(hash, DOMAIN hash \ {f})
             a == Count(Known(f))
  <2>2. h \in [D \ {f} -> Values]
    BY <1>1 DEF Restrict
  <2>3. h \in Hashes
    BY <1>1, <2>2 DEF Hashes
  <2>4. c.m = "hdel" /\ c.field = f /\ a \in Nat
    BY DEF Count
  <2>5. (a = 0 => f \notin DOMAIN hash) /\ (a # 0 => a = 1 /\ f \in DOMAIN hash)
    BY DEF Count, Known
  <2>6. f \notin DOMAIN hash => h = hash
    BY <1>1 DEF Restrict
  <2>7. DOMAIN h = DOMAIN hash \ {f}
    BY DEF Restrict
  <2>8. IsCall(c) /\ (f \in DOMAIN hash => Atomic!HashEffect(c, hash, h))
    BY DEF IsCall, Signed, Atomic!HashCalls, Atomic!HashEffect, HashMethods, Restrict
  <2> HIDE DEF c, h, a
  <2>9. ~Taken(c.m, a) => h = hash /\ Honest(c, a, list, hash)
    BY <2>4, <2>5, <2>6 DEF Taken, Honest
  <2>10. WritesHash(c, h, a)
    BY <2>1 DEF c, h, a
  <2>11. Taken(c.m, a) => /\ Done(c, a, Key, [list |-> list, hash |-> h])
                          /\ Atomic!HashEffect(c, hash, h)
    BY <2>4, <2>5, <2>7, <2>8 DEF Taken, Done, Key
  <2> QED BY <1>4, <2>3, <2>4, <2>8, <2>9, <2>10, <2>11
<1>8. CASE hgetall
  <2> DEFINE c == [m |-> "hgetall"]
  <2>1. c.m = "hgetall"
    OBVIOUS
  <2>2. IsCall(c) /\ c.m \notin Numbered
    BY DEF IsCall, Signed, Atomic!HashCalls, HashMethods, Numbered
  <2> HIDE DEF c
  <2>3. ~Taken(c.m, hash) => Honest(c, hash, list, hash)
    BY <2>1 DEF Taken, Honest
  <2>4. Done(c, hash, Key, Key)
    BY <2>1 DEF Done, Key
  <2>5. Lawful(c, list, hash, hash)
    BY <2>1, <2>2, <2>3, <2>4, ReadingIsLawful
  <2> QED BY <1>8, <2>5 DEF LawfulAsk, Reads, hgetall, c
<1> QED BY <1>5, <1>6, <1>7, <1>8

LEMMA MethodIsLawful ==
    ASSUME list \in Lists, hash \in Hashes,
           \/ lpush \/ rpush \/ lpop \/ rpop
           \/ lindex \/ lrange \/ linsert \/ llen
           \/ hget \/ hset \/ hdel \/ hgetall
    PROVE  LawfulAsk
BY PushIsLawful, PopIsLawful, LinsertIsLawful, ListReadIsLawful, HashMethodIsLawful

-----------------------------------------------------------------------------
(* What the methods are to the connection. *)
LEMMA WhyNotIsAMethodError == WhyNot \in MethodErrors
BY DEF WhyNot, MethodErrors

LEMMA AskIsACall ==
    ASSUME LawfulAsk
    PROVE  \E outcome \in Redis!Outcomes : RoundTrip("method", outcome)
BY DEF LawfulAsk, Ask

LEMMA StepIsAConnStep ==
    ASSUME list \in Lists, hash \in Hashes, [MethodsNext]_methodVars
    PROVE  [ConnNext]_connVars
<1>1. CASE MethodsNext /\ ~Return /\ ~Aside
  <2>1. LawfulAsk
    BY <1>1, MethodIsLawful DEF MethodsNext
  <2>2. CallStep("method")
    BY <2>1, AskIsACall DEF CallStep
  <2> QED BY <2>2 DEF ConnNext, Operations
<1>2. CASE Return
  <2>1. NullReturn \/ ErrorReturn \/ TrueReturn \/ NotFoundReturn(WhyNot)
    BY <1>2 DEF Return, ReturnFound, ReturnNotFound, ReturnError, ReturnException
  <2> QED BY <2>1, WhyNotIsAMethodError DEF ConnNext, ReturnStep
<1>3. CASE Aside
  <2>1. ConnectionStep \/ CallStep("method")
    BY <1>3 DEF Aside, ConnectionStep, CallStep
  <2> QED BY <2>1 DEF ConnNext, Operations
<1>4. CASE UNCHANGED methodVars
  BY <1>4 DEF methodVars
<1> QED BY <1>1, <1>2, <1>3, <1>4

LEMMA ConnStepKeeps ==
    ASSUME ConnInv, [ConnNext]_connVars
    PROVE  ConnInv'
BY ConnectionStepKeeps, CallStepKeeps, ReturnStepKeeps, StutterKeeps DEF ConnNext

(* Taken and Grown are Found and Growth. *)
LEMMA FoundIsTaken ==
    ASSUME call.m \in ListMethods \cup HashMethods
    PROVE  Found <=> Taken(call.m, answer)
BY DEF Found, Taken, ListMethods, ListWriters, HashMethods

LEMMA GrowthIsGrown == Growth = Grown(call.m)
BY DEF Growth, Grown

-----------------------------------------------------------------------------
LEMMA DataInitial == MethodsInit => DataInv
<1> SUFFICES ASSUME MethodsInit PROVE DataInv
  OBVIOUS
<1>1. list = <<>> /\ hash = <<>> /\ after = Key /\ before.list = list /\ op = "none"
      /\ call.m = "none" /\ out.retval = Uninitialised /\ "retval" \in DOMAIN out
  BY DEF MethodsInit, ConnInit, NoHash, NoCall, Key, FreshOut
<1>2. list \in Lists /\ Len(list) = 0
  <2>1. list \in Seq(Values) /\ Len(list) = 0
    BY <1>1
  <2>2. Len(list) =< MaxLen
    BY <2>1, MethodsAssumption
  <2> QED BY <2>1, <2>2, ListsAreSequences
<1>3. hash \in Hashes
  <2>1. hash \in [{} -> Values]
    BY <1>1
  <2> QED BY <2>1 DEF Hashes
<1>4. MethodsTypeOK
  <2>1. ConnTypeOK
    BY Initial DEF MethodsInit, ConnInv
  <2>2. ledger \in Int /\ doubts \in 0..MaxDoubts
    BY MethodsAssumption DEF MethodsInit
  <2> QED BY <1>1, <1>2, <1>3, <2>1, <2>2 DEF MethodsTypeOK, Uninitialised
<1>5. Pending /\ Fresh /\ FalseMeansNoEffect /\ ReasonIsTrue /\ TrueMeansDone
  BY <1>1 DEF Pending, Fresh, FalseMeansNoEffect, ReasonIsTrue, TrueMeansDone, Returned
<1>6. ResultsAccountForTheList
  BY <1>2 DEF MethodsInit, ResultsAccountForTheList
<1> QED BY <1>1, <1>2, <1>4, <1>5, <1>6 DEF DataInv

LEMMA CallIsOfAMethod ==
    ASSUME NEW c, IsCall(c)
    PROVE  c.m \in ListMethods \cup HashMethods /\ Signed(c).m = c.m
BY DEF IsCall, Signed

(* A lawful round trip that the server runs and that the method takes for a
   success has the effect of its command. *)
LEMMA TakenIsEffect ==
    ASSUME NEW c, NEW newList, NEW newHash, NEW a,
           Lawful(c, newList, newHash, a), Taken(c.m, a), ~WrongType(c.m)
    PROVE  Atomic!Effect(Signed(c), Key, [list |-> newList, hash |-> newHash])
<1> DEFINE new == [list |-> newList, hash |-> newHash]
<1>1. IsCall(c) /\ Changes(c, Key, new)
  BY DEF Lawful, Tells
<1>2. Key.list = list /\ Key.hash = hash /\ new.list = newList /\ new.hash = newHash
  BY DEF Key
<1>3. CASE c.m \in ListMethods
  <2>1. c.m \notin HashMethods
    BY <1>3 DEF ListMethods, ListWriters, HashMethods
  <2>2. hash = NoHash /\ newHash = hash
    BY <1>3, <2>1 DEF WrongType, Lawful
  <2>3. Signed(c) \in Atomic!ListCalls
    BY <1>1, <2>1 DEF IsCall
  <2> QED BY <1>1, <1>2, <1>3, <2>2, <2>3 DEF Changes, Atomic!Effect, Atomic!NoHash, NoHash
<1>4. CASE c.m \in HashMethods
  <2>1. c.m \notin ListMethods
    BY <1>4 DEF ListMethods, ListWriters, HashMethods
  <2>2. list = <<>> /\ newList = list
    BY <1>4, <2>1 DEF WrongType, Lawful
  <2>3. Signed(c) \in Atomic!HashCalls
    BY <1>1, <2>1 DEF IsCall
  <2> QED BY <1>1, <1>2, <1>4, <2>2, <2>3 DEF Changes, Atomic!Effect
<1> QED BY <1>1, <1>3, <1>4, CallIsOfAMethod

(* A round trip changes the key as the method says, or not at all. *)
LEMMA AskKeeps ==
    ASSUME DataInv, ConnTypeOK', LawfulAsk
    PROVE  DataInv'
<1>1. PICK c, newList, newHash, a :
          Ask(c, newList, newHash, a) /\ Lawful(c, newList, newHash, a)
  BY DEF LawfulAsk
<1>2. PICK outcome \in Redis!Outcomes :
          /\ WrongType(c.m) => ~Redis!Executes(outcome)
          /\ RoundTrip("method", outcome)
          /\ IF Redis!Executes(outcome)
             THEN list' = newList /\ hash' = newHash
             ELSE UNCHANGED <<list, hash>>
          /\ answer' = IF outcome = "executed" THEN a ELSE NIL
  BY <1>1 DEF Ask
<1>3. /\ doubts < MaxDoubts /\ call' = c /\ out' = Passed(c.m) /\ before' = Key
      /\ after' = [list |-> list', hash |-> hash'] /\ UNCHANGED <<ledger, doubts>>
  BY <1>1 DEF Ask
<1>4. op = "none" /\ op' = "method" /\ reply' = Redis!ReplyTo(outcome)
  BY <1>2 DEF RoundTrip, Callable
<1>5. /\ list \in Lists /\ hash \in Hashes /\ (list = <<>> \/ hash = NoHash)
      /\ out.retval \in Nat /\ "retval" \in DOMAIN out /\ ledger \in Int
      /\ doubts \in 0..MaxDoubts /\ Len(list) - ledger \in -doubts..doubts
  BY <1>4 DEF DataInv, MethodsTypeOK, ResultsAccountForTheList
<1>6. Len(list) \in Nat
  BY <1>5, ListsAreSequences, LenProperties
<1>7. \/ list' = list /\ hash' = hash
      \/ /\ list' = newList /\ hash' = newHash
         /\ ~WrongType(c.m)
         /\ outcome \in {"executed", "lost"}
  BY <1>2 DEF Redis!Executes
<1>8. MethodsTypeOK'
  <2>1. list' \in Lists /\ hash' \in Hashes
    BY <1>1, <1>5, <1>7 DEF Lawful
  <2>2. list' = <<>> \/ hash' = NoHash
    <3>1. CASE list' = list /\ hash' = hash
      BY <1>5, <3>1
    <3>2. CASE list' = newList /\ hash' = newHash /\ ~WrongType(c.m)
      BY <1>1, <1>5, <3>2 DEF Lawful, WrongType, ListMethods, ListWriters, HashMethods
    <3> QED BY <1>7, <3>1, <3>2
  <2>3. call'.m \in ListMethods \cup HashMethods \cup {"none"}
    BY <1>1, <1>3, CallIsOfAMethod DEF Lawful
  <2>4. out'.retval \in Nat
    BY <1>3, <1>5 DEF Passed, FreshOut, Uninitialised
  <2>5. ledger' \in Int /\ doubts' \in 0..MaxDoubts
    BY <1>3, <1>5
  <2> QED BY <2>1, <2>2, <2>3, <2>4, <2>5 DEF MethodsTypeOK
<1>9. "retval" \in DOMAIN out'
  BY <1>3, <1>5 DEF Passed, FreshOut
<1>10. after' = Key' /\ before'.list = list /\ before'.hash = hash
       /\ after'.list = list' /\ after'.hash = hash'
  BY <1>3 DEF Key
<1>11. Pending'
  <2>1. IsCall(call')
    BY <1>1, <1>3 DEF Lawful
  <2>2. Len(before'.list) - ledger' \in -doubts'..doubts' /\ doubts' < MaxDoubts
    BY <1>3, <1>5, <1>10
  <2>3. Len(newList) \in Nat
    BY <1>1, ListsAreSequences, LenProperties DEF Lawful
  <2>4. ASSUME reply' = "error" PROVE after' = before'
    <3>1. outcome = "refused"
      BY <1>4, <2>4 DEF Redis!ReplyTo
    <3>2. list' = list /\ hash' = hash
      BY <1>7, <3>1
    <3> QED BY <1>3, <3>2 DEF Key
  <2>5. Tells(c, a, Key, [list |-> newList, hash |-> newHash])
    BY <1>1 DEF Lawful
  <2>6. Len(newList) - Len(list) \in -1..1
    <3>1. CASE Taken(c.m, a)
      BY <1>6, <2>3, <2>5, <3>1 DEF Tells, Grown, Key
    <3>2. CASE ~Taken(c.m, a)
      BY <1>6, <2>3, <2>5, <3>2 DEF Tells, Key
    <3> QED BY <3>1, <3>2
  <2>7. Len(after'.list) - Len(before'.list) \in -1..1
    BY <1>6, <1>7, <1>10, <2>6
  <2>8. ASSUME reply' = "status" PROVE Tells(call', answer', before', after')
    <3>1. outcome = "executed"
      BY <1>4, <2>8 DEF Redis!ReplyTo
    <3>2. answer' = a /\ list' = newList /\ hash' = newHash
      BY <1>2, <3>1 DEF Redis!Executes
    <3> QED BY <1>3, <2>5, <3>2
  <2>9. ASSUME list' = newList, hash' = newHash, ~WrongType(c.m), Taken(c.m, a)
        PROVE  Atomic!Effect(Signed(call'), before', after')
    BY <1>1, <1>3, <2>9, TakenIsEffect
  <2>10. after' = before' \/ Atomic!Effect(Signed(call'), before', after')
    <3>1. CASE list' = list /\ hash' = hash
      BY <1>3, <3>1 DEF Key
    <3>2. CASE list' = newList /\ hash' = newHash /\ ~WrongType(c.m) /\ ~Taken(c.m, a)
      BY <1>3, <2>5, <3>2 DEF Tells
    <3> QED BY <1>7, <2>9, <3>1, <3>2
  <2>11. reply' = "status" /\ Taken(call'.m, answer')
           => Atomic!Effect(Signed(call'), before', after')
    <3> SUFFICES ASSUME reply' = "status", Taken(call'.m, answer')
                 PROVE  Atomic!Effect(Signed(call'), before', after')
      OBVIOUS
    <3>1. outcome = "executed"
      BY <1>4 DEF Redis!ReplyTo
    <3>2. /\ answer' = a /\ list' = newList /\ hash' = newHash
          /\ ~WrongType(c.m)
      BY <1>2, <3>1 DEF Redis!Executes
    <3> QED BY <1>3, <2>9, <3>2
  <2> QED BY <2>1, <2>2, <2>4, <2>7, <2>8, <2>10, <2>11 DEF Pending
<1>12. FalseMeansNoEffect' /\ ReasonIsTrue' /\ ResultsAccountForTheList'
       /\ TrueMeansDone'
  BY <1>4 DEF FalseMeansNoEffect, ReasonIsTrue, ResultsAccountForTheList,
              TrueMeansDone, Returned
<1>13. before'.list \in Lists
  BY <1>5, <1>10
<1>14. Fresh'
  BY <1>3 DEF Fresh, Passed, FreshOut
<1> QED BY <1>8, <1>9, <1>10, <1>11, <1>12, <1>13, <1>14 DEF DataInv

(* What is inserted into an empty map is what the map becomes. *)
LEMMA InsertedIntoNothing ==
    ASSUME NEW h \in Hashes
    PROVE  Inserted(NoHash, h) = h
<1>1. PICK D \in SUBSET Fields : h \in [D -> Values]
  BY DEF Hashes
<1>2. DOMAIN NoHash = {}
  BY DEF NoHash
<1> QED BY <1>1, <1>2 DEF Inserted

LEMMA IndexOfCall ==
    ASSUME NEW c, IsCall(c), c.m = "lindex"
    PROVE  c.index \in Int
<1>1. Signed(c) = c
  BY DEF Signed
<1>2. c \in Atomic!ListCalls
  BY <1>1 DEF IsCall, HashMethods
<1> QED BY <1>2 DEF Atomic!ListCalls

(* A true result leaves in new variables of the caller what the answer told. *)
LEMMA FilledTellsTruth ==
    ASSUME DOMAIN out = DOMAIN FreshOut, out.list = <<>>, out.map = NoHash,
           Done(call, answer, before, after),
           Len(after.list) = Len(before.list) + Growth,
           IsCall(call), before.list \in Lists,
           out' = Filled, op' = "none", UNCHANGED <<call, before, after>>
    PROVE  TrueMeansDone'
<1>1. call.m \in {"lpush", "rpush", "linsert", "llen", "hset", "hdel"}
        => out'.retval = answer
  BY DEF Filled, FreshOut
<1>2. call.m \in {"lpop", "rpop", "lindex", "hget"} => out'.value = answer
  BY DEF Filled, FreshOut
<1>3. call.m = "lrange" => out'.list = <<>> \o answer
  BY DEF Filled, FreshOut
<1>4. call.m = "hgetall" => out'.map = Inserted(NoHash, answer)
  BY DEF Filled, FreshOut
<1>5. call.m = "lrange" => out'.list = answer
  BY <1>3 DEF Done
<1>6. call.m = "hgetall" => answer \in Hashes
  BY DEF Done
<1>7. call.m = "hgetall" => out'.map = answer
  BY <1>4, <1>6, InsertedIntoNothing
<1>8. call.m \in {"lpush", "rpush", "linsert"} => Growth = 1
  BY DEF Growth
<1>9. call' = call /\ before' = before /\ after' = after
  OBVIOUS
<1>10. \A m \in {"lpush", "rpush", "linsert"} : Returned(m, "true")'
         => out'.retval = Len(after'.list) /\ Len(after'.list) = Len(before'.list) + 1
  BY <1>1, <1>8, <1>9 DEF Returned, Done
<1>11. /\ Returned("lpop", "true")' => before'.list = <<out'.value>> \o after'.list
       /\ Returned("rpop", "true")' => before'.list = Append(after'.list, out'.value)
       /\ Returned("llen", "true")' => out'.retval = Len(before'.list)
  BY <1>1, <1>2, <1>9 DEF Returned, Done
<1>12. /\ Returned("lindex", "true")' =>
             \/ call'.index >= 0 /\ out'.value = before'.list[call'.index + 1]
             \/ call'.index < 0  /\ out'.value = Reverse(before'.list)[-call'.index]
       /\ Returned("lrange", "true")' /\ IsIndex(call'.start) =>
             out'.list = Interval(before'.list, call'.start, call'.stop)
  <2>1. Len(before.list) \in Nat
    BY ListsAreSequences, LenProperties
  <2>2. ASSUME call.m = "lindex"
        PROVE  \/ call.index >= 0 /\ answer = before.list[call.index + 1]
               \/ call.index < 0  /\ answer = Reverse(before.list)[-call.index]
    <3>1. call.index \in Int
      BY <2>2, IndexOfCall
    <3> QED BY <2>1, <2>2, <3>1 DEF Done
  <2>3. call.m = "lrange" /\ IsIndex(call.start)
          => answer = Interval(before.list, call.start, call.stop)
    BY IndexIsItself DEF Done
  <2> QED BY <1>2, <1>5, <1>9, <2>2, <2>3 DEF Returned
<1>13. /\ Returned("hget", "true")' => before'.hash[call'.field] = out'.value
       /\ Returned("hset", "true")' =>
             /\ after'.hash[call'.field] = call'.value
             /\ out'.retval = 0 <=> call'.field \in DOMAIN before'.hash
       /\ Returned("hdel", "true")' =>
             /\ out'.retval = 1
             /\ DOMAIN before'.hash = DOMAIN after'.hash \cup {call'.field}
       /\ Returned("hgetall", "true")' => out'.map = before'.hash
  BY <1>1, <1>2, <1>7, <1>9 DEF Returned, Done
<1> QED BY <1>10, <1>11, <1>12, <1>13 DEF TrueMeansDone

(* A method makes of the answer what the server did. *)
LEMMA ReturnKeeps ==
    ASSUME DataInv, ConnTypeOK', Return
    PROVE  DataInv'
<1>1. /\ op = "method" /\ op' = "none"
      /\ UNCHANGED <<list, hash, call, answer, before, after>>
  BY DEF Return, ReturnFound, ReturnNotFound, ReturnError, ReturnException,
         TrueReturn, NotFoundReturn, ErrorReturn, NullReturn, Finish
<1>2. /\ doubts < MaxDoubts /\ IsCall(call)
      /\ call.m \in ListMethods \cup HashMethods
      /\ Len(before.list) - ledger \in -doubts..doubts
      /\ reply = "error" => after = before
      /\ reply = "NULL" => Len(after.list) - Len(before.list) \in -1..1
      /\ reply = "status" => Tells(call, answer, before, after)
  BY <1>1, CallIsOfAMethod DEF DataInv, Pending
<1>3. /\ list \in Lists /\ hash \in Hashes /\ (list = <<>> \/ hash = NoHash)
      /\ out.retval \in Nat /\ "retval" \in DOMAIN out /\ ledger \in Int
      /\ doubts \in 0..MaxDoubts /\ before.list \in Lists
      /\ after = Key
  BY DEF DataInv, MethodsTypeOK
<1>4. Len(list) \in Nat /\ Len(before.list) \in Nat /\ after.list = list
      /\ MaxDoubts \in Nat
  BY <1>3, ListsAreSequences, LenProperties, MethodsAssumption DEF Key
<1>5. ASSUME ledger' \in Int, doubts' \in 0..MaxDoubts,
             out'.retval \in Nat, "retval" \in DOMAIN out',
             result' = "false" => after = before, ReasonIsTrue',
             Len(list) - ledger' \in -doubts'..doubts',
             FreshVariables => TrueMeansDone'
      PROVE  DataInv'
  <2>1. MethodsTypeOK'
    BY <1>1, <1>2, <1>3, <1>5 DEF MethodsTypeOK
  <2>2. Pending' /\ Fresh'
    BY <1>1 DEF Pending, Fresh
  <2>3. FalseMeansNoEffect'
    BY <1>1, <1>5 DEF FalseMeansNoEffect
  <2>4. ResultsAccountForTheList'
    BY <1>1, <1>5 DEF ResultsAccountForTheList
  <2>5. after' = Key'
    BY <1>1, <1>3 DEF Key
  <2>6. before'.list \in Lists
    BY <1>1, <1>3
  <2> QED BY <1>5, <2>1, <2>2, <2>3, <2>4, <2>5, <2>6 DEF DataInv
<1>6. CASE ReturnFound
  <2>1. /\ reply = "status" /\ result' = "true" /\ Found
        /\ out' = Filled /\ ledger' = ledger + Growth /\ doubts' = doubts
    BY <1>6 DEF ReturnFound, TrueReturn
  <2>2. Taken(call.m, answer) /\ Growth = Grown(call.m)
    BY <1>2, <2>1, FoundIsTaken, GrowthIsGrown
  <2>3. Len(list) = Len(before.list) + Growth
        /\ (call.m \in Numbered => answer \in Nat)
    BY <1>2, <1>4, <2>1, <2>2 DEF Tells
  <2>4. Growth \in {-1, 0, 1}
    BY DEF Growth
  <2>5. out'.retval \in Nat /\ "retval" \in DOMAIN out'
    BY <1>2, <1>3, <2>1, <2>3 DEF Filled, Numbered, ListMethods, ListWriters, HashMethods
  <2>6. ledger' \in Int /\ Len(list) - ledger' = Len(before.list) - ledger
    BY <1>3, <1>4, <2>1, <2>3, <2>4
  <2>7. ReasonIsTrue'
    BY <2>1 DEF ReasonIsTrue
  <2>8. Len(list) - ledger' \in -doubts'..doubts'
    BY <1>2, <2>1, <2>6
  <2>9. ASSUME FreshVariables PROVE TrueMeansDone'
    <3>1. Done(call, answer, before, after)
      BY <1>2, <2>1, <2>2 DEF Tells
    <3>2. DOMAIN out = DOMAIN FreshOut /\ out.list = <<>> /\ out.map = NoHash
      BY <1>1, <2>9 DEF DataInv, Fresh
    <3> QED BY <1>1, <1>2, <1>3, <1>4, <2>1, <2>3, <3>1, <3>2, FilledTellsTruth
  <2> QED BY <1>3, <1>5, <2>1, <2>5, <2>6, <2>7, <2>8, <2>9
<1>7. CASE ReturnNotFound
  <2>1. /\ reply = "status" /\ ~Found /\ result' = "false" /\ _errStr' = WhyNot
        /\ out' = Cleared /\ ledger' = ledger /\ doubts' = doubts
    BY <1>7 DEF ReturnNotFound, NotFoundReturn
  <2>2. after = before /\ Honest(call, answer, before.list, before.hash)
    BY <1>2, <2>1, FoundIsTaken DEF Tells
  <2>3. out'.retval \in Nat /\ "retval" \in DOMAIN out'
    BY <1>3, <2>1 DEF Cleared
  <2>4. ~Taken(call.m, answer)
    BY <1>2, <2>1, FoundIsTaken
  <2>5. ReasonIsTrue'
    <3>1. /\ _errStr' = WhyNot /\ call' = call /\ before' = before
      BY <1>1, <2>1
    <3>2. WhyNot = "ERR_NO_KEY" =>
            IF call.m = "hgetall" THEN before.hash = NoHash ELSE before.list = <<>>
      BY <2>2 DEF WhyNot, Honest
    <3>3. WhyNot = "ERR_NO_PIVOT" =>
            before.list # <<>> /\ call.pivot \notin ToSet(before.list)
      BY <2>2 DEF WhyNot, Honest
    <3>4. WhyNot = "ERR_NO_FIELD" => call.field \notin DOMAIN before.hash
      BY <1>2, <2>2, <2>4 DEF WhyNot, Honest, Taken, ListMethods, ListWriters, HashMethods
    <3>5. WhyNot = "ERR_INDEX" =>
            \/ /\ call.m = "lindex"
               /\ call.index \notin -Len(before.list)..Len(before.list) - 1
            \/ /\ call.m = "lrange"
               /\ IsIndex(call.start) =>
                     Interval(before.list, call.start, call.stop) = <<>>
      <4>1. WhyNot = "ERR_INDEX" => call.m \in {"lindex", "lrange"}
        BY DEF WhyNot
      <4>2. IsIndex(call.start) => AsInt(call.start) = call.start
        BY IndexIsItself
      <4> QED BY <2>2, <4>1, <4>2 DEF Honest
    <3> QED BY <3>1, <3>2, <3>3, <3>4, <3>5 DEF ReasonIsTrue
  <2>6. Len(list) - ledger' \in -doubts'..doubts'
    BY <1>2, <1>4, <2>1, <2>2
  <2>7. TrueMeansDone'
    BY <2>1 DEF TrueMeansDone, Returned
  <2> QED BY <1>3, <1>5, <2>1, <2>2, <2>3, <2>5, <2>6, <2>7
<1>8. CASE ReturnError
  <2>1. /\ reply = "error" /\ _errStr' = "reply->str"
        /\ UNCHANGED <<out, ledger, doubts>>
    BY <1>8 DEF ReturnError, ErrorReturn
  <2>2. ReasonIsTrue'
    BY <2>1 DEF ReasonIsTrue
  <2>3. Len(list) - ledger' \in -doubts'..doubts'
    BY <1>2, <1>4, <2>1
  <2>4. TrueMeansDone'
    BY <1>8 DEF ReturnError, ErrorReturn, TrueMeansDone, Returned
  <2> QED BY <1>2, <1>3, <1>5, <2>1, <2>2, <2>3, <2>4
<1>9. CASE ReturnException
  <2>1. /\ reply = "NULL" /\ result' = "exception" /\ doubts' = doubts + 1
        /\ UNCHANGED <<out, ledger>>
    BY <1>9 DEF ReturnException, NullReturn
  <2>2. ReasonIsTrue'
    BY <2>1 DEF ReasonIsTrue
  <2>3. doubts' \in 0..MaxDoubts /\ Len(list) - ledger' \in -doubts'..doubts'
    BY <1>2, <1>3, <1>4, <2>1
  <2>4. TrueMeansDone'
    BY <2>1 DEF TrueMeansDone, Returned
  <2> QED BY <1>3, <1>5, <2>1, <2>2, <2>3, <2>4
<1> QED BY <1>6, <1>7, <1>8, <1>9 DEF Return

LEMMA AsideKeeps ==
    ASSUME DataInv, ConnTypeOK', Aside
    PROVE  DataInv'
<1>1. /\ op = "none" /\ op' = "none" /\ call'.m = "none"
      /\ UNCHANGED <<list, hash, answer, out, before, after, ledger, doubts>>
  BY DEF Aside, NoCall, connect, disConnect, NotConnected, Callable
<1>2. MethodsTypeOK'
  BY <1>1 DEF DataInv, MethodsTypeOK
<1>3. Pending' /\ Fresh' /\ FalseMeansNoEffect' /\ ReasonIsTrue' /\ TrueMeansDone'
  BY <1>1 DEF Pending, Fresh, FalseMeansNoEffect, ReasonIsTrue, TrueMeansDone, Returned
<1>4. ResultsAccountForTheList'
  BY <1>1 DEF DataInv, ResultsAccountForTheList
<1>5. after' = Key' /\ before'.list \in Lists /\ "retval" \in DOMAIN out'
  BY <1>1 DEF DataInv, Key
<1> QED BY <1>2, <1>3, <1>4, <1>5 DEF DataInv

LEMMA MethodsStutterKeeps ==
    ASSUME DataInv, ConnTypeOK', UNCHANGED methodVars
    PROVE  DataInv'
<1>1. UNCHANGED <<op, reply, result, _errStr>> /\ UNCHANGED dataVars
  BY DEF methodVars, connVars
<1>2. MethodsTypeOK'
  BY <1>1 DEF dataVars, DataInv, MethodsTypeOK
<1>3. Pending' /\ Fresh'
  BY <1>1 DEF dataVars, DataInv, Pending, Fresh
<1>4. FalseMeansNoEffect' /\ ReasonIsTrue' /\ ResultsAccountForTheList'
      /\ (FreshVariables => TrueMeansDone')
  BY <1>1 DEF dataVars, DataInv, FalseMeansNoEffect, ReasonIsTrue,
              ResultsAccountForTheList, TrueMeansDone, Returned
<1>5. after' = Key' /\ before'.list \in Lists /\ "retval" \in DOMAIN out'
  BY <1>1 DEF dataVars, DataInv, Key
<1> QED BY <1>2, <1>3, <1>4, <1>5 DEF DataInv

THEOREM MethodsInvariance == MethodsSpec => [](ConnInv /\ DataInv)
<1>1. MethodsInit => ConnInv /\ DataInv
  BY Initial, DataInitial DEF MethodsInit
<1>2. ConnInv /\ DataInv /\ [MethodsNext]_methodVars => (ConnInv /\ DataInv)'
  <2> SUFFICES ASSUME ConnInv, DataInv, [MethodsNext]_methodVars
               PROVE  ConnInv' /\ DataInv'
    OBVIOUS
  <2>1. list \in Lists /\ hash \in Hashes
    BY DEF DataInv, MethodsTypeOK
  <2>2. ConnInv'
    BY <2>1, StepIsAConnStep, ConnStepKeeps
  <2>3. ConnTypeOK'
    BY <2>2 DEF ConnInv
  <2>4. CASE MethodsNext /\ ~Return /\ ~Aside
    <3>1. LawfulAsk
      BY <2>1, <2>4, MethodIsLawful DEF MethodsNext
    <3> QED BY <2>2, <2>3, <3>1, AskKeeps
  <2>5. CASE Return
    BY <2>2, <2>3, <2>5, ReturnKeeps
  <2>6. CASE Aside
    BY <2>2, <2>3, <2>6, AsideKeeps
  <2>7. CASE UNCHANGED methodVars
    BY <2>2, <2>3, <2>7, MethodsStutterKeeps
  <2> QED BY <2>4, <2>5, <2>6, <2>7
<1> QED BY <1>1, <1>2, PTL DEF MethodsSpec

-----------------------------------------------------------------------------
(* The data of the key and of the caller keep their types, and the key is never
   a list and a hash at once. *)
THEOREM MethodsTypes == MethodsSpec => []MethodsTypeOK
<1>1. DataInv => MethodsTypeOK
  BY DEF DataInv
<1> QED BY <1>1, MethodsInvariance, PTL

(* A method that returned false has changed nothing on the server, whatever the
   way of its command to tell of a failure. *)
THEOREM FalseIsHarmless == MethodsSpec => []FalseMeansNoEffect
<1>1. DataInv => FalseMeansNoEffect
  BY DEF DataInv
<1> QED BY <1>1, MethodsInvariance, PTL

(* A method that returned true did what CRedisConn.h says, for a caller that
   passes new variables; of lrange this is said for the smaller half of the
   starts (CRedisConn.cpp:339). *)
THEOREM TrueIsTrue ==
    ASSUME FreshVariables
    PROVE  MethodsSpec => []TrueMeansDone
<1>1. DataInv => TrueMeansDone
  BY DEF DataInv
<1> QED BY <1>1, MethodsInvariance, PTL

(* The reason of a failure, the missing element of lindex and of lrange included,
   is the case. *)
THEOREM ReasonsAreTrue == MethodsSpec => []ReasonIsTrue
<1>1. DataInv => ReasonIsTrue
  BY DEF DataInv
<1> QED BY <1>1, MethodsInvariance, PTL

(* The results of a caller add up to the length of the list, up to one for each
   call that threw. *)
THEOREM ResultsAddUp == MethodsSpec => []ResultsAccountForTheList
<1>1. DataInv => ResultsAccountForTheList
  BY DEF DataInv
<1> QED BY <1>1, MethodsInvariance, PTL

(* The methods are a way to use the connection: what they do to it is a behaviour
   of CRedisConn, so that its theorems hold for an object whose methods are
   called (CRedisConn.cpp:216-730 against :104-214). *)
THEOREM MethodsUseTheConnection == MethodsSpec => ConnSpec
<1>1. MethodsInit => ConnInit
  BY DEF MethodsInit
<1>2. DataInv /\ [MethodsNext]_methodVars => [ConnNext]_connVars
  BY StepIsAConnStep DEF DataInv, MethodsTypeOK
<1> QED BY <1>1, <1>2, MethodsInvariance, PTL DEF MethodsSpec, ConnSpec

(* So the result of a method tells whether the link held while it ran. *)
THEOREM MethodsKeepTheSession == MethodsSpec => ImplementsSession
BY MethodsUseTheConnection, AnswersTellTheSession
=============================================================================
