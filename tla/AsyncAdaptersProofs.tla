------------------------ MODULE AsyncAdaptersProofs ------------------------
(***************************************************************************)
(* Proofs about AsyncAdapters, for any set of the eight adapters, any      *)
(* number of commands and every choice of what may fail.                   *)
(***************************************************************************)
EXTENDS AsyncAdapters, TLAPS

(* The context's hooks lead to a record of the adapter's. *)
Intact(e) == e.hooks /\ e.data = "record" /\ e.memory = "live"

(* The adapters that keep a note of what they have asked of the loop. *)
Noting == {"ae", "glib", "libev", "libuv", "qt"}

Agree(kind, e) == kind \in Noting => e.noted = e.watched

-----------------------------------------------------------------------------
(* What the primitives change of an event side, and what they leave alone. *)
Same(r, e) ==
    /\ r \in EventSides
    /\ r.data = e.data /\ r.hooks = e.hooks
    /\ r.leaked = e.leaked /\ r.fault = e.fault

LEMMA Primitives ==
    ASSUME NEW e \in EventSides, NEW d \in Dirs
    PROVE  /\ /\ Same(Note(e, d), e)
              /\ Note(e, d).noted = e.noted \cup {d}
              /\ Note(e, d).watched = e.watched
              /\ Note(e, d).memory = e.memory
           /\ /\ Same(Drop(e, d), e)
              /\ Drop(e, d).noted = e.noted \ {d}
              /\ Drop(e, d).watched = e.watched
              /\ Drop(e, d).memory = e.memory
           /\ /\ Same(Watch(e, d), e)
              /\ Watch(e, d).noted = e.noted
              /\ Watch(e, d).watched = e.watched \cup {d}
              /\ Watch(e, d).memory = e.memory
           /\ /\ Same(Unwatch(e, d), e)
              /\ Unwatch(e, d).noted = e.noted
              /\ Unwatch(e, d).watched = e.watched \ {d}
              /\ Unwatch(e, d).memory = e.memory
<1>1. /\ Same(Note(e, d), e) /\ Note(e, d).noted = e.noted \cup {d}
      /\ Note(e, d).watched = e.watched /\ Note(e, d).memory = e.memory
  BY DEF Same, Note, EventSides
<1>2. /\ Same(Drop(e, d), e) /\ Drop(e, d).noted = e.noted \ {d}
      /\ Drop(e, d).watched = e.watched /\ Drop(e, d).memory = e.memory
  BY DEF Same, Drop, EventSides
<1>3. /\ Same(Watch(e, d), e) /\ Watch(e, d).noted = e.noted
      /\ Watch(e, d).watched = e.watched \cup {d} /\ Watch(e, d).memory = e.memory
  BY DEF Same, Watch, EventSides
<1>4. /\ Same(Unwatch(e, d), e) /\ Unwatch(e, d).noted = e.noted
      /\ Unwatch(e, d).watched = e.watched \ {d} /\ Unwatch(e, d).memory = e.memory
  BY DEF Same, Unwatch, EventSides
<1> QED BY <1>1, <1>2, <1>3, <1>4

LEMMA WholePrimitives ==
    ASSUME NEW e \in EventSides
    PROVE  /\ \A dirs \in SUBSET Dirs :
              /\ Same(Poll(e, dirs), e)
              /\ Poll(e, dirs).noted = e.noted
              /\ Poll(e, dirs).watched = dirs
              /\ Poll(e, dirs).memory = e.memory
           /\ /\ Same(Forget(e), e)
              /\ Forget(e).noted = e.noted
              /\ Forget(e).watched = {}
              /\ Forget(e).memory = e.memory
           /\ /\ Same(Close(e), e)
              /\ Close(e).noted = e.noted
              /\ Close(e).watched = e.watched
              /\ Close(e).memory = "closing"
           /\ /\ Same(Free(e), e)
              /\ Free(e).noted = e.noted
              /\ Free(e).watched = e.watched
              /\ Free(e).memory = "freed"
<1>a. ASSUME NEW dirs \in SUBSET Dirs
      PROVE  /\ Same(Poll(e, dirs), e) /\ Poll(e, dirs).noted = e.noted
             /\ Poll(e, dirs).watched = dirs /\ Poll(e, dirs).memory = e.memory
  BY DEF Same, Poll, EventSides
<1>1. /\ Same(Forget(e), e) /\ Forget(e).noted = e.noted
      /\ Forget(e).watched = {} /\ Forget(e).memory = e.memory
  BY <1>a DEF Forget
<1>2. /\ Same(Free(e), e) /\ Free(e).noted = e.noted
      /\ Free(e).watched = e.watched /\ Free(e).memory = "freed"
  BY DEF Same, Free, EventSides
<1>3. /\ Same(Close(e), e) /\ Close(e).noted = e.noted
      /\ Close(e).watched = e.watched /\ Close(e).memory = "closing"
  BY DEF Same, Close, EventSides
<1> QED BY <1>a, <1>1, <1>2, <1>3

-----------------------------------------------------------------------------
(* The hooks, one by one.  An intact record stays so when a direction is added
   or taken back, and if notes and loop agreed they still do. *)
LEMMA AddIntact ==
    ASSUME NEW kind \in Kinds, NEW e \in EventSides, NEW d \in Dirs,
           Intact(e), e.fault = "none"
    PROVE  /\ Add(kind, e, d) \in EventSides /\ Intact(Add(kind, e, d))
           /\ Add(kind, e, d).fault = "none"
           /\ Add(kind, e, d).leaked = e.leaked
           /\ Agree(kind, e) =>
                 /\ Agree(kind, Add(kind, e, d))
                 /\ Add(kind, e, d).watched = e.watched \cup {d}
<1> DEFINE r == AddOf(kind, e, d)
<1>1. Add(kind, e, d) = r
  BY DEF Add, Hook, Intact
<1>2. Same(r, e) /\ r.memory = e.memory
      /\ (Agree(kind, e) => Agree(kind, r) /\ r.watched = e.watched \cup {d})
  <2> DEFINE n == Note(e, d)
  <2>a. n \in EventSides
    BY Primitives DEF Same
  <2>b. Same(Watch(n, d), n) /\ Watch(n, d).memory = n.memory
        /\ Watch(n, d).noted = n.noted /\ Watch(n, d).watched = n.watched \cup {d}
    BY <2>a, Primitives
  <2>c. Same(n, e) /\ n.memory = e.memory /\ n.noted = e.noted \cup {d}
        /\ n.watched = e.watched
    BY Primitives
  <2>d. Same(e, e)
    BY DEF Same
  <2> HIDE DEF n
  <2>1. CASE kind \in {"ae", "libev", "qt"}
    <3>1. r = IF d \in e.noted THEN e ELSE Watch(n, d)
      BY <2>1 DEF AddOf, AeAdd, LibevAdd, QtAdd, n
    <3> HIDE DEF r
    <3> QED BY <3>1, <2>1, <2>b, <2>c, <2>d DEF Same, Agree, Noting
  <2>2. CASE kind \in {"ivykis", "libevent", "macosx"}
    <3>1. r = Watch(e, d)
      BY <2>2 DEF AddOf, IvykisAdd, LibeventAdd, MacOSAdd
    <3> HIDE DEF r
    <3> QED BY <3>1, <2>2, Primitives DEF Agree, Noting
  <2>3. CASE kind = "glib"
    <3>1. r = Watch(n, d)
      BY <2>3 DEF AddOf, GlibAdd, n
    <3> HIDE DEF r
    <3> QED BY <3>1, <2>3, <2>b, <2>c DEF Same, Agree, Noting
  <2>4. CASE kind = "libuv"
    <3>1. r = Poll(n, e.noted \cup {d})
      BY <2>4 DEF AddOf, LibuvAdd, n
    <3>a. e.noted \cup {d} \in SUBSET Dirs
      BY DEF EventSides
    <3> HIDE DEF r
    <3>2. /\ Same(r, n) /\ r.memory = n.memory /\ r.noted = n.noted
          /\ r.watched = e.noted \cup {d}
      BY <3>1, <3>a, <2>a, WholePrimitives
    <3> QED BY <3>2, <2>4, <2>c DEF Same, Agree, Noting
  <2> QED BY <2>1, <2>2, <2>3, <2>4 DEF Kinds
<1> HIDE DEF r
<1> QED BY <1>1, <1>2 DEF Same, Intact

LEMMA DelIntact ==
    ASSUME NEW kind \in Kinds, NEW e \in EventSides, NEW d \in Dirs,
           Intact(e), e.fault = "none"
    PROVE  /\ Del(kind, e, d) \in EventSides /\ Intact(Del(kind, e, d))
           /\ Del(kind, e, d).fault = "none"
           /\ Del(kind, e, d).leaked = e.leaked
           /\ Agree(kind, e) =>
                 /\ Agree(kind, Del(kind, e, d))
                 /\ Del(kind, e, d).watched = e.watched \ {d}
<1> DEFINE r == DelOf(kind, e, d)
<1>1. Del(kind, e, d) = r
  BY DEF Del, Hook, Intact
<1>2. Same(r, e) /\ r.memory = e.memory
      /\ (Agree(kind, e) => Agree(kind, r) /\ r.watched = e.watched \ {d})
  <2> DEFINE n == Drop(e, d)
  <2>a. n \in EventSides
    BY Primitives DEF Same
  <2>b. Same(Unwatch(n, d), n) /\ Unwatch(n, d).memory = n.memory
        /\ Unwatch(n, d).noted = n.noted
        /\ Unwatch(n, d).watched = n.watched \ {d}
    BY <2>a, Primitives
  <2>c. Same(n, e) /\ n.memory = e.memory /\ n.noted = e.noted \ {d}
        /\ n.watched = e.watched
    BY Primitives
  <2>d. Same(e, e)
    BY DEF Same
  <2> HIDE DEF n
  <2>1. CASE kind \in {"ae", "libev", "qt"}
    <3>1. r = IF d \in e.noted THEN Unwatch(n, d) ELSE e
      BY <2>1 DEF DelOf, AeDel, LibevDel, QtDel, n
    <3> HIDE DEF r
    <3> QED BY <3>1, <2>1, <2>b, <2>c, <2>d DEF Same, Agree, Noting
  <2>2. CASE kind \in {"ivykis", "libevent", "macosx"}
    <3>1. r = Unwatch(e, d)
      BY <2>2 DEF DelOf, IvykisDel, LibeventDel, MacOSDel
    <3> HIDE DEF r
    <3> QED BY <3>1, <2>2, Primitives DEF Agree, Noting
  <2>3. CASE kind = "glib"
    <3>1. r = Unwatch(n, d)
      BY <2>3 DEF DelOf, GlibDel, n
    <3> HIDE DEF r
    <3> QED BY <3>1, <2>3, <2>b, <2>c DEF Same, Agree, Noting
  <2>4. CASE kind = "libuv"
    <3>1. r = IF n.noted # {} THEN Poll(n, n.noted) ELSE Forget(n)
      BY <2>4 DEF DelOf, LibuvDel, n
    <3>a. n.noted \in SUBSET Dirs
      BY <2>a DEF EventSides
    <3> HIDE DEF r
    <3>2. /\ Same(r, n) /\ r.memory = n.memory /\ r.noted = n.noted
          /\ r.watched = n.noted
      BY <3>1, <3>a, <2>a, WholePrimitives
    <3> QED BY <3>2, <2>4, <2>c DEF Same, Agree, Noting
  <2> QED BY <2>1, <2>2, <2>3, <2>4 DEF Kinds
<1> HIDE DEF r
<1> QED BY <1>1, <1>2 DEF Same, Intact

(* Cleanup of an intact record leaves nothing watched, and the record is gone
   unless it is the program's. *)
LEMMA CleanupIntact ==
    ASSUME NEW kind \in Kinds, NEW e \in EventSides,
           Intact(e), e.fault = "none", kind # "libuv" => Agree(kind, e)
    PROVE  /\ Same(Cleanup(kind, e), e)
           /\ Cleanup(kind, e).watched = {}
           /\ kind \in Owned => Cleanup(kind, e).memory = "live"
           /\ kind \notin Owned => Cleanup(kind, e).memory \in {"freed", "closing"}
<1> DEFINE r == CleanupOf(kind, e)
<1>1. Cleanup(kind, e) = r
  BY DEF Cleanup, Hook, Intact
<1>2. /\ Same(r, e) /\ r.watched = {}
      /\ kind \in Owned => r.memory = "live"
      /\ kind \notin Owned => r.memory \in {"freed", "closing"}
  <2>a. e.noted \subseteq Dirs /\ e.watched \subseteq Dirs
    BY DEF EventSides
  <2>d. {"read", "write"} = Dirs
    BY DEF Dirs
  <2>1. CASE kind \in {"ae", "libev", "qt"}
    <3> DEFINE One(n, d) == IF d \in n.noted THEN Unwatch(Drop(n, d), d) ELSE n
    <3>1. ASSUME NEW n \in EventSides, NEW d \in Dirs, n.noted = n.watched
          PROVE  /\ Same(One(n, d), n) /\ One(n, d).memory = n.memory
                 /\ One(n, d).noted = n.noted \ {d}
                 /\ One(n, d).watched = n.watched \ {d}
      <4> DEFINE p == Drop(n, d)
      <4>1. /\ Same(p, n) /\ p.noted = n.noted \ {d}
            /\ p.watched = n.watched /\ p.memory = n.memory
        BY <3>1, Primitives
      <4>2. p \in EventSides
        BY <4>1 DEF Same
      <4> HIDE DEF p
      <4>3. /\ Same(Unwatch(p, d), p) /\ Unwatch(p, d).noted = p.noted
            /\ Unwatch(p, d).watched = p.watched \ {d}
            /\ Unwatch(p, d).memory = p.memory
        BY <4>2, Primitives
      <4>4. One(n, d) = IF d \in n.noted THEN Unwatch(p, d) ELSE n
        BY DEF p
      <4> QED BY <3>1, <4>1, <4>3, <4>4 DEF Same
    <3> DEFINE n == One(e, "read")
               b == One(n, "write")
    <3>2. /\ Same(n, e) /\ n.memory = e.memory
          /\ n.noted = e.noted \ {"read"} /\ n.watched = e.watched \ {"read"}
      BY <3>1, <2>1, <2>d DEF Agree, Noting
    <3>3. n.noted = n.watched
      BY <3>2, <2>1 DEF Agree, Noting
    <3> HIDE DEF n
    <3>4. /\ Same(b, n) /\ b.memory = n.memory
          /\ b.noted = n.noted \ {"write"} /\ b.watched = n.watched \ {"write"}
      BY <3>1, <3>2, <3>3, <2>d DEF Same
    <3> USE DEF n
    <3>5. r = IF kind = "qt" THEN b ELSE Free(b)
      BY <2>1 DEF CleanupOf, AeCleanup, AeDel, LibevCleanup, LibevDel,
                  QtCleanup, QtDel
    <3> HIDE DEF n, b, One
    <3>6. b.watched = {}
      BY <3>2, <3>4, <2>a, <2>d
    <3>7. Same(b, e) /\ b.memory = "live"
      BY <3>2, <3>4 DEF Same, Intact
    <3>8. Same(Free(b), b) /\ Free(b).watched = b.watched /\ Free(b).memory = "freed"
      BY <3>7, WholePrimitives DEF Same
    <3> HIDE DEF r
    <3> QED BY <3>5, <3>6, <3>7, <3>8, <2>1 DEF Same, Owned
  <2>2. CASE kind \in {"ivykis", "macosx", "libuv"}
    <3> DEFINE n == Forget(e)
    <3>1. Same(n, e) /\ n.watched = {}
      BY WholePrimitives
    <3>2. r = IF kind = "libuv" THEN Close(n) ELSE Free(n)
      BY <2>2 DEF CleanupOf, IvykisCleanup, MacOSCleanup, LibuvCleanup, n
    <3> HIDE DEF n
    <3>3. /\ Same(Free(n), n) /\ Free(n).watched = n.watched
          /\ Free(n).memory = "freed"
          /\ Same(Close(n), n) /\ Close(n).watched = n.watched
          /\ Close(n).memory = "closing"
      BY <3>1, WholePrimitives DEF Same
    <3> HIDE DEF r
    <3> QED BY <3>1, <3>2, <3>3, <2>2 DEF Same, Owned
  <2>3. CASE kind = "libevent"
    <3> DEFINE n == Unwatch(e, "read")
               b == Unwatch(n, "write")
    <3>1. Same(n, e) /\ n.watched = e.watched \ {"read"}
      BY <2>d, Primitives
    <3>2. r = Free(b)
      BY <2>3 DEF CleanupOf, LibeventCleanup, n
    <3> HIDE DEF n
    <3>3. Same(b, n) /\ b.watched = n.watched \ {"write"}
      BY <2>d, <3>1, Primitives DEF Same
    <3> HIDE DEF b
    <3>4. Same(b, e) /\ b.watched = {}
      BY <3>1, <3>3, <2>a, <2>d DEF Same
    <3>5. Same(Free(b), b) /\ Free(b).watched = b.watched /\ Free(b).memory = "freed"
      BY <3>4, WholePrimitives DEF Same
    <3> HIDE DEF r
    <3> QED BY <3>2, <3>4, <3>5, <2>3 DEF Same, Owned
  <2>4. CASE kind = "glib"
    <3> DEFINE n == GlibDel(e, "read")
               b == GlibDel(n, "write")
    <3>1. ASSUME NEW m \in EventSides, NEW d \in Dirs
          PROVE  Same(GlibDel(m, d), m) /\ GlibDel(m, d).memory = m.memory
      <4>1. Same(Drop(m, d), m) /\ Drop(m, d).memory = m.memory
        BY Primitives
      <4>2. Drop(m, d) \in EventSides
        BY <4>1 DEF Same
      <4>3. /\ Same(Unwatch(Drop(m, d), d), Drop(m, d))
            /\ Unwatch(Drop(m, d), d).memory = Drop(m, d).memory
        BY <4>2, Primitives
      <4> QED BY <4>1, <4>3 DEF Same, GlibDel
    <3>2. Same(n, e) /\ n.memory = e.memory
      BY <3>1, <2>d
    <3>3. r = Forget(b)
      BY <2>4 DEF CleanupOf, GlibCleanup
    <3> HIDE DEF n
    <3>4. Same(b, n) /\ b.memory = n.memory
      BY <3>1, <3>2, <2>d DEF Same
    <3> HIDE DEF b
    <3>5. Same(Forget(b), b) /\ Forget(b).watched = {} /\ Forget(b).memory = b.memory
      BY <3>4, WholePrimitives DEF Same
    <3> HIDE DEF r
    <3> QED BY <3>2, <3>3, <3>4, <3>5, <2>4 DEF Same, Owned, Intact
  <2> QED BY <2>1, <2>2, <2>3, <2>4 DEF Kinds
<1> HIDE DEF r
<1> QED BY <1>1, <1>2

(* A hook without its record faults, or does nothing when it is not set. *)
LEMMA HookMissing ==
    ASSUME NEW e \in EventSides, NEW after, ~Intact(e), e.fault = "none"
    PROVE  /\ Hook(e, after) \in EventSides
           /\ Hook(e, after).watched = e.watched
           /\ Hook(e, after).memory = e.memory
           /\ ~e.hooks => Hook(e, after) = e
           /\ e.hooks => /\ Hook(e, after).fault \in {"no record", "freed record"}
                         /\ Hook(e, after).hooks
                         /\ ~Intact(Hook(e, after))
<1>1. CASE ~e.hooks
  BY <1>1 DEF Hook
<1>2. CASE e.hooks /\ e.data = "NULL"
  <2>1. Hook(e, after) = Fail(e, "no record")
    BY <1>2 DEF Hook
  <2>2. Fail(e, "no record") \in EventSides /\ Fail(e, "no record").hooks
        /\ Fail(e, "no record").data = "NULL"
        /\ Fail(e, "no record").watched = e.watched
        /\ Fail(e, "no record").memory = e.memory
        /\ Fail(e, "no record").fault = "no record"
    BY <1>2 DEF Fail, EventSides
  <2> QED BY <1>2, <2>1, <2>2 DEF Intact
<1>3. CASE e.hooks /\ e.data # "NULL"
  <2>1. e.memory # "live"
    BY <1>3 DEF Intact, EventSides
  <2>2. Hook(e, after) = Fail(e, "freed record")
    BY <1>3, <2>1 DEF Hook
  <2>3. Fail(e, "freed record") \in EventSides /\ Fail(e, "freed record").hooks
        /\ Fail(e, "freed record").memory = e.memory
        /\ Fail(e, "freed record").watched = e.watched
        /\ Fail(e, "freed record").fault = "freed record"
    BY <1>3 DEF Fail, EventSides
  <2> QED BY <1>3, <2>1, <2>2, <2>3 DEF Intact
<1> QED BY <1>1, <1>2, <1>3 DEF EventSides

LEMMA HookFaulted ==
    ASSUME NEW e \in EventSides, NEW after, e.fault # "none"
    PROVE  Hook(e, after) = e
BY DEF Hook

-----------------------------------------------------------------------------
(* libuv.h:20 has dropped, or is about to drop, an error of the socket. *)
Dropped == adapter = "libuv" /\ socket = "broken"

(* A RedisQtAdapter has gone and left its notifiers behind. *)
Orphaned == adapter = "qt" /\ el.leaked

Watching ==
    /\ obuf > 0 => "write" \in el.watched
    /\ Sent > 0 => "read" \in el.watched

(* How the hooks, the record and attach go together. *)
RecordInv ==
    /\ el.memory = "live" => Intact(el)
    /\ ~el.hooks => el.memory = "none" /\ el.data = "NULL"
    /\ attached = "never" => ~el.hooks /\ replies = 0
    /\ ~el.hooks => attached = "never" \/ adapter = "macosx"
    /\ rest # {} => adapter \in TwoInOne

GoneInv ==
    /\ el.watched = {}
    /\ adapter \notin Owned => el.memory # "live"

(* A context without its record: why it is so, and what it cannot have. *)
UnboundInv ==
    /\ el.watched = {} /\ rest = {}
    /\ \/ attached = "never" \/ attached = "failed"
       \/ adapter \in Owned /\ el.memory = "freed"
    /\ adapter \notin {"macosx", "glib"} /\ ~Orphaned => replies = 0

BoundInv ==
    ~Dropped => /\ Agree(adapter, el)
                /\ ~Orphaned => Watching

Standing ==
    /\ RecordInv
    /\ context = "freed" => GoneInv
    /\ context = "live" /\ ~Intact(el) => UnboundInv
    /\ context = "live" /\ Intact(el) => BoundInv

Counters ==
    /\ flags \subseteq Flags
    /\ obuf \in 0..MaxCommands /\ replies \in 0..MaxCommands
    /\ answers \in 0..MaxCommands /\ issued \in 0..MaxCommands
    /\ obuf + answers <= replies /\ replies <= issued

AsyncInv ==
    /\ AsyncTypeOK
    /\ Counters
    /\ FreedContextIsLeftAlone
    /\ HooksFindTheirRecord
    /\ Alive => Standing

-----------------------------------------------------------------------------
(* The side that a call-back hands on when direction d was delivered: its record
   is the one it was, and it watches for no less but for d. *)
Handed(e, d) ==
    /\ e \in EventSides /\ Intact(e) /\ e.fault = "none" /\ e.leaked = el.leaked
    /\ e.watched \subseteq el.watched /\ el.watched \ {d} \subseteq e.watched
    /\ Agree(adapter, el) => Agree(adapter, e)

LEMMA DeliveryHands ==
    ASSUME el \in EventSides, NEW d \in Dirs,
           NEW e \in {el, Delivered(adapter, el, d)}
    PROVE  /\ e \in EventSides /\ e.watched \subseteq el.watched
           /\ Intact(el) /\ el.fault = "none" => Handed(e, d)
<1>1. CASE e = el
  BY <1>1 DEF Handed
<1>2. CASE e = Unwatch(el, d) /\ d \in OneShot(adapter)
  <2> DEFINE u == Unwatch(el, d)
  <2>1. /\ Same(u, el) /\ u.noted = el.noted /\ u.watched = el.watched \ {d}
        /\ u.memory = el.memory
    BY Primitives
  <2>2. adapter \notin Noting
    BY <1>2 DEF OneShot, Noting
  <2>3. e = u
    BY <1>2
  <2> HIDE DEF u
  <2> QED BY <2>1, <2>2, <2>3 DEF Same, Handed, Intact, Agree
<1> QED BY <1>1, <1>2 DEF Delivered

(* What the commands are counted with, whatever the adapter does. *)
LEMMA CountersStep ==
    ASSUME Counters, Next
    PROVE  Counters'
<1> USE CommandsAssumption
<1>1. ASSUME NEW e, Teardown(e) PROVE Counters'
  BY <1>1 DEF Counters, Teardown
<1>2. ASSUME NEW e, HandleRead(e) PROVE Counters'
  <2>1. CASE ReadFails(e)
    BY <2>1, <1>1 DEF ReadFails
  <2>2. CASE ReadReplies(e)
    <3>1. flags' \subseteq Flags
      BY <2>2 DEF ReadReplies, Counters, Flags
    <3>2. obuf' = obuf /\ issued' = issued /\ answers' = 0
      BY <2>2 DEF ReadReplies
    <3>3. \/ replies = answers /\ replies' = 0
          \/ replies' = replies - answers
      BY <2>2 DEF ReadReplies
    <3> QED BY <3>1, <3>2, <3>3 DEF Counters
  <2>3. CASE ReadAndCommand(e)
    <3>1. flags' \subseteq Flags
      BY <2>3 DEF ReadAndCommand, Counters, Flags
    <3>2. /\ issued < MaxCommands /\ issued' = issued + 1
          /\ replies' = replies - answers + 1
          /\ obuf' = obuf + 1 /\ answers' = 0
      BY <2>3 DEF ReadAndCommand
    <3> QED BY <3>1, <3>2 DEF Counters
  <2>4. CASE ReadAndFree(e)
    BY <2>4, <1>1 DEF ReadAndFree
  <2> QED BY <1>2, <2>1, <2>2, <2>3, <2>4 DEF HandleRead
<1>3. ASSUME NEW e, HandleWrite(e) PROVE Counters'
  <2>1. CASE WriteFails(e)
    BY <2>1, <1>1 DEF WriteFails
  <2>2. CASE WriteCommands(e)
    <3>1. flags' \subseteq Flags
      BY <2>2 DEF WriteCommands, Counters, Flags
    <3>2. PICK left \in 0..obuf : obuf' = left
      BY <2>2 DEF WriteCommands
    <3>3. replies' = replies /\ answers' = answers /\ issued' = issued
      BY <2>2 DEF WriteCommands
    <3> QED BY <3>1, <3>2, <3>3 DEF Counters
  <2> QED BY <1>3, <2>1, <2>2 DEF HandleWrite
<1>4. ASSUME UNCHANGED contextVars PROVE Counters'
  BY <1>4 DEF contextVars, Counters
<1>5. ASSUME NEW d, NEW e, Serve(d, e) PROVE Counters'
  BY <1>2, <1>3, <1>4, <1>5 DEF Serve
<1>6. ASSUME Loop PROVE Counters'
  BY <1>4, <1>5, <1>6 DEF Loop, Deliver, LibuvPoll, LibuvPollError,
     GlibDispatch, ServeRest, LibuvOnClose
<1>7. ASSUME Program PROVE Counters'
  <2>1. CASE Attach \/ OwnerLeaves
    BY <2>1, <1>4 DEF Attach, OwnerLeaves
  <2>2. CASE Command
    <3>1. /\ issued < MaxCommands /\ issued' = issued + 1
          /\ obuf' = obuf + 1 /\ replies' = replies + 1
          /\ UNCHANGED <<flags, answers>>
      BY <2>2 DEF Command
    <3> QED BY <3>1 DEF Counters
  <2>3. CASE Disconnect
    BY <2>3 DEF Disconnect, Counters, Flags
  <2>4. CASE AsyncFree
    BY <2>4, <1>1 DEF AsyncFree
  <2> QED BY <1>7, <2>1, <2>2, <2>3, <2>4 DEF Program
<1>8. ASSUME Network PROVE Counters'
  <2>1. CASE ConnectEnds \/ LinkBreaks
    BY <2>1, <1>4 DEF ConnectEnds, LinkBreaks
  <2>2. CASE ServerAnswers
    BY <2>2 DEF ServerAnswers, Sent, Counters
  <2> QED BY <1>8, <2>1, <2>2 DEF Network
<1> QED BY <1>6, <1>7, <1>8 DEF Next

(* The parts of AsyncTypeOK that no hook changes. *)
Setting ==
    /\ adapter \in Adapters /\ attached \in {"never", "ok", "failed"}
    /\ context \in {"live", "freed"}
    /\ socket \in {"connecting", "open", "broken"}
    /\ rest \subseteq Dirs

(* The context goes on, over the record it had. *)
LEMMA GoesOn ==
    ASSUME AsyncInv, Alive, context = "live", Intact(el),
           Counters', Setting', context' = "live",
           adapter' = adapter, attached' = attached, socket' = socket,
           rest' # {} => adapter \in TwoInOne,
           el' \in EventSides, Intact(el'), el'.fault = "none",
           el'.leaked = el.leaked,
           Agree(adapter, el) /\ ~Dropped => Agree(adapter, el'),
           Agree(adapter, el) /\ Watching /\ ~Dropped => Watching'
    PROVE  AsyncInv'
<1>1. AsyncTypeOK'
  BY DEF Setting, Counters, AsyncTypeOK, Intact
<1>2. FreedContextIsLeftAlone' /\ HooksFindTheirRecord' /\ Alive'
  BY DEF FreedContextIsLeftAlone, HooksFindTheirRecord, Alive
<1>3. RecordInv'
  BY DEF RecordInv, Intact, AsyncInv, Standing
<1>4. BoundInv'
  BY DEF BoundInv, Dropped, Orphaned, AsyncInv, Standing
<1> QED BY <1>1, <1>2, <1>3, <1>4 DEF AsyncInv, Standing

(* The context goes, and its record with it. *)
LEMMA Ends ==
    ASSUME AsyncInv, Alive, context = "live", Intact(el),
           Counters', Setting', context' = "freed",
           adapter' = adapter, attached' = attached,
           rest' # {} => adapter \in TwoInOne,
           NEW x \in EventSides, Intact(x), x.fault = "none",
           adapter # "libuv" => Agree(adapter, x),
           el' = Cleanup(adapter, x)
    PROVE  AsyncInv'
<1>1. adapter \in Kinds
  BY AdaptersAssumption DEF AsyncInv, AsyncTypeOK
<1>2. /\ Same(el', x) /\ el'.watched = {}
      /\ adapter \in Owned => el'.memory = "live"
      /\ adapter \notin Owned => el'.memory \in {"freed", "closing"}
  BY <1>1, CleanupIntact
<1>3. AsyncTypeOK'
  <2>1. el' \in EventSides
    BY <1>2 DEF Same
  <2> QED BY <1>2, <2>1 DEF Setting, Counters, AsyncTypeOK
<1>4. FreedContextIsLeftAlone' /\ HooksFindTheirRecord' /\ Alive'
  BY <1>2 DEF FreedContextIsLeftAlone, HooksFindTheirRecord, Alive, Same
<1>5. RecordInv'
  BY <1>2 DEF RecordInv, Intact, AsyncInv, Standing, Same
<1>6. GoneInv'
  BY <1>2 DEF GoneInv
<1> QED BY <1>3, <1>4, <1>5, <1>6 DEF AsyncInv, Standing

-----------------------------------------------------------------------------
(* What is known of a live context and its record before a call into it. *)
LEMMA Ready ==
    ASSUME AsyncInv, Alive, context = "live", Intact(el)
    PROVE  /\ adapter \in Kinds /\ el \in EventSides /\ el.fault = "none"
           /\ adapter # "libuv" => Agree(adapter, el)
           /\ "read" \in Dirs /\ "write" \in Dirs
<1>1. adapter \in Kinds /\ el \in EventSides
  BY AdaptersAssumption DEF AsyncInv, AsyncTypeOK
<1>2. el.fault = "none"
  BY DEF Alive
<1>3. adapter # "libuv" => Agree(adapter, el)
  BY DEF AsyncInv, Standing, BoundInv, Dropped
<1>4. "read" \in Dirs /\ "write" \in Dirs
  BY DEF Dirs
<1> QED BY <1>1, <1>2, <1>3, <1>4

LEMMA ReadStep ==
    ASSUME AsyncInv, Alive, context = "live", Intact(el),
           NEW e, Handed(e, "read"), HandleRead(e),
           Counters', Setting',
           adapter' = adapter, attached' = attached, socket' = socket,
           rest' # {} => adapter \in TwoInOne
    PROVE  AsyncInv'
<1>a. /\ adapter \in Kinds /\ e \in EventSides /\ e.fault = "none" /\ Intact(e)
      /\ adapter # "libuv" => Agree(adapter, el) /\ Agree(adapter, e)
      /\ "read" \in Dirs /\ "write" \in Dirs
  BY Ready DEF Handed
<1>h. /\ e.leaked = el.leaked /\ (Agree(adapter, el) => Agree(adapter, e))
      /\ \A d \in el.watched : d \in e.watched \/ d = "read"
  BY DEF Handed
<1> DEFINE read == Add(adapter, e, "read")
<1>b. /\ read \in EventSides /\ Intact(read) /\ read.fault = "none"
      /\ read.leaked = el.leaked
      /\ Agree(adapter, el) => /\ Agree(adapter, read)
                               /\ read.watched = e.watched \cup {"read"}
  BY <1>a, <1>h, AddIntact
<1>1. CASE ReadFails(e)
  <2>1. el' = Cleanup(adapter, e) /\ context' = "freed"
    BY <1>1 DEF ReadFails, Teardown
  <2> QED BY <1>a, <2>1, Ends
<1>2. CASE ReadReplies(e)
  <2>1. CASE CleanDisconnect /\ replies = answers
    <3>1. el' = Cleanup(adapter, read) /\ context' = "freed"
      BY <1>2, <2>1 DEF ReadReplies
    <3> HIDE DEF read
    <3> QED BY <1>a, <1>b, <3>1, Ends
  <2>2. CASE ~(CleanDisconnect /\ replies = answers)
    <3>1. el' = read /\ context' = "live" /\ obuf' = obuf
      BY <1>2, <2>2 DEF ReadReplies
    <3> HIDE DEF read
    <3>2. Agree(adapter, el) /\ Watching /\ ~Dropped => Watching'
      BY <1>b, <1>h, <3>1 DEF Watching
    <3> QED BY <1>b, <3>1, <3>2, GoesOn
  <2> QED BY <2>1, <2>2
<1>3. CASE ReadAndCommand(e)
  <2> DEFINE both == Add(adapter, read, "write")
  <2>1. el' = both /\ context' = "live"
    BY <1>3 DEF ReadAndCommand
  <2> HIDE DEF read
  <2>2. /\ both \in EventSides /\ Intact(both) /\ both.fault = "none"
        /\ both.leaked = read.leaked
        /\ Agree(adapter, read) => /\ Agree(adapter, both)
                                   /\ both.watched = read.watched \cup {"write"}
    BY <1>a, <1>b, AddIntact
  <2> HIDE DEF both
  <2>3. Agree(adapter, el) /\ Watching /\ ~Dropped => Watching'
    BY <1>b, <1>h, <2>1, <2>2 DEF Watching
  <2> QED BY <1>b, <2>1, <2>2, <2>3, GoesOn
<1>4. CASE ReadAndFree(e)
  <2>1. el' = Cleanup(adapter, read) /\ context' = "freed"
    BY <1>4 DEF ReadAndFree, Teardown
  <2> HIDE DEF read
  <2> QED BY <1>a, <1>b, <2>1, Ends
<1> QED BY <1>1, <1>2, <1>3, <1>4 DEF HandleRead

LEMMA WriteStep ==
    ASSUME AsyncInv, Alive, context = "live", Intact(el),
           NEW e, Handed(e, "write"), HandleWrite(e),
           Counters', Setting',
           adapter' = adapter, attached' = attached, socket' = socket,
           rest' # {} => adapter \in TwoInOne
    PROVE  AsyncInv'
<1>a. /\ adapter \in Kinds /\ e \in EventSides /\ e.fault = "none" /\ Intact(e)
      /\ adapter # "libuv" => Agree(adapter, el) /\ Agree(adapter, e)
      /\ "read" \in Dirs /\ "write" \in Dirs
  BY Ready DEF Handed
<1>h. /\ e.leaked = el.leaked /\ (Agree(adapter, el) => Agree(adapter, e))
      /\ \A d \in el.watched : d \in e.watched \/ d = "write"
  BY DEF Handed
<1>1. CASE WriteFails(e)
  <2>1. el' = Cleanup(adapter, e) /\ context' = "freed"
    BY <1>1 DEF WriteFails, Teardown
  <2> QED BY <1>a, <2>1, Ends
<1>2. CASE WriteCommands(e)
  <2> DEFINE write == IF obuf' = 0 THEN Del(adapter, e, "write")
                                   ELSE Add(adapter, e, "write")
             both == Add(adapter, write, "read")
  <2>1. el' = both /\ context' = "live"
    BY <1>2 DEF WriteCommands
  <2>2. /\ write \in EventSides /\ Intact(write) /\ write.fault = "none"
        /\ write.leaked = el.leaked
        /\ Agree(adapter, el) => Agree(adapter, write)
        /\ Agree(adapter, el) /\ obuf' # 0 =>
              write.watched = e.watched \cup {"write"}
    <3>1. CASE obuf' = 0
      <4>1. write = Del(adapter, e, "write")
        BY <3>1
      <4> HIDE DEF write
      <4> QED BY <1>a, <1>h, <3>1, <4>1, DelIntact
    <3>2. CASE obuf' # 0
      <4>1. write = Add(adapter, e, "write")
        BY <3>2
      <4> HIDE DEF write
      <4> QED BY <1>a, <1>h, <3>2, <4>1, AddIntact
    <3> QED BY <3>1, <3>2
  <2> HIDE DEF write
  <2>3. /\ both \in EventSides /\ Intact(both) /\ both.fault = "none"
        /\ both.leaked = write.leaked
        /\ Agree(adapter, write) => /\ Agree(adapter, both)
                                    /\ both.watched = write.watched \cup {"read"}
    BY <1>a, <2>2, AddIntact
  <2> HIDE DEF both
  <2>4. Agree(adapter, el) /\ Watching /\ ~Dropped => Watching'
    <3>1. obuf' > 0 => obuf' # 0
      BY DEF Counters
    <3> QED BY <2>1, <2>2, <2>3, <3>1 DEF Watching
  <2> QED BY <2>1, <2>2, <2>3, <2>4, GoesOn
<1> QED BY <1>1, <1>2 DEF HandleWrite

(* A call-back of the adapter's never uses a context that is gone, unless it
   has a second half to serve. *)
LEMMA ServeStep ==
    ASSUME AsyncInv, Alive, NEW d \in Dirs,
           NEW e \in {el, Delivered(adapter, el, d)}, Serve(d, e),
           d \in el.watched \/ rest # {},
           Counters', rest' \subseteq Dirs,
           adapter' = adapter, attached' = attached, socket' = socket,
           rest' # {} => adapter \in TwoInOne
    PROVE  AsyncInv'
<1>a. e \in EventSides /\ e.watched \subseteq el.watched
  BY DeliveryHands DEF AsyncInv, AsyncTypeOK
<1>1. CASE context = "freed"
  <2>1. el.watched = {} /\ e.watched = {}
    BY <1>a, <1>1 DEF AsyncInv, Standing, GoneInv
  <2>2. adapter \in TwoInOne
    BY <2>1 DEF AsyncInv, Standing, RecordInv
  <2>3. el' = Fail(e, "freed context") /\ context' = "freed"
    BY <1>1 DEF Serve, contextVars
  <2>4. /\ Fail(e, "freed context") \in EventSides
        /\ Fail(e, "freed context").watched = e.watched
        /\ Fail(e, "freed context").fault = "freed context"
    BY <1>a DEF Fail, EventSides
  <2>5. AsyncTypeOK'
    BY <2>1, <2>3, <2>4 DEF AsyncInv, AsyncTypeOK, Counters
  <2> QED BY <2>1, <2>2, <2>3, <2>4, <2>5
          DEF AsyncInv, Alive, FreedContextIsLeftAlone, HooksFindTheirRecord
<1>2. CASE context = "live"
  <2>1. Intact(el)
    BY <1>2 DEF AsyncInv, Standing, UnboundInv
  <2>2. \/ d = "read" /\ HandleRead(e)
        \/ d = "write" /\ HandleWrite(e)
    BY <1>2 DEF Serve
  <2>3. context' \in {"live", "freed"}
    BY <1>2, <2>2 DEF HandleRead, ReadFails, ReadReplies, ReadAndCommand,
       ReadAndFree, HandleWrite, WriteFails, WriteCommands, Teardown
  <2>4. Setting'
    BY <2>3 DEF AsyncInv, AsyncTypeOK, Setting
  <2>5. Handed(e, d)
    BY <2>1, DeliveryHands DEF AsyncInv, AsyncTypeOK, Alive
  <2> QED BY <1>2, <2>1, <2>2, <2>4, <2>5, ReadStep, WriteStep
<1> QED BY <1>1, <1>2 DEF AsyncInv, AsyncTypeOK

LEMMA LoopStep ==
    ASSUME AsyncInv, Alive, Loop, Counters'
    PROVE  AsyncInv'
<1>a. /\ el \in EventSides /\ el.watched \subseteq Dirs /\ rest \subseteq Dirs
  BY DEF AsyncInv, AsyncTypeOK, EventSides
<1>b. rest # {} => adapter \in TwoInOne
  BY DEF AsyncInv, Standing, RecordInv
<1>1. ASSUME NEW d \in Dirs, Deliver(d) PROVE AsyncInv'
  <2>1. /\ d \in el.watched /\ Serve(d, Delivered(adapter, el, d)) /\ rest' = rest
        /\ adapter' = adapter /\ attached' = attached /\ socket' = socket
    BY <1>1 DEF Deliver
  <2> QED BY <1>a, <1>b, <2>1, ServeStep
<1>2. CASE LibuvPoll \/ GlibDispatch
  <2> DEFINE events == el.watched \cap ReadyDirs
  <2>1. PICK d \in events : Serve(d, el) /\ rest' = events \ {d}
    BY <1>2 DEF LibuvPoll, GlibDispatch
  <2>2. /\ adapter \in TwoInOne /\ adapter' = adapter /\ attached' = attached
        /\ socket' = socket
    BY <1>2 DEF LibuvPoll, GlibDispatch, TwoInOne
  <2>3. d \in Dirs /\ d \in el.watched /\ rest' \subseteq Dirs
    BY <1>a, <2>1
  <2> QED BY <2>1, <2>2, <2>3, ServeStep
<1>3. CASE LibuvPollError
  <2>1. /\ Same(Forget(el), el) /\ Forget(el).watched = {}
        /\ Forget(el).memory = el.memory
    BY <1>a, WholePrimitives
  <2>2. /\ el' = Forget(el) /\ adapter = "libuv" /\ socket = "broken"
        /\ el.watched # {} /\ rest = {}
        /\ adapter' = adapter /\ attached' = attached /\ context' = context
        /\ socket' = socket /\ rest' = rest /\ replies' = replies
    BY <1>3 DEF LibuvPollError, contextVars
  <2>3. context = "live" /\ Intact(el)
    BY <2>2 DEF AsyncInv, AsyncTypeOK, Standing, GoneInv, UnboundInv
  <2>4. AsyncTypeOK'
    BY <2>1, <2>2 DEF AsyncInv, AsyncTypeOK, Counters, Same
  <2>5. FreedContextIsLeftAlone' /\ HooksFindTheirRecord'
    BY <2>1, <2>2 DEF FreedContextIsLeftAlone, HooksFindTheirRecord, Alive, Same
  <2>6. RecordInv' /\ BoundInv' /\ Intact(el)'
    BY <2>1, <2>2, <2>3 DEF AsyncInv, Standing, RecordInv, BoundInv, Dropped,
       Intact, Same
  <2> QED BY <2>2, <2>3, <2>4, <2>5, <2>6 DEF AsyncInv, Standing
<1>4. CASE ServeRest
  <2>1. PICK d \in rest : Serve(d, el)
    BY <1>4 DEF ServeRest
  <2>2. /\ rest' = {} /\ adapter' = adapter /\ attached' = attached
        /\ socket' = socket
    BY <1>4 DEF ServeRest
  <2>3. d \in Dirs /\ rest # {} /\ rest' \subseteq Dirs
    BY <1>a, <2>1, <2>2
  <2> QED BY <2>1, <2>2, <2>3, ServeStep
<1>5. CASE LibuvOnClose
  <2>1. Same(Free(el), el) /\ Free(el).watched = el.watched /\ Free(el).memory = "freed"
    BY <1>a, WholePrimitives
  <2>2. /\ el' = Free(el) /\ el.memory = "closing" /\ rest = {}
        /\ adapter' = adapter /\ attached' = attached /\ context' = context
        /\ socket' = socket /\ rest' = rest /\ replies' = replies
    BY <1>5 DEF LibuvOnClose, OnClose, contextVars
  <2>3. AsyncTypeOK'
    BY <2>1, <2>2 DEF AsyncInv, AsyncTypeOK, Counters, Same
  <2>4. FreedContextIsLeftAlone' /\ HooksFindTheirRecord'
    BY <2>1, <2>2 DEF FreedContextIsLeftAlone, HooksFindTheirRecord, Alive, Same
  <2>5. RecordInv'
    BY <2>1, <2>2 DEF AsyncInv, Standing, RecordInv, Same
  <2>6. ~Intact(el) /\ ~Intact(el')
    BY <2>1, <2>2 DEF Intact
  <2>7. (context = "freed" => GoneInv') /\ (context = "live" => UnboundInv')
    BY <2>1, <2>2, <2>6 DEF AsyncInv, Standing, GoneInv, UnboundInv, Orphaned,
       Same
  <2> QED BY <2>2, <2>3, <2>4, <2>5, <2>6, <2>7 DEF AsyncInv, Standing
<1> QED BY <1>1, <1>2, <1>3, <1>4, <1>5 DEF Loop

-----------------------------------------------------------------------------
(* Every end of an attach function: what there was is left as it was; a whole
   record, made where there was none; or a failure with nothing to show. *)
Refused(kind, e, result) ==
    /\ result = <<"failed", e>>
    /\ e.data # "NULL" \/ kind = "macosx"

Made(kind, e, result) ==
    LET r == result[2] IN
    /\ result[1] = "ok" /\ r \in EventSides /\ Intact(r)
    /\ r.fault = e.fault /\ r.leaked = e.leaked
    /\ kind # "glib" => e.data = "NULL"
    /\ r.watched = e.watched \/ kind \in {"ivykis", "macosx"}
    /\ kind \in Noting => r.noted = {}
    /\ kind = "macosx" => r.watched = Dirs

Botched(kind, e, result) ==
    LET r == result[2] IN
    /\ result[1] = "failed" /\ r \in EventSides /\ e.data = "NULL"
    /\ r.watched = e.watched
    /\ \/ r.fault = "no record"
       \/ /\ kind \in {"macosx", "libuv"}
          /\ r.fault = e.fault /\ r.hooks
          /\ r.memory # "live" \/ r.memory = e.memory
          /\ ~Intact(r)

LEMMA InstalledIsIntact ==
    ASSUME NEW e \in EventSides
    PROVE  /\ Installed(e) \in EventSides /\ Intact(Installed(e))
           /\ Installed(e).fault = e.fault /\ Installed(e).leaked = e.leaked
           /\ Installed(e).watched = e.watched /\ Installed(e).noted = {}
<1>1. Installed(e) \in EventSides
  BY DEF Installed, EventSides
<1>2. /\ Installed(e).data = "record" /\ Installed(e).hooks
      /\ Installed(e).memory = "live" /\ Installed(e).noted = {}
      /\ Installed(e).fault = e.fault /\ Installed(e).leaked = e.leaked
      /\ Installed(e).watched = e.watched
  BY DEF Installed, EventSides
<1> QED BY <1>1, <1>2 DEF Intact

LEMMA AttachEnds ==
    ASSUME NEW kind \in Kinds, NEW e \in EventSides, NEW result,
           result \in AttachOf(kind, e), e.fault = "none"
    PROVE  \/ Refused(kind, e, result)
           \/ Made(kind, e, result)
           \/ Botched(kind, e, result)
<1> DEFINE new == Installed(e)
           whole == Poll(new, Dirs)
<1>a. /\ new \in EventSides /\ Intact(new) /\ new.fault = e.fault
      /\ new.leaked = e.leaked /\ new.watched = e.watched /\ new.noted = {}
  BY InstalledIsIntact
<1> HIDE DEF new
<1>b. Same(whole, new) /\ whole.watched = Dirs /\ whole.memory = new.memory
      /\ whole.noted = new.noted
  BY <1>a, WholePrimitives
<1>c. Same(Free(new), new) /\ Free(new).watched = new.watched
      /\ Free(new).memory = "freed"
  BY <1>a, WholePrimitives
<1>d. /\ Fail(e, "no record") \in EventSides /\ Fail(e, "no record").fault = "no record"
      /\ Fail(e, "no record").watched = e.watched
  BY DEF Fail, EventSides
<1>e. ASSUME NEW results, result \in UnlessAttached(e, results)
      PROVE  Refused(kind, e, result) \/ (e.data = "NULL" /\ result \in results)
  BY <1>e DEF UnlessAttached, Refused
<1>f. ASSUME NEW results, NEW one, result \in {one} \cup Failures(results)
      PROVE  result = one \/ result \in results
  BY <1>f DEF Failures
<1> HIDE DEF whole
<1>1. CASE kind \in {"ae", "libev", "libevent"}
  <2>1. result \in UnlessAttached(e, {<<"ok", new>>}
                        \cup Failures({<<"failed", Fail(e, "no record")>>}))
    BY <1>1 DEF AttachOf, AeAttach, LibevAttach, LibeventAttach, new
  <2>2. CASE Refused(kind, e, result)
    BY <2>2
  <2>3. CASE e.data = "NULL" /\ result = <<"ok", new>>
    BY <1>1, <1>a, <2>3 DEF Made
  <2>4. CASE e.data = "NULL" /\ result = <<"failed", Fail(e, "no record")>>
    BY <1>d, <2>4 DEF Botched
  <2> QED BY <1>e, <1>f, <2>1, <2>2, <2>3, <2>4
<1>2. CASE kind = "ivykis"
  <2>1. result \in UnlessAttached(e, {<<"ok", whole>>}
                        \cup Failures({<<"failed", Fail(e, "no record")>>}))
    BY <1>2 DEF AttachOf, IvykisAttach, new, whole
  <2>2. CASE Refused(kind, e, result)
    BY <2>2
  <2>3. CASE e.data = "NULL" /\ result = <<"ok", whole>>
    BY <1>2, <1>a, <1>b, <2>3 DEF Made, Same, Intact, Noting
  <2>4. CASE e.data = "NULL" /\ result = <<"failed", Fail(e, "no record")>>
    BY <1>d, <2>4 DEF Botched
  <2> QED BY <1>e, <1>f, <2>1, <2>2, <2>3, <2>4
<1>3. CASE kind = "macosx"
  <2>1. result \in UnlessAttached(e, {<<"ok", whole>>}
                        \cup Failures({<<"failed", e>>, <<"failed", Free(new)>>}))
    BY <1>3 DEF AttachOf, MacOSAttach, new, whole
  <2>2. CASE Refused(kind, e, result)
    BY <2>2
  <2>3. CASE e.data = "NULL" /\ result = <<"ok", whole>>
    BY <1>3, <1>a, <1>b, <2>3 DEF Made, Same, Intact, Noting
  <2>4. CASE e.data = "NULL" /\ result = <<"failed", e>>
    BY <1>3, <2>4 DEF Refused
  <2>5. CASE e.data = "NULL" /\ result = <<"failed", Free(new)>>
    BY <1>3, <1>a, <1>c, <2>5 DEF Botched, Same, Intact
  <2> QED BY <1>e, <1>f, <2>1, <2>2, <2>3, <2>4, <2>5
<1>4. CASE kind = "libuv"
  <2> DEFINE hooked == [e EXCEPT !.hooks = TRUE]
             refused == [hooked EXCEPT !.leaked = TRUE]
  <2>1. result \in UnlessAttached(e, {<<"ok", new>>}
                        \cup Failures({<<"failed", hooked>>, <<"failed", refused>>}))
    BY <1>4 DEF AttachOf, LibuvAttach, new
  <2>2. /\ hooked \in EventSides /\ hooked.hooks /\ hooked.data = e.data
        /\ hooked.fault = e.fault /\ hooked.watched = e.watched
        /\ hooked.memory = e.memory
    BY DEF EventSides
  <2> HIDE DEF hooked
  <2>3. /\ refused \in EventSides /\ refused.hooks /\ refused.data = hooked.data
        /\ refused.fault = hooked.fault /\ refused.watched = hooked.watched
        /\ refused.memory = hooked.memory
    BY <2>2 DEF EventSides
  <2> HIDE DEF refused
  <2>4. CASE Refused(kind, e, result)
    BY <2>4
  <2>5. CASE e.data = "NULL" /\ result = <<"ok", new>>
    BY <1>4, <1>a, <2>5 DEF Made
  <2>6. CASE e.data = "NULL" /\ result \in {<<"failed", hooked>>, <<"failed", refused>>}
    <3>1. result[1] = "failed" /\ result[2] \in {hooked, refused}
      BY <2>6
    <3> QED BY <1>4, <2>2, <2>3, <2>6, <3>1 DEF Botched, Intact
  <2> QED BY <1>e, <1>f, <2>1, <2>4, <2>5, <2>6
<1>5. CASE kind = "glib"
  <2>1. result = <<"ok", new>>
    BY <1>5 DEF AttachOf, GlibSourceNew, new
  <2> QED BY <1>5, <1>a, <2>1 DEF Made
<1>6. CASE kind = "qt"
  <2>1. result \in UnlessAttached(e, {<<"ok", new>>})
    BY <1>6 DEF AttachOf, QtSetContext, new
  <2>2. CASE e.data = "NULL" /\ result = <<"ok", new>>
    BY <1>6, <1>a, <2>2 DEF Made
  <2> QED BY <1>e, <2>1, <2>2
<1> QED BY <1>1, <1>2, <1>3, <1>4, <1>5, <1>6 DEF Kinds

-----------------------------------------------------------------------------
(* A hook called for a context without its record. *)
LEMMA Missing ==
    ASSUME AsyncInv, Alive, context = "live", ~Intact(el), attached # "never",
           NEW after, el' = Hook(el, after), context' \in {"live", "freed"},
           Counters', adapter' = adapter, attached' = attached,
           socket' = socket, rest' = rest,
           replies' = 0 \/ adapter = "macosx" \/ el.hooks
    PROVE  AsyncInv'
<1>a. el \in EventSides /\ el.fault = "none" /\ UnboundInv
  BY DEF AsyncInv, AsyncTypeOK, Alive, Standing
<1>b. /\ el' \in EventSides /\ el'.watched = el.watched
      /\ el'.memory = el.memory
      /\ ~el.hooks => el' = el
      /\ el.hooks => el'.fault \in {"no record", "freed record"}
  BY <1>a, HookMissing
<1>1. AsyncTypeOK'
  BY <1>b DEF AsyncInv, AsyncTypeOK, Counters
<1>2. CASE el.hooks
  <2>1. attached = "failed" \/ (adapter \in Owned /\ el.memory = "freed")
    BY <1>a DEF UnboundInv
  <2> QED BY <1>b, <1>1, <1>2, <2>1
          DEF AsyncInv, Alive, FreedContextIsLeftAlone, HooksFindTheirRecord
<1>3. CASE ~el.hooks
  <2>1. FreedContextIsLeftAlone' /\ HooksFindTheirRecord'
    BY <1>a, <1>b, <1>3 DEF FreedContextIsLeftAlone, HooksFindTheirRecord
  <2>2. RecordInv' /\ UnboundInv' /\ GoneInv' /\ ~Intact(el)'
    BY <1>a, <1>b, <1>3 DEF AsyncInv, Standing, RecordInv, UnboundInv, GoneInv,
       Orphaned, Intact
  <2> QED BY <1>1, <2>1, <2>2 DEF AsyncInv, Standing
<1> QED BY <1>2, <1>3 DEF EventSides

LEMMA AttachStep ==
    ASSUME AsyncInv, Alive, Attach, Counters'
    PROVE  AsyncInv'
<1>1. PICK result \in AttachOf(adapter, el) :
         attached' = result[1] /\ el' = result[2]
  BY DEF Attach
<1>2. /\ rest = {} /\ context = "live" /\ (adapter = "glib" => attached = "never")
      /\ adapter' = adapter /\ context' = context /\ socket' = socket
      /\ rest' = rest /\ obuf' = obuf /\ replies' = replies
  BY DEF Attach, contextVars
<1>3. adapter \in Kinds /\ el \in EventSides /\ el.fault = "none"
  BY AdaptersAssumption DEF AsyncInv, AsyncTypeOK, Alive
<1>4. \/ Refused(adapter, el, result)
      \/ Made(adapter, el, result)
      \/ Botched(adapter, el, result)
  BY <1>1, <1>3, AttachEnds
<1>5. CASE Refused(adapter, el, result)
  <2>1. attached' = "failed" /\ el' = el /\ (el.data # "NULL" \/ adapter = "macosx")
    BY <1>1, <1>5 DEF Refused
  <2>2. AsyncTypeOK'
    BY <1>2, <2>1 DEF AsyncInv, AsyncTypeOK, Counters
  <2>3. FreedContextIsLeftAlone' /\ HooksFindTheirRecord'
    BY <1>3, <2>1 DEF FreedContextIsLeftAlone, HooksFindTheirRecord
  <2>4. RecordInv'
    BY <1>2, <2>1 DEF AsyncInv, Standing, RecordInv
  <2>5. (Intact(el) => BoundInv') /\ (~Intact(el) => UnboundInv')
    BY <1>2, <2>1 DEF AsyncInv, Standing, BoundInv, UnboundInv, Dropped,
       Orphaned, Watching, Sent
  <2> QED BY <1>2, <2>1, <2>2, <2>3, <2>4, <2>5 DEF AsyncInv, Standing
<1>6. CASE Made(adapter, el, result)
  <2>1. /\ attached' = "ok" /\ el' \in EventSides /\ Intact(el')
        /\ el'.fault = "none" /\ el'.leaked = el.leaked
        /\ adapter # "glib" => el.data = "NULL"
        /\ el'.watched = el.watched \/ adapter \in {"ivykis", "macosx"}
        /\ adapter \in Noting => el'.noted = {}
        /\ adapter = "macosx" => el'.watched = Dirs
    BY <1>1, <1>3, <1>6 DEF Made
  <2>2. ~Intact(el)
    BY <1>2, <2>1 DEF AsyncInv, Standing, RecordInv, Intact
  <2>3. UnboundInv
    BY <1>2, <2>2 DEF AsyncInv, Standing
  <2>4. AsyncTypeOK'
    BY <1>2, <2>1 DEF AsyncInv, AsyncTypeOK, Counters, Intact
  <2>5. FreedContextIsLeftAlone' /\ HooksFindTheirRecord'
    BY <2>1 DEF FreedContextIsLeftAlone, HooksFindTheirRecord
  <2>6. RecordInv'
    BY <1>2, <2>1 DEF RecordInv, Intact
  <2>7. Agree(adapter, el')
    BY <2>1, <2>3 DEF Agree, Noting, UnboundInv
  <2>8. ~Orphaned' => Watching'
    <3>1. CASE adapter = "macosx"
      BY <2>1, <3>1 DEF Watching, Dirs
    <3>2. CASE adapter # "macosx"
      <4>1. ~Orphaned' => replies = 0
        BY <1>2, <2>1, <2>3, <3>2 DEF UnboundInv, Orphaned, AsyncInv, Standing,
           RecordInv
      <4>2. replies = 0 => obuf = 0 /\ Sent = 0
        BY DEF AsyncInv, Counters, Sent
      <4>3. Sent' = Sent
        BY <1>2 DEF Sent
      <4> QED BY <1>2, <4>1, <4>2, <4>3 DEF Watching
    <3> QED BY <3>1, <3>2
  <2> QED BY <1>2, <2>1, <2>4, <2>5, <2>6, <2>7, <2>8
          DEF AsyncInv, Standing, BoundInv
<1>7. CASE Botched(adapter, el, result)
  <2>1. /\ attached' = "failed" /\ el' \in EventSides /\ el.data = "NULL"
        /\ el'.watched = el.watched
        /\ \/ el'.fault = "no record"
           \/ /\ adapter \in {"macosx", "libuv"}
              /\ el'.fault = "none" /\ el'.hooks
              /\ el'.memory # "live" \/ el'.memory = el.memory
              /\ ~Intact(el')
    BY <1>1, <1>3, <1>7 DEF Botched
  <2>2. AsyncTypeOK'
    <3>1. ~Intact(el)
      BY <2>1 DEF Intact
    <3>2. el.watched = {}
      BY <1>2, <3>1 DEF AsyncInv, Standing, UnboundInv
    <3> QED BY <1>2, <2>1, <3>2 DEF AsyncInv, AsyncTypeOK, Counters
  <2>3. FreedContextIsLeftAlone' /\ HooksFindTheirRecord'
    BY <2>1 DEF FreedContextIsLeftAlone, HooksFindTheirRecord
  <2>4. CASE el'.fault = "no record"
    BY <2>2, <2>3, <2>4 DEF AsyncInv, Alive
  <2>5. CASE el'.fault # "no record"
    <3>1. ~Intact(el) /\ UnboundInv
      BY <1>2, <2>1 DEF AsyncInv, Standing, Intact
    <3>2. RecordInv'
      BY <1>2, <2>1, <2>5, <3>1 DEF AsyncInv, Standing, RecordInv
    <3>3. UnboundInv'
      BY <1>2, <2>1, <2>5, <3>1 DEF UnboundInv, Orphaned
    <3> QED BY <1>2, <2>1, <2>2, <2>3, <2>5, <3>2, <3>3 DEF AsyncInv, Standing
  <2> QED BY <2>4, <2>5
<1> QED BY <1>4, <1>5, <1>6, <1>7

LEMMA UseStep ==
    ASSUME AsyncInv, Alive, Command \/ Disconnect \/ AsyncFree, Counters'
    PROVE  AsyncInv'
<1>1. /\ context = "live" /\ attached # "never" /\ rest = {}
      /\ adapter' = adapter /\ attached' = attached /\ socket' = socket
      /\ rest' = rest
  BY DEF Command, Disconnect, AsyncFree
<1>2. CASE Command
  <2>1. /\ el' = Add(adapter, el, "write") /\ context' = "live"
        /\ obuf' = obuf + 1 /\ replies' = replies + 1
    BY <1>1, <1>2 DEF Command
  <2>2. CASE Intact(el)
    <3>a. /\ adapter \in Kinds /\ el \in EventSides /\ el.fault = "none"
          /\ "write" \in Dirs
      BY <1>1, <2>2, Ready
    <3> DEFINE r == Add(adapter, el, "write")
    <3>1. /\ r \in EventSides /\ Intact(r) /\ r.fault = "none"
          /\ r.leaked = el.leaked
          /\ Agree(adapter, el) => /\ Agree(adapter, r)
                                   /\ r.watched = el.watched \cup {"write"}
      BY <3>a, <2>2, AddIntact
    <3>2. el' = r
      BY <2>1
    <3> HIDE DEF r
    <3>3. Sent' = Sent
      BY <2>1 DEF Sent, AsyncInv, Counters
    <3>4. Agree(adapter, el) /\ Watching /\ ~Dropped => Watching'
      BY <3>1, <3>2, <3>3 DEF Watching
    <3>5. Setting'
      BY <1>1, <2>1 DEF Setting, AsyncInv, AsyncTypeOK
    <3> QED BY <1>1, <2>1, <2>2, <3>1, <3>2, <3>4, <3>5, GoesOn
  <2>3. CASE ~Intact(el)
    <3>1. el.hooks \/ adapter = "macosx"
      BY <1>1 DEF AsyncInv, Standing, RecordInv
    <3>2. el' = Hook(el, AddOf(adapter, el, "write"))
      BY <2>1 DEF Add
    <3> QED BY <1>1, <2>1, <2>3, <3>1, <3>2, Missing
  <2> QED BY <2>2, <2>3
<1>3. CASE Disconnect /\ replies # 0
  <2>1. /\ el' = el /\ context' = context /\ obuf' = obuf /\ replies' = replies
    BY <1>3 DEF Disconnect
  <2>2. AsyncTypeOK'
    BY <1>1, <2>1 DEF AsyncInv, AsyncTypeOK, Counters
  <2>3. FreedContextIsLeftAlone' /\ HooksFindTheirRecord' /\ Standing'
    BY <1>1, <2>1 DEF AsyncInv, Alive, FreedContextIsLeftAlone,
       HooksFindTheirRecord, Standing, RecordInv, GoneInv, UnboundInv, BoundInv,
       Dropped, Orphaned, Watching, Sent
  <2> QED BY <2>2, <2>3 DEF AsyncInv
<1>4. CASE AsyncFree \/ (Disconnect /\ replies = 0)
  <2>1. /\ el' = Cleanup(adapter, el) /\ context' = "freed" /\ replies' = 0
    BY <1>4 DEF AsyncFree, Teardown, Disconnect
  <2>2. CASE Intact(el)
    <3>1. Setting'
      BY <1>1, <2>1 DEF Setting, AsyncInv, AsyncTypeOK
    <3> QED BY <1>1, <2>1, <2>2, <3>1, Ready, Ends
  <2>3. CASE ~Intact(el)
    <3>1. el' = Hook(el, CleanupOf(adapter, el))
      BY <2>1 DEF Cleanup
    <3> QED BY <1>1, <2>1, <2>3, <3>1, Missing
  <2> QED BY <2>2, <2>3
<1> QED BY <1>2, <1>3, <1>4

LEMMA OwnerStep ==
    ASSUME AsyncInv, Alive, OwnerLeaves, Counters'
    PROVE  AsyncInv'
<1>1. /\ OwnerMayLeave /\ rest = {} /\ adapter \in Owned /\ el.memory = "live"
      /\ adapter' = adapter /\ attached' = attached /\ context' = context
      /\ socket' = socket /\ rest' = rest /\ obuf' = obuf /\ replies' = replies
  BY DEF OwnerLeaves, contextVars
<1>2. el \in EventSides /\ el.fault = "none" /\ Intact(el)
  BY <1>1 DEF AsyncInv, AsyncTypeOK, Alive, Standing, RecordInv
<1> DEFINE gone == Free(Forget(el))
           last == [gone EXCEPT !.data = "NULL", !.leaked = @ \/ el.noted # {}]
           late == Fail(gone, "freed context")
<1>3. /\ gone \in EventSides /\ gone.hooks /\ gone.watched = {}
      /\ gone.data = "record" /\ gone.memory = "freed" /\ gone.fault = "none"
      /\ gone.leaked = el.leaked
  <2>1. Same(Forget(el), el) /\ Forget(el).watched = {}
    BY <1>2, WholePrimitives
  <2>2. /\ Same(gone, Forget(el)) /\ gone.memory = "freed"
        /\ gone.watched = Forget(el).watched
    BY <2>1, WholePrimitives DEF Same
  <2> QED BY <1>2, <2>1, <2>2 DEF Same, Intact
<1>4. \/ adapter = "glib" /\ el' = gone
      \/ adapter = "qt" /\ context = "live" /\ el' = last
      \/ adapter = "qt" /\ context = "freed" /\ el' = late
  BY <1>1 DEF OwnerLeaves, Owned, GlibFinalize, QtDestructor, AsyncInv,
     AsyncTypeOK
<1> HIDE DEF gone
<1>5. /\ last \in EventSides /\ last.hooks /\ last.watched = {}
      /\ last.data = "NULL" /\ last.memory = "freed" /\ last.fault = "none"
      /\ last.leaked = (el.leaked \/ el.noted # {})
  <2>1. (gone.leaked \/ el.noted # {}) \in BOOLEAN
    OBVIOUS
  <2> QED BY <1>3, <2>1 DEF EventSides
<1>6. /\ late \in EventSides /\ late.fault = "freed context"
      /\ late.memory = "freed" /\ late.watched = {}
  BY <1>3 DEF Fail, EventSides
<1> HIDE DEF last, late
<1>7. AsyncTypeOK'
  BY <1>1, <1>3, <1>4, <1>5, <1>6 DEF AsyncInv, AsyncTypeOK, Counters
<1>8. FreedContextIsLeftAlone' /\ HooksFindTheirRecord'
  BY <1>1, <1>3, <1>4, <1>5, <1>6
     DEF FreedContextIsLeftAlone, HooksFindTheirRecord
<1>9. CASE el' = late
  BY <1>6, <1>7, <1>8, <1>9 DEF AsyncInv, Alive
<1>10. CASE el' # late
  <2>1. /\ el'.hooks /\ el'.watched = {} /\ el'.memory = "freed"
        /\ adapter = "glib" \/ (adapter = "qt" /\ context = "live" /\ el' = last)
    BY <1>3, <1>4, <1>5, <1>10
  <2>2. RecordInv'
    BY <1>1, <1>2, <2>1 DEF RecordInv, AsyncInv, Standing, Intact
  <2>3. GoneInv'
    BY <2>1 DEF GoneInv
  <2>4. adapter = "qt" /\ ~Orphaned' => replies' = 0
    <3>1. SUFFICES ASSUME adapter = "qt", ~el'.leaked
                   PROVE  replies' = 0
      BY <1>1 DEF Orphaned
    <3>2. context = "live" /\ ~el.leaked /\ el.noted = {}
      BY <1>5, <2>1, <3>1
    <3>3. Agree(adapter, el) /\ Watching
      BY <1>2, <3>1, <3>2 DEF AsyncInv, Standing, BoundInv, Dropped, Orphaned
    <3>4. el.watched = {}
      BY <3>1, <3>2, <3>3 DEF Agree, Noting
    <3> QED BY <1>1, <3>3, <3>4 DEF Watching, Sent, AsyncInv, Counters
  <2>5. UnboundInv'
    BY <1>1, <2>1, <2>4 DEF UnboundInv
  <2>6. ~Intact(el')
    BY <2>1 DEF Intact
  <2> QED BY <1>7, <1>8, <2>2, <2>3, <2>5, <2>6 DEF AsyncInv, Standing
<1> QED BY <1>9, <1>10

LEMMA NetworkStep ==
    ASSUME AsyncInv, Alive, Network, Counters'
    PROVE  AsyncInv'
<1>1. /\ adapter' = adapter /\ el' = el /\ attached' = attached
      /\ context' = context /\ rest' = rest /\ obuf' = obuf /\ replies' = replies
      /\ socket' \in {"connecting", "open", "broken"}
      /\ socket = "broken" => socket' = "broken"
  BY DEF Network, ConnectEnds, LinkBreaks, ServerAnswers, contextVars, AsyncInv,
     AsyncTypeOK
<1>2. AsyncTypeOK'
  BY <1>1 DEF AsyncInv, AsyncTypeOK, Counters
<1>3. FreedContextIsLeftAlone' /\ HooksFindTheirRecord' /\ Standing'
  BY <1>1 DEF AsyncInv, Alive, FreedContextIsLeftAlone,
     HooksFindTheirRecord, Standing, RecordInv, GoneInv, UnboundInv, BoundInv,
     Dropped, Orphaned, Watching, Sent
<1> QED BY <1>2, <1>3 DEF AsyncInv

-----------------------------------------------------------------------------
LEMMA AsyncInit == Init => AsyncInv
<1> SUFFICES ASSUME Init PROVE AsyncInv
  OBVIOUS
<1> USE CommandsAssumption DEF Init
<1>1. /\ el \in EventSides /\ ~el.hooks /\ el.data = "NULL"
      /\ el.memory = "none" /\ el.watched = {} /\ el.fault = "none"
  BY DEF Detached, EventSides
<1>2. AsyncTypeOK /\ Counters
  BY <1>1 DEF AsyncTypeOK, Counters
<1>3. FreedContextIsLeftAlone /\ HooksFindTheirRecord
  BY <1>1 DEF FreedContextIsLeftAlone, HooksFindTheirRecord
<1>4. RecordInv /\ UnboundInv /\ ~Intact(el)
  BY <1>1 DEF RecordInv, UnboundInv, Intact
<1> QED BY <1>2, <1>3, <1>4 DEF AsyncInv, Standing

LEMMA AsyncStep == AsyncInv /\ [Next]_vars => AsyncInv'
<1>1. ASSUME AsyncInv, Next PROVE AsyncInv'
  <2>1. Counters'
    BY <1>1, CountersStep DEF AsyncInv
  <2>2. Alive /\ (Loop \/ Program \/ Network)
    BY <1>1 DEF Next
  <2>3. CASE Program
    BY <1>1, <2>1, <2>2, <2>3, AttachStep, UseStep, OwnerStep DEF Program
  <2> QED BY <1>1, <2>1, <2>2, <2>3, LoopStep, NetworkStep
<1>2. ASSUME AsyncInv, UNCHANGED vars PROVE AsyncInv'
  BY <1>2 DEF vars, contextVars, AsyncInv, AsyncTypeOK, Counters, Alive,
     FreedContextIsLeftAlone, HooksFindTheirRecord, Standing, RecordInv,
     GoneInv, UnboundInv, BoundInv, Dropped, Orphaned, Watching, Sent
<1> QED BY <1>1, <1>2

LEMMA AsyncInvariant == Spec => []AsyncInv
BY AsyncInit, AsyncStep, PTL DEF Spec

(* The event side, the context and what it counts keep their types, and no loop
   watches for a record that is missing, closing or freed. *)
THEOREM AsyncTypes == Spec => []AsyncTypeOK
<1>1. AsyncInv => AsyncTypeOK
  BY DEF AsyncInv
<1> QED BY <1>1, AsyncInvariant, PTL

(* ae.h, libev.h, libevent.h, ivykis.h and macosx.h never use a context that
   was freed; libuv.h and glib.h may only in the second half of a call-back,
   with nothing watched any more; qt.h only in the destructor of its adapter. *)
THEOREM AdaptersLeaveFreedContextsAlone == Spec => []FreedContextIsLeftAlone
<1>1. AsyncInv => FreedContextIsLeftAlone
  BY DEF AsyncInv
<1> QED BY <1>1, AsyncInvariant, PTL

(* The hooks of a context that was attached, and whose adapter was kept, meet
   its record, and cleanup frees it once. *)
THEOREM AttachedHooksFindTheirRecord == Spec => []HooksFindTheirRecord
<1>1. AsyncInv => HooksFindTheirRecord
  BY DEF AsyncInv
<1> QED BY <1>1, AsyncInvariant, PTL

(* A freed context leaves no watch behind, and no record but a program's. *)
THEOREM NothingIsLeftBehind == Spec => []NothingOutlivesTheContext
<1>1. AsyncInv => NothingOutlivesTheContext
  BY DEF AsyncInv, NothingOutlivesTheContext, Standing, GoneInv
<1> QED BY <1>1, AsyncInvariant, PTL

(* What each adapter has noted and what its loop watches never part in a way
   that leaves output or answers unwatched; the case libuv.h:20 is excepted. *)
THEOREM WorkStaysWatched == Spec => []WorkIsWatched
<1>1. AsyncInv => WorkIsWatched
  <2>1. SUFFICES ASSUME AsyncInv, Bound, ~Dropped PROVE Watching
    BY DEF WorkIsWatched, Dropped, Watching
  <2>2. context = "live" /\ Standing /\ ~Orphaned
    BY <2>1 DEF Bound, AsyncInv, Orphaned
  <2>3. Intact(el)
    BY <2>1, <2>2 DEF Standing, UnboundInv, Bound, OwnerGone
  <2> QED BY <2>1, <2>2, <2>3 DEF Standing, BoundInv
<1> QED BY <1>1, AsyncInvariant, PTL

-----------------------------------------------------------------------------
(* What was written, and so what is answered, was written by a context that is
   connected; an adapter of Eager without its record has not been used yet. *)
Unheard == "REDIS_CONNECTED" \notin flags

Strangers == adapter \in Eager /\ ~Intact(el) => Unheard

Waking ==
    /\ Intact(el) /\ ~Dropped /\ ~Orphaned
    /\ "write" \in el.watched /\ obuf = 0

Excused == adapter \in Eager /\ Unheard

IdleInv ==
    /\ Sent > 0 => ~Unheard
    /\ Alive /\ context = "live" => Strangers /\ (Waking => Excused)

LEMMA IdleRead ==
    ASSUME AsyncInv, IdleInv, Alive, context = "live", Intact(el),
           NEW e, Handed(e, "read"), HandleRead(e),
           adapter \in Eager => answers > 0 \/ socket = "broken",
           adapter' = adapter, socket' = socket
    PROVE  IdleInv'
<1>a. /\ adapter \in Kinds /\ e \in EventSides /\ e.fault = "none" /\ Intact(e)
      /\ e.leaked = el.leaked /\ e.watched \subseteq el.watched
      /\ ~Dropped => Agree(adapter, e)
      /\ "read" \in Dirs /\ "write" \in Dirs
  BY Ready DEF AsyncInv, Standing, BoundInv, Handed
<1> DEFINE read == Add(adapter, e, "read")
<1>b. /\ read \in EventSides /\ Intact(read) /\ read.fault = "none"
      /\ read.leaked = el.leaked
      /\ Agree(adapter, e) => /\ Agree(adapter, read)
                              /\ read.watched = e.watched \cup {"read"}
  BY <1>a, AddIntact
<1>1. CASE ReadFails(e) \/ ReadAndFree(e)
  BY <1>1 DEF ReadFails, ReadAndFree, Teardown, IdleInv, Sent
<1>2. CASE ReadReplies(e)
  <2>1. ~Unheard'
    BY <1>2 DEF ReadReplies, Unheard, Flags
  <2>2. SUFFICES ASSUME context' = "live" PROVE Strangers' /\ ~Waking'
    BY <2>1 DEF IdleInv
  <2>3. /\ el' = read /\ obuf' = obuf
        /\ socket = "open" \/ ("REDIS_CONNECTED" \in flags /\ answers > 0)
    BY <1>2, <2>2 DEF ReadReplies
  <2> HIDE DEF read
  <2>4. Strangers'
    BY <1>b, <2>3 DEF Strangers
  <2>5. Waking' => Waking
    BY <1>a, <1>b, <2>3 DEF Waking, Dropped, Orphaned
  <2>6. ~Waking
    <3>1. SUFFICES ASSUME Excused PROVE FALSE
      BY DEF IdleInv
    <3>2. answers > 0
      BY <2>3, <3>1 DEF Excused
    <3>3. Sent > 0
      BY <3>2 DEF Sent, AsyncInv, Counters
    <3> QED BY <3>1, <3>3 DEF IdleInv, Excused
  <2> QED BY <2>4, <2>5, <2>6
<1>3. CASE ReadAndCommand(e)
  <2> DEFINE both == Add(adapter, read, "write")
  <2>1. /\ el' = both /\ obuf' = obuf + 1
        /\ flags' = flags \cup {"REDIS_CONNECTED"}
    BY <1>3 DEF ReadAndCommand
  <2> HIDE DEF read
  <2>2. Intact(both)
    BY <1>a, <1>b, AddIntact
  <2> HIDE DEF both
  <2>3. ~Unheard'
    BY <2>1 DEF Unheard
  <2>4. obuf' # 0
    BY <2>1 DEF AsyncInv, Counters
  <2> QED BY <2>1, <2>2, <2>3, <2>4 DEF IdleInv, Strangers, Waking
<1> QED BY <1>1, <1>2, <1>3 DEF HandleRead

LEMMA IdleWrite ==
    ASSUME AsyncInv, IdleInv, Alive, context = "live", Intact(el),
           NEW e, Handed(e, "write"), HandleWrite(e),
           adapter' = adapter, socket' = socket
    PROVE  IdleInv'
<1>a. /\ adapter \in Kinds /\ e \in EventSides /\ e.fault = "none" /\ Intact(e)
      /\ e.leaked = el.leaked /\ e.watched \subseteq el.watched
      /\ ~Dropped => Agree(adapter, e)
      /\ "read" \in Dirs /\ "write" \in Dirs
  BY Ready DEF AsyncInv, Standing, BoundInv, Handed
<1>1. CASE WriteFails(e)
  BY <1>1 DEF WriteFails, Teardown, IdleInv, Sent
<1>2. CASE WriteCommands(e)
  <2> DEFINE write == IF obuf' = 0 THEN Del(adapter, e, "write")
                                   ELSE Add(adapter, e, "write")
             both == Add(adapter, write, "read")
  <2>1. el' = both /\ flags' = flags \cup {"REDIS_CONNECTED"}
    BY <1>2 DEF WriteCommands
  <2>2. /\ write \in EventSides /\ Intact(write) /\ write.fault = "none"
        /\ Agree(adapter, e) => Agree(adapter, write)
        /\ Agree(adapter, e) /\ obuf' = 0 => "write" \notin write.watched
    <3>1. CASE obuf' = 0
      <4>1. write = Del(adapter, e, "write")
        BY <3>1
      <4> HIDE DEF write
      <4> QED BY <1>a, <4>1, DelIntact
    <3>2. CASE obuf' # 0
      <4>1. write = Add(adapter, e, "write")
        BY <3>2
      <4> HIDE DEF write
      <4> QED BY <1>a, <3>2, <4>1, AddIntact
    <3> QED BY <3>1, <3>2
  <2> HIDE DEF write
  <2>3. /\ Intact(both)
        /\ Agree(adapter, write) => both.watched = write.watched \cup {"read"}
    BY <1>a, <2>2, AddIntact
  <2> HIDE DEF both
  <2>4. ~Waking'
    BY <1>a, <2>1, <2>2, <2>3 DEF Waking, Dropped
  <2>5. ~Unheard'
    BY <2>1 DEF Unheard
  <2> QED BY <2>1, <2>3, <2>4, <2>5 DEF IdleInv, Strangers
<1> QED BY <1>1, <1>2 DEF HandleWrite

LEMMA IdleServe ==
    ASSUME AsyncInv, IdleInv, Alive, NEW d \in Dirs,
           NEW e \in {el, Delivered(adapter, el, d)}, Serve(d, e),
           d \in el.watched \/ rest # {},
           adapter \in Eager => d \in ReadyDirs,
           adapter' = adapter, socket' = socket
    PROVE  IdleInv'
<1>1. CASE context = "freed"
  <2>1. context' = "freed" /\ Sent' = Sent /\ flags' = flags
    BY <1>1 DEF Serve, contextVars, Sent
  <2> QED BY <2>1 DEF IdleInv, Unheard
<1>2. CASE context = "live"
  <2>1. Intact(el)
    BY <1>2 DEF AsyncInv, Standing, UnboundInv
  <2>a. Handed(e, d)
    BY <2>1, DeliveryHands DEF AsyncInv, AsyncTypeOK, Alive
  <2>2. CASE d = "read" /\ HandleRead(e)
    <3>1. adapter \in Eager => answers > 0 \/ socket = "broken"
      BY <2>2 DEF ReadyDirs
    <3> QED BY <1>2, <2>1, <2>a, <2>2, <3>1, IdleRead
  <2>3. CASE d = "write" /\ HandleWrite(e)
    BY <1>2, <2>1, <2>a, <2>3, IdleWrite
  <2> QED BY <1>2, <2>2, <2>3 DEF Serve
<1> QED BY <1>1, <1>2 DEF AsyncInv, AsyncTypeOK

LEMMA IdleLoop ==
    ASSUME AsyncInv, IdleInv, Alive, Loop
    PROVE  IdleInv'
<1>a. el \in EventSides /\ el.watched \subseteq Dirs /\ rest \subseteq Dirs
  BY DEF AsyncInv, AsyncTypeOK, EventSides
<1>b. rest # {} => adapter \notin Eager
  BY DEF AsyncInv, Standing, RecordInv, TwoInOne, Eager
<1>1. ASSUME NEW d \in Dirs, Deliver(d) PROVE IdleInv'
  BY <1>1, IdleServe DEF Deliver
<1>2. CASE LibuvPoll \/ GlibDispatch
  <2>1. PICK d \in el.watched \cap ReadyDirs : Serve(d, el)
    BY <1>2 DEF LibuvPoll, GlibDispatch
  <2>2. adapter' = adapter /\ socket' = socket
    BY <1>2 DEF LibuvPoll, GlibDispatch
  <2> QED BY <1>a, <2>1, <2>2, IdleServe
<1>3. CASE LibuvPollError
  <2>1. /\ adapter' = "libuv" /\ socket' = "broken" /\ Sent' = Sent
        /\ flags' = flags
    BY <1>3 DEF LibuvPollError, contextVars, Sent
  <2> QED BY <2>1 DEF IdleInv, Strangers, Waking, Dropped, Unheard, Eager
<1>4. CASE ServeRest
  <2>1. PICK d \in rest : Serve(d, el)
    BY <1>4 DEF ServeRest
  <2>2. adapter' = adapter /\ socket' = socket
    BY <1>4 DEF ServeRest
  <2> QED BY <1>a, <1>b, <2>1, <2>2, IdleServe
<1>5. CASE LibuvOnClose
  <2>1. /\ el' = Free(el) /\ el.memory = "closing" /\ adapter' = adapter
        /\ context' = context /\ Sent' = Sent /\ flags' = flags
    BY <1>5 DEF LibuvOnClose, OnClose, contextVars, Sent
  <2>2. Free(el).memory = "freed"
    BY <1>a, WholePrimitives
  <2>3. ~Intact(el) /\ ~Intact(el')
    BY <2>1, <2>2 DEF Intact
  <2> QED BY <2>1, <2>3 DEF IdleInv, Strangers, Waking, Unheard
<1> QED BY <1>1, <1>2, <1>3, <1>4, <1>5 DEF Loop

LEMMA IdleAttach ==
    ASSUME AsyncInv, IdleInv, Alive, Attach
    PROVE  IdleInv'
<1>1. PICK result \in AttachOf(adapter, el) : el' = result[2]
  BY DEF Attach
<1>2. /\ context = "live" /\ (adapter = "glib" => attached = "never")
      /\ adapter' = adapter /\ socket' = socket /\ flags' = flags
      /\ obuf' = obuf /\ Sent' = Sent
  BY DEF Attach, contextVars, Sent
<1>3. adapter \in Kinds /\ el \in EventSides /\ el.fault = "none"
  BY AdaptersAssumption DEF AsyncInv, AsyncTypeOK, Alive
<1>4. \/ Refused(adapter, el, result)
      \/ Made(adapter, el, result)
      \/ Botched(adapter, el, result)
  BY <1>1, <1>3, AttachEnds
<1>5. CASE Refused(adapter, el, result)
  <2>1. el' = el
    BY <1>1, <1>5 DEF Refused
  <2> QED BY <1>2, <2>1 DEF IdleInv, Strangers, Waking, Excused, Dropped,
       Orphaned, Unheard
<1>6. CASE Made(adapter, el, result)
  <2>1. /\ Intact(el')
        /\ el'.watched = el.watched \/ adapter \in Eager
        /\ adapter # "glib" => el.data = "NULL"
    BY <1>1, <1>6 DEF Made, Eager
  <2>2. ~Intact(el)
    BY <1>2, <2>1 DEF AsyncInv, Standing, RecordInv, Intact
  <2>3. el.watched = {}
    BY <1>2, <2>2 DEF AsyncInv, Standing, UnboundInv
  <2>4. adapter \in Eager => Unheard'
    BY <1>2, <2>2 DEF IdleInv, Strangers, Unheard
  <2> QED BY <1>2, <2>1, <2>3, <2>4 DEF IdleInv, Strangers, Waking, Excused,
       Unheard
<1>7. CASE Botched(adapter, el, result)
  <2>1. el.data = "NULL" /\ (el'.fault = "no record" \/ ~Intact(el'))
    BY <1>1, <1>7 DEF Botched
  <2> QED BY <1>2, <2>1 DEF IdleInv, Alive, Strangers, Waking, Unheard, Intact
<1> QED BY <1>4, <1>5, <1>6, <1>7

LEMMA IdleUse ==
    ASSUME AsyncInv, IdleInv, Alive, Command \/ Disconnect \/ AsyncFree
    PROVE  IdleInv'
<1>1. CASE Command
  <2>1. /\ el' = Add(adapter, el, "write") /\ context = "live"
        /\ adapter' = adapter /\ flags' = flags
        /\ obuf' = obuf + 1 /\ replies' = replies + 1
    BY <1>1 DEF Command
  <2>2. obuf' # 0 /\ Sent' = Sent
    BY <2>1 DEF AsyncInv, Counters, Sent
  <2>3. CASE Intact(el)
    <3>1. Intact(Add(adapter, el, "write"))
      BY <2>1, <2>3, Ready, AddIntact
    <3> QED BY <2>1, <2>2, <3>1 DEF IdleInv, Strangers, Waking, Unheard
  <2>4. CASE ~Intact(el)
    <3>1. el' = el \/ el'.fault \in {"no record", "freed record"}
      BY <2>1, <2>4, HookMissing DEF Add, AsyncInv, AsyncTypeOK, Alive
    <3> QED BY <2>1, <2>2, <2>4, <3>1
            DEF IdleInv, Alive, Strangers, Waking, Unheard
  <2> QED BY <2>3, <2>4
<1>2. CASE Disconnect
  <2>1. /\ flags' = flags \cup {"REDIS_DISCONNECTING"}
        /\ context' = "freed" \/ (el' = el /\ context' = context)
        /\ adapter' = adapter /\ socket' = socket
        /\ obuf' = obuf /\ replies' = replies
    BY <1>2 DEF Disconnect
  <2>2. Unheard' = Unheard /\ Sent' = Sent
    BY <2>1 DEF Unheard, Sent
  <2> QED BY <2>1, <2>2 DEF IdleInv, Alive, Strangers, Waking, Excused, Dropped,
       Orphaned
<1>3. CASE AsyncFree
  BY <1>3 DEF AsyncFree, Teardown, IdleInv, Sent
<1> QED BY <1>1, <1>2, <1>3

LEMMA IdleOwner ==
    ASSUME AsyncInv, IdleInv, Alive, OwnerLeaves
    PROVE  IdleInv'
<1>1. /\ adapter \in Owned /\ adapter' = adapter /\ context' = context
      /\ flags' = flags /\ Sent' = Sent /\ el \in EventSides
  BY DEF OwnerLeaves, contextVars, Sent, AsyncInv, AsyncTypeOK
<1> DEFINE gone == Free(Forget(el))
<1>2. gone.memory = "freed" /\ gone \in EventSides
  BY <1>1, WholePrimitives DEF Same
<1>3. \/ el' = gone
      \/ el' = [gone EXCEPT !.data = "NULL", !.leaked = @ \/ el.noted # {}]
      \/ el' = Fail(gone, "freed context")
  BY DEF OwnerLeaves, GlibFinalize, QtDestructor
<1> HIDE DEF gone
<1>4. el'.memory = "freed" \/ el'.fault = "freed context"
  BY <1>1, <1>2, <1>3 DEF Fail, EventSides
<1> QED BY <1>1, <1>4 DEF IdleInv, Alive, Strangers, Waking, Unheard, Intact,
     Owned, Eager

LEMMA IdleNetwork ==
    ASSUME AsyncInv, IdleInv, Network
    PROVE  IdleInv'
<1>1. /\ adapter' = adapter /\ el' = el /\ context' = context
      /\ flags' = flags /\ obuf' = obuf /\ Sent' = Sent
      /\ socket = "broken" => socket' = "broken"
  BY DEF Network, ConnectEnds, LinkBreaks, ServerAnswers, contextVars, Sent
<1> QED BY <1>1 DEF IdleInv, Alive, Strangers, Waking, Excused, Dropped,
     Orphaned, Unheard

LEMMA IdleInit == Init => IdleInv
<1> SUFFICES ASSUME Init PROVE IdleInv
  OBVIOUS
<1>1. Sent = 0 /\ Unheard /\ ~Intact(el)
  BY DEF Init, Sent, Unheard, Intact, Detached
<1> QED BY <1>1 DEF IdleInv, Strangers, Waking

LEMMA IdleStep == AsyncInv /\ IdleInv /\ [Next]_vars => IdleInv'
<1>1. ASSUME AsyncInv, IdleInv, Next PROVE IdleInv'
  <2>1. Alive /\ (Loop \/ Program \/ Network)
    BY <1>1 DEF Next
  <2>2. CASE Program
    BY <1>1, <2>1, <2>2, IdleAttach, IdleUse, IdleOwner DEF Program
  <2> QED BY <1>1, <2>1, <2>2, IdleLoop, IdleNetwork
<1>2. ASSUME IdleInv, UNCHANGED vars PROVE IdleInv'
  BY <1>2 DEF vars, contextVars, IdleInv, Alive, Strangers, Waking, Excused,
     Dropped, Orphaned, Unheard, Sent
<1> QED BY <1>1, <1>2

(* With the output written the write interest is taken back, whichever adapter
   passes the request on, and nothing but output brings it up again: a loop is
   not kept busy by a socket that could be written. *)
THEOREM OnlyOutputKeepsTheLoopAwake == Spec => []OnlyOutputIsWatchedFor
<1>1. AsyncInv /\ IdleInv => OnlyOutputIsWatchedFor
  <2>1. SUFFICES ASSUME AsyncInv, IdleInv, Bound, ~Dropped,
                        "write" \in el.watched, obuf = 0
                 PROVE  Excused
    BY DEF OnlyOutputIsWatchedFor, Dropped, Excused, Unheard
  <2>2. context = "live" /\ Alive /\ Standing /\ ~Orphaned
    BY <2>1 DEF Bound, AsyncInv, Orphaned
  <2>3. Intact(el)
    BY <2>1, <2>2 DEF Standing, UnboundInv, Bound, OwnerGone
  <2> QED BY <2>1, <2>2, <2>3 DEF IdleInv, Waking
<1>2. Spec => []IdleInv
  BY IdleInit, IdleStep, AsyncInvariant, PTL DEF Spec
<1> QED BY <1>1, <1>2, AsyncInvariant, PTL
=============================================================================
