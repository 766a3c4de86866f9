---------------------------- MODULE LoopAdapters ----------------------------
(***************************************************************************)
(* The eight adapters between an asynchronous hiredis context and an event *)
(* library (adapters/*.h), as operators on the event side of a context.    *)
(*                                                                         *)
(* The side is a record e: ac->ev (data, and whether the hooks are set),   *)
(* the adapter's own record (its memory, the directions it has noted) and  *)
(* what the loop watches on behalf of it.  An operator returns what a hook *)
(* leaves behind; an attach function returns its status with it, one pair  *)
(* for each way it may end.                                                *)
(*                                                                         *)
(* The loops themselves are external: to watch, not to watch, to forget a  *)
(* descriptor, to call back.  What stops being watched is not delivered    *)
(* any more, not even an event that was already due.  That a loop may      *)
(* refuse to watch is left out: no adapter looks at the answer.            *)
(***************************************************************************)
EXTENDS FiniteSets

CONSTANTS
    AttachMayFail   \* may memory or the loop be refused to attach?

ASSUME AttachAssumption == AttachMayFail \in BOOLEAN

Kinds == {"ae", "glib", "ivykis", "libev", "libevent", "libuv", "macosx", "qt"}
Dirs == {"read", "write"}

(* "no record": the hook was handed NULL; "freed record", "freed context":
   the adapter used memory that is no longer its own. *)
EventSides ==
    [data: {"NULL", "record"},
     hooks: BOOLEAN,
     memory: {"none", "live", "closing", "freed"},
     noted: SUBSET Dirs,
     watched: SUBSET Dirs,
     leaked: BOOLEAN,
     fault: {"none", "no record", "freed record", "freed context"}]

Detached ==
    [data |-> "NULL", hooks |-> FALSE, memory |-> "none", noted |-> {},
     watched |-> {}, leaked |-> FALSE, fault |-> "none"]

Note(e, d) == [e EXCEPT !.noted = @ \cup {d}]
Drop(e, d) == [e EXCEPT !.noted = @ \ {d}]
Watch(e, d) == [e EXCEPT !.watched = @ \cup {d}]
Unwatch(e, d) == [e EXCEPT !.watched = @ \ {d}]
Poll(e, dirs) == [e EXCEPT !.watched = dirs]
Forget(e) == Poll(e, {})
Close(e) == [e EXCEPT !.memory = "closing"]
Free(e) == [e EXCEPT !.memory = "freed"]
Fail(e, what) == [e EXCEPT !.fault = what]

(* All hooks set, over a fresh record. *)
Installed(e) ==
    [e EXCEPT !.data = "record", !.hooks = TRUE, !.memory = "live", !.noted = {}]

Failures(results) == IF AttachMayFail THEN results ELSE {}

(* "Nothing should be attached when something is already attached". *)
UnlessAttached(e, results) ==
    IF e.data # "NULL" THEN {<<"failed", e>>} ELSE results

-----------------------------------------------------------------------------
(* ae.h.  A flag for each direction keeps the loop from being told twice. *)
AeAdd(e, d) == IF d \in e.noted THEN e ELSE Watch(Note(e, d), d)

(* Mutant: the flag stays up when the file event is deleted. *)
AeDelKeepingFlag(e, d) == IF d \in e.noted THEN Unwatch(e, d) ELSE e

(* Mutant: redisAeDelWrite deletes AE_READABLE, as the function above it does. *)
AeDelReadable(e, d) == IF d \in e.noted THEN Unwatch(Drop(e, d), "read") ELSE e

AeDel(e, d) == IF d \in e.noted THEN Unwatch(Drop(e, d), d) ELSE e

(* Mutant: cleanup forgets the direction that is seldom in use. *)
AeCleanupReadOnly(e) == Free(AeDel(e, "read"))

AeCleanup(e) == Free(AeDel(AeDel(e, "read"), "write"))

(* The result of malloc is used unseen. *)
AeAttach(e) ==
    UnlessAttached(e, {<<"ok", Installed(e)>>}
                      \cup Failures({<<"failed", Fail(e, "no record")>>}))

(* libev.h.  The flags again, over two watchers. *)
LibevAdd(e, d) == IF d \in e.noted THEN e ELSE Watch(Note(e, d), d)

(* Mutant: the flag is taken down and ev_io_stop left out. *)
LibevDelFlagOnly(e, d) == Drop(e, d)

LibevDel(e, d) == IF d \in e.noted THEN Unwatch(Drop(e, d), d) ELSE e

(* Mutant: cleanup stops the watchers and forgets the record. *)
LibevCleanupLeaking(e) == LibevDel(LibevDel(e, "read"), "write")

LibevCleanup(e) == Free(LibevDel(LibevDel(e, "read"), "write"))

LibevAttach(e) ==
    UnlessAttached(e, {<<"ok", Installed(e)>>}
                      \cup Failures({<<"failed", Fail(e, "no record")>>}))

-----------------------------------------------------------------------------
(* libevent.h.  No notes: the loop is told each time. *)
LibeventAdd(e, d) == Watch(e, d)

LibeventDel(e, d) == Unwatch(e, d)

LibeventCleanup(e) == Free(Unwatch(Unwatch(e, "read"), "write"))

(* Mutant: the hooks are set and the record is not handed over. *)
LibeventAttachWithoutData(e) ==
    UnlessAttached(e, {<<"ok", [Installed(e) EXCEPT !.data = "NULL"]>>})

LibeventAttach(e) ==
    UnlessAttached(e, {<<"ok", Installed(e)>>}
                      \cup Failures({<<"failed", Fail(e, "no record")>>}))

(* ivykis.h.  The descriptor is registered with both handlers in place. *)
IvykisAdd(e, d) == Watch(e, d)

IvykisDel(e, d) == Unwatch(e, d)

(* Mutant: the descriptor of the record that is freed stays registered. *)
IvykisCleanupRegistered(e) == Free(e)

IvykisCleanup(e) == Free(Forget(e))

IvykisAttach(e) ==
    UnlessAttached(e, {<<"ok", Poll(Installed(e), Dirs)>>}
                      \cup Failures({<<"failed", Fail(e, "no record")>>}))

(* macosx.h.  CFSocket callbacks, both enabled at first.  When the socket or
   the source cannot be made the record is freed, but ev.data and the hooks
   are left as they are. *)
MacOSAdd(e, d) == Watch(e, d)

MacOSDel(e, d) == Unwatch(e, d)

MacOSCleanup(e) == Free(Forget(e))

MacOSAttach(e) ==
    UnlessAttached(e, {<<"ok", Poll(Installed(e), Dirs)>>}
                      \cup Failures({<<"failed", e>>,
                                     <<"failed", Free(Installed(e))>>}))

(* An event that is delivered once: the events of libevent are set without
   EV_PERSIST, and a CFSocket does not enable its write callback again.  The
   other loops go on watching until they are told not to. *)
OneShot(kind) ==
    CASE kind = "libevent" -> Dirs
      [] kind = "macosx" -> {"write"}
      [] OTHER -> {}

Delivered(kind, e, d) == IF d \in OneShot(kind) THEN Unwatch(e, d) ELSE e

-----------------------------------------------------------------------------
(* libuv.h.  One handle polls for the mask p->events. *)
(* Mutant: the handle polls for the new direction alone. *)
LibuvAddAlone(e, d) == Poll(Note(e, d), {d})

LibuvAdd(e, d) == Poll(Note(e, d), e.noted \cup {d})

LibuvDel(e, d) ==
    LET p == Drop(e, d) IN
    IF p.noted # {} THEN Poll(p, p.noted) ELSE Forget(p)

(* uv_close: the record lives on until the loop has called on_close. *)
LibuvCleanup(e) == Close(Forget(e))

OnClose(e) == Free(e)

(* The hooks are set before anything can fail; a handle that the loop refuses
   is neither recorded nor freed. *)
LibuvAttach(e) ==
    LET hooked == [e EXCEPT !.hooks = TRUE] IN
    UnlessAttached(e, {<<"ok", Installed(e)>>}
                      \cup Failures({<<"failed", hooked>>,
                                     <<"failed", [hooked EXCEPT !.leaked = TRUE]>>}))

-----------------------------------------------------------------------------
(* glib.h.  The record is a GSource, which belongs to the main loop and to
   whoever made it: cleanup only takes the descriptor out of the poll. *)
GlibAdd(e, d) == Watch(Note(e, d), d)

GlibDel(e, d) == Unwatch(Drop(e, d), d)

GlibCleanup(e) == Forget(GlibDel(GlibDel(e, "read"), "write"))

(* Nothing is checked: an attached context would be attached again. *)
GlibSourceNew(e) == {<<"ok", Installed(e)>>}

(* The last reference is gone; ev.data keeps pointing at the source. *)
GlibFinalize(e) == Free(Forget(e))

(* qt.h.  The record is a QObject of the program's; a direction is noted by
   the notifier that exists for it. *)
QtAdd(e, d) == IF d \in e.noted THEN e ELSE Watch(Note(e, d), d)

QtDel(e, d) == IF d \in e.noted THEN Unwatch(Drop(e, d), d) ELSE e

QtCleanup(e) == QtDel(QtDel(e, "read"), "write")

QtSetContext(e) == UnlessAttached(e, {<<"ok", Installed(e)>>})

(* ~RedisQtAdapter writes to the context it was given, which cleanup does not
   make it forget.  The notifiers have no parent and are not deleted; without
   a receiver they call nobody. *)
QtDestructor(e, contextIsLive) ==
    IF contextIsLive
    THEN [Free(Forget(e)) EXCEPT !.data = "NULL", !.leaked = @ \/ e.noted # {}]
    ELSE Fail(Free(Forget(e)), "freed context")

-----------------------------------------------------------------------------
(* The hooks of hiredis: nothing when they are not set; what they are handed
   is ev.data, whatever has become of it. *)
Hook(e, after) ==
    CASE e.fault # "none" \/ ~e.hooks -> e
      [] e.fault = "none" /\ e.hooks /\ e.data = "NULL" -> Fail(e, "no record")
      [] e.fault = "none" /\ e.hooks /\ e.data # "NULL" /\ e.memory # "live"
            -> Fail(e, "freed record")
      [] OTHER -> after

AddOf(kind, e, d) ==
    CASE kind = "ae" -> AeAdd(e, d)
      [] kind = "glib" -> GlibAdd(e, d)
      [] kind = "ivykis" -> IvykisAdd(e, d)
      [] kind = "libev" -> LibevAdd(e, d)
      [] kind = "libevent" -> LibeventAdd(e, d)
      [] kind = "libuv" -> LibuvAdd(e, d)
      [] kind = "macosx" -> MacOSAdd(e, d)
      [] kind = "qt" -> QtAdd(e, d)

DelOf(kind, e, d) ==
    CASE kind = "ae" -> AeDel(e, d)
      [] kind = "glib" -> GlibDel(e, d)
      [] kind = "ivykis" -> IvykisDel(e, d)
      [] kind = "libev" -> LibevDel(e, d)
      [] kind = "libevent" -> LibeventDel(e, d)
      [] kind = "libuv" -> LibuvDel(e, d)
      [] kind = "macosx" -> MacOSDel(e, d)
      [] kind = "qt" -> QtDel(e, d)

CleanupOf(kind, e) ==
    CASE kind = "ae" -> AeCleanup(e)
      [] kind = "glib" -> GlibCleanup(e)
      [] kind = "ivykis" -> IvykisCleanup(e)
      [] kind = "libev" -> LibevCleanup(e)
      [] kind = "libevent" -> LibeventCleanup(e)
      [] kind = "libuv" -> LibuvCleanup(e)
      [] kind = "macosx" -> MacOSCleanup(e)
      [] kind = "qt" -> QtCleanup(e)

AttachOf(kind, e) ==
    CASE kind = "ae" -> AeAttach(e)
      [] kind = "glib" -> GlibSourceNew(e)
      [] kind = "ivykis" -> IvykisAttach(e)
      [] kind = "libev" -> LibevAttach(e)
      [] kind = "libevent" -> LibeventAttach(e)
      [] kind = "libuv" -> LibuvAttach(e)
      [] kind = "macosx" -> MacOSAttach(e)
      [] kind = "qt" -> QtSetContext(e)

(* ev.addRead and ev.addWrite, ev.delRead and ev.delWrite, ev.cleanup. *)
Add(kind, e, d) == Hook(e, AddOf(kind, e, d))
Del(kind, e, d) == Hook(e, DelOf(kind, e, d))
Cleanup(kind, e) == Hook(e, CleanupOf(kind, e))
=============================================================================
