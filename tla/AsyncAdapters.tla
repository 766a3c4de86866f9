--------------------------- MODULE AsyncAdapters ---------------------------
(***************************************************************************)
(* An asynchronous hiredis context, one of the eight adapters that bind it *)
(* to an event loop, and the program that uses both as the examples do:    *)
(* attach first, then send commands; reply callbacks may send another,     *)
(* disconnect, or free the context.                                        *)
(*                                                                         *)
(* All of it runs on the loop's one thread, so a call into the context is  *)
(* one step, with the hooks and callbacks it calls.  The adapters of libuv *)
(* and glib make two such calls in one call-back of their own; rest is     *)
(* what remains to be done of it.                                          *)
(*                                                                         *)
(* The context itself is external (async.h is in the repository, async.c   *)
(* is not), and so are the loops, the socket and the server.               *)
(***************************************************************************)
EXTENDS LoopAdapters, Naturals

CONSTANTS
    Adapters,       \* the adapters looked at
    MaxCommands,    \* bound: commands the program sends
    LinkMayFail,    \* may connecting fail, may the connection break?
    OwnerMayLeave   \* may the program destroy a GSource or RedisQtAdapter?

ASSUME AdaptersAssumption == Adapters \subseteq Kinds
ASSUME CommandsAssumption == MaxCommands \in Nat
ASSUME AsyncSwitchAssumption == {LinkMayFail, OwnerMayLeave} \subseteq BOOLEAN

VARIABLES
    adapter,    \* the adapter in use
    el,         \* ac->ev, the adapter's record and the loop
    attached,   \* what attach returned: "never" called, "ok" or "failed"
    context,    \* the redisAsyncContext: "live" or "freed"
    flags,      \* c.flags
    obuf,       \* commands not yet written
    replies,    \* callbacks of commands not yet answered
    answers,    \* answers the socket holds
    socket,     \* "connecting", "open" or "broken"
    rest,       \* what the adapter's call-back has still to serve
    issued      \* commands sent so far

contextVars == <<context, flags, obuf, replies, answers, issued>>
vars == <<adapter, el, attached, contextVars, socket, rest>>

Flags == {"REDIS_CONNECTED", "REDIS_DISCONNECTING"}

(* The types; and what a loop watches for, it watches for a record that lives. *)
AsyncTypeOK ==
    /\ adapter \in Adapters
    /\ el \in EventSides
    /\ el.watched # {} => el.memory = "live"
    /\ attached \in {"never", "ok", "failed"}
    /\ context \in {"live", "freed"}
    /\ flags \subseteq Flags
    /\ obuf \in 0..MaxCommands
    /\ replies \in 0..MaxCommands
    /\ answers \in 0..MaxCommands
    /\ socket \in {"connecting", "open", "broken"}
    /\ rest \subseteq Dirs
    /\ issued \in 0..MaxCommands

(* redisAsyncConnect has returned a context without an error. *)
Init ==
    /\ adapter \in Adapters
    /\ el = Detached
    /\ attached = "never"
    /\ context = "live" /\ flags = {}
    /\ obuf = 0 /\ replies = 0 /\ answers = 0 /\ issued = 0
    /\ socket = "connecting"
    /\ rest = {}

TwoInOne == {"libuv", "glib"}       \* serve both directions in one call
Owned == {"glib", "qt"}             \* the record belongs to the program
Eager == {"ivykis", "macosx"}       \* watch both directions once attached

Sent == replies - obuf              \* commands written and not answered

-----------------------------------------------------------------------------
(* What every way to free a context does: pending callbacks are called with
   NULL, then the adapter cleans up, then the context is freed. *)
Teardown(e) ==
    /\ el' = Cleanup(adapter, e)
    /\ context' = "freed"
    /\ obuf' = 0 /\ replies' = 0 /\ answers' = 0
    /\ UNCHANGED <<flags, issued>>

CleanDisconnect == "REDIS_DISCONNECTING" \in flags'

(* Reading fails, or connecting has. *)
ReadFails(e) ==
    /\ socket = "broken"
    /\ Teardown(e)

(* All answers are read and their callbacks called; reads are scheduled
   again first.  A context that is disconnecting goes once nothing pends. *)
ReadReplies(e) ==
    LET read == Add(adapter, e, "read") IN
    /\ socket = "open" \/ ("REDIS_CONNECTED" \in flags /\ answers > 0)
    /\ \/ flags' = flags \cup {"REDIS_CONNECTED"}
       \/ answers > 0 /\ flags' = flags \cup Flags      \* redisAsyncDisconnect
    /\ IF CleanDisconnect /\ replies = answers
       THEN /\ el' = Cleanup(adapter, read)
            /\ context' = "freed"
            /\ replies' = 0
       ELSE /\ el' = read
            /\ replies' = replies - answers
            /\ UNCHANGED context
    /\ answers' = 0
    /\ UNCHANGED <<obuf, issued>>

(* A reply callback sends another command. *)
ReadAndCommand(e) ==
    /\ socket = "open" \/ "REDIS_CONNECTED" \in flags
    /\ answers > 0 /\ issued < MaxCommands
    /\ "REDIS_DISCONNECTING" \notin flags
    /\ el' = Add(adapter, Add(adapter, e, "read"), "write")
    /\ flags' = flags \cup {"REDIS_CONNECTED"}
    /\ replies' = replies - answers + 1
    /\ obuf' = obuf + 1
    /\ answers' = 0
    /\ issued' = issued + 1
    /\ UNCHANGED context

(* A reply callback frees the context (redisAsyncFree). *)
ReadAndFree(e) ==
    /\ socket = "open" \/ "REDIS_CONNECTED" \in flags
    /\ answers > 0
    /\ Teardown(Add(adapter, e, "read"))

HandleRead(e) ==
    \/ ReadFails(e)
    \/ ReadReplies(e)
    \/ ReadAndCommand(e)
    \/ ReadAndFree(e)

WriteFails(e) ==
    /\ socket = "broken"
    /\ Teardown(e)

(* Some or all of the output is written.  Writes go on until it is empty, and
   reads are scheduled in any case. *)
WriteCommands(e) ==
    /\ socket = "open"
    /\ obuf' \in 0..obuf /\ (obuf > 0 => obuf' < obuf)
    /\ el' = Add(adapter,
                 IF obuf' = 0 THEN Del(adapter, e, "write")
                              ELSE Add(adapter, e, "write"),
                 "read")
    /\ flags' = flags \cup {"REDIS_CONNECTED"}
    /\ UNCHANGED <<context, replies, answers, issued>>

HandleWrite(e) ==
    \/ WriteFails(e)
    \/ WriteCommands(e)

(* The adapter calls redisAsyncHandleRead or redisAsyncHandleWrite on the
   context it remembers; e is the event side as the loop has left it. *)
Serve(d, e) ==
    \/ /\ context = "freed"
       /\ el' = Fail(e, "freed context")
       /\ UNCHANGED contextVars
    \/ /\ context = "live"
       /\ \/ d = "read" /\ HandleRead(e)
          \/ d = "write" /\ HandleWrite(e)

-----------------------------------------------------------------------------
ReadyDirs ==
    {d \in Dirs : \/ socket = "broken"
                  \/ d = "read" /\ answers > 0
                  \/ d = "write" /\ socket = "open"}

(* The loop delivers one event to an adapter with a handler for each. *)
Deliver(d) ==
    /\ rest = {} /\ adapter \notin TwoInOne
    /\ d \in el.watched \cap ReadyDirs
    /\ Serve(d, Delivered(adapter, el, d))
    /\ UNCHANGED <<adapter, attached, socket, rest>>

(* redisLibuvPoll without an error: read first, then write. *)
LibuvPoll ==
    LET events == el.watched \cap ReadyDirs IN
    /\ rest = {} /\ adapter = "libuv" /\ events # {}
    /\ \E d \in events :
          /\ "read" \in events => d = "read"
          /\ Serve(d, el)
          /\ rest' = events \ {d}
    /\ UNCHANGED <<adapter, attached, socket>>

(* redisLibuvPoll with an error: libuv has stopped the handle, and nobody is
   told. *)
LibuvPollError ==
    /\ rest = {} /\ adapter = "libuv"
    /\ socket = "broken" /\ el.watched # {}
    /\ el' = Forget(el)
    /\ UNCHANGED <<adapter, attached, contextVars, socket, rest>>

(* redis_source_dispatch: write first, then read. *)
GlibDispatch ==
    LET revents == el.watched \cap ReadyDirs IN
    /\ rest = {} /\ adapter = "glib" /\ revents # {}
    /\ \E d \in revents :
          /\ "write" \in revents => d = "write"
          /\ Serve(d, el)
          /\ rest' = revents \ {d}
    /\ UNCHANGED <<adapter, attached, socket>>

(* The second half of either, whatever the first half did to the context. *)
ServeRest ==
    /\ \E d \in rest : Serve(d, el)
    /\ rest' = {}
    /\ UNCHANGED <<adapter, attached, socket>>

LibuvOnClose ==
    /\ rest = {} /\ el.memory = "closing"
    /\ el' = OnClose(el)
    /\ UNCHANGED <<adapter, attached, contextVars, socket, rest>>

-----------------------------------------------------------------------------
(* The program attaches the context; glib does not see a second time. *)
Attach ==
    /\ rest = {} /\ context = "live"
    /\ adapter = "glib" => attached = "never"
    /\ \E result \in AttachOf(adapter, el) :
          attached' = result[1] /\ el' = result[2]
    /\ UNCHANGED <<adapter, contextVars, socket, rest>>

(* redisAsyncCommand.  Like the examples, it does not ask whether attach
   succeeded. *)
Command ==
    /\ rest = {} /\ context = "live" /\ attached # "never"
    /\ "REDIS_DISCONNECTING" \notin flags
    /\ issued < MaxCommands
    /\ issued' = issued + 1
    /\ obuf' = obuf + 1
    /\ replies' = replies + 1
    /\ el' = Add(adapter, el, "write")
    /\ UNCHANGED <<adapter, attached, context, flags, answers, socket, rest>>

(* redisAsyncDisconnect outside of a callback: at once if nothing pends. *)
Disconnect ==
    /\ rest = {} /\ context = "live" /\ attached # "never"
    /\ "REDIS_DISCONNECTING" \notin flags
    /\ flags' = flags \cup {"REDIS_DISCONNECTING"}
    /\ IF replies = 0
       THEN el' = Cleanup(adapter, el) /\ context' = "freed"
       ELSE UNCHANGED <<el, context>>
    /\ UNCHANGED <<adapter, attached, obuf, replies, answers, issued, socket,
                   rest>>

(* redisAsyncFree outside of a callback. *)
AsyncFree ==
    /\ rest = {} /\ context = "live" /\ attached # "never"
    /\ Teardown(el)
    /\ UNCHANGED <<adapter, attached, socket, rest>>

(* The program destroys the GSource or the RedisQtAdapter it made. *)
OwnerLeaves ==
    /\ OwnerMayLeave
    /\ rest = {} /\ adapter \in Owned /\ el.memory = "live"
    /\ el' = IF adapter = "glib" THEN GlibFinalize(el)
             ELSE QtDestructor(el, context = "live")
    /\ UNCHANGED <<adapter, attached, contextVars, socket, rest>>

-----------------------------------------------------------------------------
ConnectEnds ==
    /\ rest = {} /\ context = "live" /\ socket = "connecting"
    /\ \/ socket' = "open"
       \/ LinkMayFail /\ socket' = "broken"
    /\ UNCHANGED <<adapter, el, attached, contextVars, rest>>

LinkBreaks ==
    /\ LinkMayFail
    /\ rest = {} /\ context = "live" /\ socket = "open"
    /\ socket' = "broken"
    /\ UNCHANGED <<adapter, el, attached, contextVars, rest>>

ServerAnswers ==
    /\ rest = {} /\ socket = "open" /\ answers < Sent
    /\ answers' = answers + 1
    /\ UNCHANGED <<adapter, el, attached, context, flags, obuf, replies,
                   issued, socket, rest>>

Alive == el.fault = "none"

Loop ==
    \/ \E d \in Dirs : Deliver(d)
    \/ LibuvPoll
    \/ LibuvPollError
    \/ GlibDispatch
    \/ ServeRest
    \/ LibuvOnClose

Program ==
    \/ Attach
    \/ Command
    \/ Disconnect
    \/ AsyncFree
    \/ OwnerLeaves

Network ==
    \/ ConnectEnds
    \/ LinkBreaks
    \/ ServerAnswers

Next == Alive /\ (Loop \/ Program \/ Network)

Spec == Init /\ [][Next]_vars

(* The loop turns and delivers every event that stays due, a connection
   attempt ends, and the server answers what it has received.  Nobody is
   bound to use the context, and nothing need break. *)
Fairness ==
    /\ \A d \in Dirs : WF_vars(Alive /\ Deliver(d))
    /\ WF_vars(Alive /\ (LibuvPoll \/ LibuvPollError))
    /\ WF_vars(Alive /\ GlibDispatch)
    /\ WF_vars(Alive /\ ServeRest)
    /\ WF_vars(Alive /\ LibuvOnClose)
    /\ WF_vars(Alive /\ ConnectEnds)
    /\ WF_vars(Alive /\ ServerAnswers)

FairSpec == Spec /\ Fairness

-----------------------------------------------------------------------------
(* The program has destroyed the adapter of a context that lives on. *)
OwnerGone == el.memory = "freed" /\ context = "live"

(* The context is bound to the loop as attach left it: by the one adapter, or
   by a second after a first that watched nothing when it was destroyed. *)
Bound ==
    /\ attached = "ok" /\ context = "live" /\ Alive
    /\ ~OwnerGone /\ ~(adapter = "qt" /\ el.leaked)

(* An adapter that serves one direction per call never uses a context that
   was freed, whoever frees it and whatever was due at that moment; with
   libuv.h:27 and glib.h:97 it takes a call-back for both directions.  A
   RedisQtAdapter uses one only when it is destroyed (qt.h:77). *)
FreedContextIsLeftAlone ==
    el.fault = "freed context" =>
        \/ adapter \in TwoInOne /\ context = "freed" /\ el.watched = {}
        \/ adapter = "qt" /\ el.memory = "freed"

(* No hook meets a record that is missing or freed, and none is freed twice,
   unless attach failed or the program has destroyed the adapter it made. *)
HooksFindTheirRecord ==
    el.fault \in {"no record", "freed record"} =>
        attached = "failed" \/ (adapter \in Owned /\ el.memory = "freed")

(* When the context is gone the loop watches nothing for it, and the record
   is gone too unless it is the program's (glib.h, qt.h). *)
NothingOutlivesTheContext ==
    (context = "freed" /\ Alive) =>
        /\ el.watched = {}
        /\ adapter \notin Owned => el.memory # "live"

(* Work is never forgotten: while output is unwritten the loop watches for
   writing, and while answers are awaited it watches for reading, whatever
   the adapter has noted; but for an error that libuv.h:20 drops. *)
WorkIsWatched ==
    (Bound /\ ~(adapter = "libuv" /\ socket = "broken")) =>
        /\ obuf > 0 => "write" \in el.watched
        /\ Sent > 0 => "read" \in el.watched

(* A loop watches for writing only while output is unwritten, so that it never
   wakes for nothing to write; ivykis.h and macosx.h, which watch both
   directions when they are attached, may until the context is connected. *)
OnlyOutputIsWatchedFor ==
    (Bound /\ ~(adapter = "libuv" /\ socket = "broken")
        /\ "write" \in el.watched /\ obuf = 0) =>
            adapter \in Eager /\ "REDIS_CONNECTED" \notin flags

(* Every command is answered or its callback is called with NULL (async.h:107,
   README.md:306), but for an error that libuv.h:20 drops. *)
PendingIsAnswered ==
    (Bound /\ replies > 0)
        ~> (replies = 0 \/ ~Bound \/ (adapter = "libuv" /\ socket = "broken"))

(* A loop does not spin on a socket that can be written when there is nothing
   to write: the adapter soon takes the write interest back. *)
NoBusyLoop ==
    (Bound /\ socket = "open" /\ "write" \in el.watched /\ obuf = 0)
        ~> ("write" \notin el.watched \/ obuf > 0 \/ socket = "broken" \/ ~Bound)

(* "All pending callbacks are called with a NULL reply when the context
   encountered an error" (README.md:306). *)
ErrorCallsPendingCallbacks ==
    (Bound /\ replies > 0 /\ socket = "broken") ~> (replies = 0 \/ ~Bound)
=============================================================================
