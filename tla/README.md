# Verification of PushRedis

PushRedis takes market quotes from a vendor's API (TapQuoteAPI) and pushes them
to Redis. This directory holds TLA+ models of it, the TLC configurations that
check them on small instances, and TLAPS proofs of what matters most for every
value of the constants.

## 1. The system

### Components

| component | source | state | operations | status |
|---|---|---|---|---|
| Event | `SimpleEvent.cpp` | kernel event, or condition variable + mutex + `bIsSignal` | `SignalEvent`, `WaitEvent` | modelled: `SimpleEvent` |
| Quote pusher | `ConsoleApp.cpp`, `Quote.cpp` | `m_pAPI`, `m_bIsAPIReady`, `m_Event`, the one context `redisCTX` | `main`, `Run`, `ConnectRedis`, `SubscribeItems`, eight callbacks | modelled but for the catalog callbacks: `Quote` |
| Catalog queries | `Quote.cpp:189-274` | none of its own | `OnRspQryCommodity`, `OnRspQryContract` | not modelled: nothing issues the query (`Quote.cpp:86` is commented out) |
| Time stamps | `Quote.cpp:138-164` | none | `datetime_timestamp` | its length check and exception are in `Quote`; the conversion is not |
| Redis connection class | `CRedisConn.cpp:16-212` | `_redCtx`, `_connected`, `_password`, `_errStr` | `init`, `connect`, `reconnect`, `disConnect`, `auth`, `ping`, `redisCmd` | modelled: `CRedisConn` |
| List and hash methods | `CRedisConn.cpp:216-730` | the caller's output variables | `lpush` ... `hgetall`, twelve of them | modelled: `RedisMethods` |
| hiredis, the Redis server | `hiredis.h`, `lib/` | the context and its sticky error; the data | connect, command, AUTH | environment: `Hiredis` |
| Vendor API | `TapQuoteAPI.h`, `lib/` | the login sequence, the subscription, one callback thread | `Login`, `SubscribeQuote`, callbacks | environment, in `Quote` |
| Asynchronous adapters | `adapters/*.h`, `async.h`, `dict.h` | `ev` of a context, the adapter's record, what its loop watches | attach, add/del read/write, cleanup, the call-backs of eight loops | modelled: `LoopAdapters`, `AsyncAdapters` |
| Demo, examples, build files, documents | | | | no logic of their own |

Only `ConsoleApp.cpp`, `Quote.cpp` and `SimpleEvent.cpp` are in the Visual Studio
project. `CRedisConn` is a class that stands alone; it is modelled as a library
used by an arbitrary caller. The adapters are headers that come with hiredis;
they are modelled for a program that uses them as `examples/` does.

### How they interact

```
 main thread                                        API thread (vendor's DLL)
 CreateTapQuoteAPI, SetAPINotify, SetAPI
 Run: ConnectRedis (connect, AUTH)  -- redisCTX --> OnRspLogin      SET, flag or SignalEvent
      SetHostAddress, Login         -- request -->  OnAPIReady      SignalEvent
      WaitEvent                    <-- m_Event ---
      SubscribeItems                -- request -->  OnRspSubscribeQuote   SET
 getchar, return                                    OnRtnQuote      PUBLISH, SET
                                                    OnDisconnect    (prints)
```

The two threads share `m_Event`, `m_bIsAPIReady` and `redisCTX`. Redis keeps what
was written for readers that the repository does not contain: subscribers of the
channel of a contract, and clients that read the keys.

### Hard behaviours, and what correctness means

* *Event.* A signal is not stored. Correct: a wait never ends without a signal
  of its own, and a signal reaches the threads that sleep.
* *Login.* Success of the login (`OnRspLogin`) and readiness (`OnAPIReady`) are two
  callbacks, the flag is raised by the first and the signal given by the
  second. Correct: `SubscribeQuote` only when ready; `Run` neither hangs nor gives
  up without cause.
* *Relay.* A tick is announced and filed by two commands over a connection that
  may break in between, for good. Correct: the channel is in order, without
  duplicates, and has a hole only where Redis refused; keys never run ahead of
  the channel.
* *Heap.* Each command allocates a reply. Correct: the path of a tick leaks
  nothing and frees nothing twice.
* *Failure of Redis.* Correct: it does not kill a pusher that is ready.
* *Adapters.* Hooks are called from inside a loop's call-back, and may free what
  the call-back is using; each adapter keeps its own idea of what the loop
  watches. Correct: nobody uses a context or a record that is gone, what has to
  be written or read is watched, every command is answered, and no loop spins.
* *CRedisConn.* Any order of calls, exceptions that skip cleanup, a cached
  `_connected`. Correct: one context, freed once; no reply leaks; the error text
  tells of the last call; results tell what happened to the data.

Everything of this kind is listed, with its line and the properties that cover
it, under `hazards` in `PROJECT.json`.

## 2. The modules

| module | what it is |
|---|---|
| `SimpleEvent`, `MCSimpleEvent` | the event, both branches of the `#ifdef`, any set of waiting threads; the second has the build chosen at the start |
| `SimpleEventProofs` | its theorems |
| `Hiredis` | a blocking context and the server's session, as environment |
| `TickRelay` | abstract specification: what readers of Redis may rely on |
| `TickRelayProofs` | its theorem |
| `Quote`, `MCQuote` | the pusher: `INSTANCE`s of `SimpleEvent` (one waiter, the main thread), `Hiredis` and, as refinement mapping, `TickRelay` |
| `QuoteProofs` | its theorems |
| `Session` | abstract specification: what a caller of the connection class may rely on |
| `CRedisConn` | the connection class over `Hiredis`; implements `Session` |
| `CRedisConnProofs` | its theorems |
| `LoopAdapters` | the operations of the eight adapters, as operators on the event side of a context |
| `AsyncAdapters` | a context, one of the adapters, its loop and a program, composed |
| `AsyncAdaptersProofs` | their theorems |
| `RedisMethods`, `MCRedisMethods` | extends `CRedisConn` with the data of a key and the twelve methods |
| `RedisMethodsProofs` | their theorems, over those of `CRedisConnProofs` |
| `AtomicKey` | abstract specification: what a caller of the methods may rely on, who is alone on a key; `RedisMethods` implements it |
| `AtomicKeyProofs` | the refinement, over the invariant of `RedisMethodsProofs` |

**SimpleEvent.** `phase` is where a thread stands: running, blocked, borrowed by a
kernel APC, woken. `signalled` is a history variable: a `SignalEvent` ran since the
wait began. A critical section of the pthread branch is one step, because the
mutex hides what is inside. `ApcBegin`/`ApcEnd` are Windows, not the code: the
kernel may take a waiter off the event's list, and `PulseEvent` then misses it.

**Hiredis.** A command ends as `executed`, `refused`, `unsent` (failed before the
server ran it) or `lost` (failed after). The last two leave the context in error
and every later command ends as `unsent`: the library's `c->err` is sticky. The
server may ask for a password; a connection that has not given it is refused
everything. The sources of hiredis are not in the repository, so this module is
the environment as `Quote.cpp` and `CRedisConn.cpp` use it.

**Quote.** `mainPc` names the next call of the main thread. A callback is one step
when it does not talk to Redis, and is cut after each command when it does: the
command with its answer, then what is done with the reply. The vendor's side is
`session`, `connected` and `sub`. Ticks are numbers in order of arrival and carry
a time stamp; `delivered`, `published`, `refusedTicks` record the history that the
properties speak of, `tickStore` and `keys` are in Redis. Left out: the text of
keys and values, prices and volumes, the printed latency, and the codes of a
refusal by `SubscribeQuote`, which are only printed. `Init` is the state at the
start of `main`.

**TickRelay.** The relay may broadcast the newest tick, once, and may file it
under its time stamp. `Quote` implements it with `feed <- delivered`, `channel <-
published`, `filed <- tickStore`.

**CRedisConn.** A call that talks to the server takes two steps, the round trip and
the return; other calls take one. `op` and `reply` are the frame of the call in
progress, `contexts` and `replies` count what is allocated. All data methods are
one operation, `"method"`, here; `NotFoundReturn` is the outcome "false although
the answer is no error", whose conditions are in `RedisMethods`. `queueing` says that
`redisCmd` has begun a transaction, inside which the server answers every command by
`QUEUED`; `QueuedReturn` is what `linsert` makes of that (`CRedisConn.cpp:529-532`):
false, with the text "No error.".

**Session.** The connection is closed, open or broken, and a result tells which: true
or false of a call that went out if and only if the link held, an exception (`NULL`
from `redisCmd`) if and only if it did not; of a broken link `ping` may say false as
well as throw (see the disagreements in section 3); only a closed session turns a call away,
or kills a `redisCmd`. `_connected`, the context, replies and error texts do not
occur in it. `CRedisConn` implements it with `link <-` the state of `_redCtx`,
`calling <- op`, `verdict <- result`; that `_connected`, which the guards of the
methods read, never leads them to another decision is part of what is shown.

**RedisMethods.** One key, which is a list or a hash. Each method is an action that
asks the server (`Ask`), with the server's effect and answer as Redis defines them
(external), and the return steps translate the code: `Found` is what the method
takes for a success, `WhyNot` the error text, `Filled` and `Cleared` what happens to
the caller's variables. `before`/`after` record what the server did; `ledger` and
`doubts` what the caller can conclude. No other client writes to the key, and its methods are
called outside of a transaction.

**AtomicKey.** A key, the call in progress and what the last call came to. A call
takes effect as a whole when it returns: `Succeed` has the `Effect` of the Redis
command and `Shows` it in the caller's variables, `Fail` has none, `Throw` has the
effect or none. `Effect` and `Shows` are relations between the key before and after,
written from what the commands mean; connections, replies and the way a method
reads an answer do not occur. `RedisMethods` implements it with the key as it was
when the call came (`SeenKey`) for as long as the call is in progress, so that the
round trip is invisible and the return is the instant of the effect. `AtomicKey`
has the signed start of Redis, and the refinement hands it the integer the code makes
of the caller's (`Signed`): what it shows is that a call is atomic, not that its start
is the caller's. For the latter `TrueMeansDone` has the caller's unsigned start, claimed
where both agree, and `methods_unsigned_start` shows the rest.

**LoopAdapters.** A record `e` is what a hook can reach: `ac->ev` (`data`, whether the
hooks are set), the adapter's record (`memory`, and in `noted` the flags of ae and
libev, the masks of libuv and glib, the notifiers of qt) and the loop's `watched`.
Each hook is an operator on it, written with the loop's own operations (`Watch`,
`Unwatch`, `Poll`, `Forget`), which are external. `Delivered` is what the delivery
of an event does to the side before any handler runs: nothing with a loop that goes on
watching, an end of the watch with a `OneShot` event (libevent sets its events
without `EV_PERSIST`, and a `CFSocket` does not enable its write call-back again), so that
these adapters depend on the next add of the context. An attach function yields one pair
of status and side for each way it may end. `Hook` is what hiredis does with a
hook: nothing if it is not set, and otherwise it passes on `ev.data`, whatever has
become of it; using a missing or freed record is a `fault`, after which the model
stops. Reading and writing are symmetric in every adapter, so a direction is a
parameter.

**AsyncAdapters.** The context is external, as `async.h` and the README of hiredis
describe it: commands go to an output buffer (`obuf`), their callbacks wait in
`replies`, `answers` are in the socket. A call into the context is one step with the
hooks it calls, because all runs on one thread; a reply callback may send,
disconnect, or free. `Deliver` is the handlers of the six adapters that serve one
direction in a call-back, each on the side as the delivery leaves it;
`redisLibuvPoll` and `redis_source_dispatch` serve two,
so `LibuvPoll` and `GlibDispatch` do the first half and leave the second in `rest`
to `ServeRest`, with the context as the first half left it. `LibuvPollError` is a
status other than 0. The program attaches, perhaps again, sends commands without
asking what attach returned, disconnects or frees between call-backs, and may
destroy a `GSource` or a `RedisQtAdapter`, whose destructor unsets the hooks of a
context that may be gone; once attached to glib it does not attach
again, since `redis_source_new` checks nothing. Subscriptions and the text of
commands are left out: they call the same hooks.

Operators named as `Mutant:` in a comment are deliberately wrong variants of the
definition that follows them. No specification uses them; replacing the
definition by the variant must break the property that `PROJECT.json` names.

## 3. What is checked

All runs finish within a minute. Deadlock is checked in `event_builds` and in
the runs of `RedisMethods`; the others say `CHECK_DEADLOCK FALSE` because a process ends or
an object is destroyed.

| run | instance | what it shows |
|---|---|---|
| `event_builds` | 3 threads, pthread with spurious wakeups or Windows with APCs | with either a wait ends only after a signal of its own; of the pthread event no signalled sleeper is forgotten, except for the sake of a later waiter (553 states, all there are) |
| `quote_safety` | 3 ticks, 2 time stamps, a short stamp, everything may fail, APCs | the login protocol, heap, keys, and `TickRelay` (25 582 states) |
| `quote_live_msvc` | 1 tick, everything may fail, the event that is built | a signal during the wait leaves `Run` awake; a `Run` that sleeps before the login sequence ends is released (715 states) |
| `conn_safety` | everything may fail | contexts, replies, error text, transactions, broken connections, `Session` (1 247 states, the whole state space) |
| `async_all` | all eight adapters, 3 commands, everything may fail | freed memory, unwatched work, answers for every command, no write interest without output, no busy loop (5 820 states, the whole state space) |
| `methods_safety` | list up to 3, 2 values, 2 fields, 3-bit integers, 2 exceptions | results, outputs, error texts against the data, `AtomicKey` (120 718 states) |

Bounds. Three ticks let two of them share a time stamp while a third has another
or is lost in between; a loss, a later tick and an earlier one are the most that
the properties of the relay relate. Two replies per tick and three ticks would
show a leak per tick. One waiting thread is what the program has, three are what
it takes for one waiter to disturb two others. Lists of three elements have a
first, a middle and a last; integers of three bits put the sign bit of `lrange`'s
start within reach. Values and fields are never compared but for equality, so two
are enough. Three commands are one unwritten, one awaited and one sent by the callback
of an answer at the same time; an adapter never counts commands, only whether
there are any.

Fairness (only in the liveness runs, and stated in `FairSpec`). The main thread
and a callback that has begun are scheduled again (the operating system; a
blocking call to Redis ends, by an answer or an error), and the vendor's API
goes through its login sequence, success or failure, as `TapQuoteAPI.h:21-38`
describes it. Nobody has to press a key, no failure has to happen. APCs are off
in `quote_live_msvc`: with them `PulseEvent` may miss the sleeper, as Windows
documents of it; they are on in `quote_safety`. In `async_all` the loop delivers an
event that stays due (weak fairness for each direction, and for the call-backs of
libuv and glib), a connection attempt ends, and the server answers what it has
received. Nothing obliges the program to act or the link to break.

### Findings

Each is a run that TLC must end with a counterexample, and an entry under
`findings`.

* `quote_lost_wakeup`: with nothing failing, `OnAPIReady` may signal before the main
  thread sleeps, and `Run` waits for ever (`SimpleEvent.cpp:17`, `:57`,
  `Quote.cpp:75-81`).
* `quote_short_stamp`: a stamp reported as invalid is converted (`Quote.cpp:147-162`).
* `conn_auto_auth`: `connect` does not authenticate, against `CRedisConn.h:103`; nor
  does `reconnect`.
* `methods_reused_output`: `lrange` appends to the caller's list and `hgetall` keeps
  the old entries of the caller's map, against `CRedisConn.h:171`, `:250`.
* `methods_unsigned_start`: a start of `lrange` in the upper half of `uint32_t` counts
  from the end of the list, and the method answers true with those elements, against
  `CRedisConn.h:171`, `:173` (`CRedisConn.cpp:339`).
* `async_dropped_error`: `redisLibuvPoll` drops an error of the socket, and the
  pending callbacks are never called, against `README.md:306` of the repository
  (`libuv.h:20`).

Disagreements that are plain in the code and in the models' definitions, and have
no run of their own:

* A lost link during login frees a NULL reply (`Quote.cpp:170`, fault
  `"freeReplyObject"`), against `README.md:94` of the repository; that this is the
  one place is `DiesOfRedisOnlyAtStart`.
* `hget`, `hset`, `hdel` and `hgetall` leave their outputs alone on failure (`Cleared`),
  against `CRedisConn.h:219`, `:231`, `:242`, `:252`.
* The replies of AUTH (`Quote.cpp:51`) and of the subscription (`:289`) leak, against
  the comment at `Quote.cpp:340`; that nothing else leaks is `RepliesBounded`.
* AUTH and every later command are sent on a context in error, against
  `README.md:96` of the repository.
* A NULL API is reported and used (`ConsoleApp.cpp:33-38`): fault `"SetAPINotify"`.
* `ping` throws on a lost link, where `CRedisConn.h:117` says that it returns false
  (`NullReturn`). `Session` and `BrokenUntilReconnect` leave either open: they demand of
  `ping` only that it is never true of a broken link.
* `redisCmd` on an object without a connection crashes, against `CRedisConn.h:150`
  (`NullContext`).
* Inside a transaction begun by `redisCmd`, `linsert` returns false with the text "No
  error." (`QueuedReturn`, `CRedisConn.cpp:529-532`); that this is the one failure
  without a reason is `ErrorTellsOutcome`.

The exceptions in the properties of `AsyncAdapters` are uses of freed memory that
the code has and no document speaks of. `redisLibuvPoll` and
`redis_source_dispatch` serve the second direction on a context that the first
may have freed (`libuv.h:27`, `glib.h:100`). A failed attach leaves hooks without a
record (`libuv.h:97`), or with one that was freed (`macosx.h:103`), and ae, libev,
libevent and ivykis use the result of `malloc` unseen; the examples go on after
any of these. `~RedisQtAdapter` writes to a context that may be gone (`qt.h:77`), and
leaves its notifiers behind when it is not; a released `GSource` stays in
`ev.data`. `example-qt.cpp:24-29` goes on with the context it has just freed.

Two more things the models show and no document contradicts: a session that is
lost between `Login` and `OnAPIReady` leaves `Run` waiting (`OnDisconnect` does not
signal), which is why `WaitingRunIsReleased` excepts it; and a push whose answer
is lost may have been executed, which is why `ResultsAccountForTheList` allows one
element of doubt for each exception.

## 4. What is proved

`tlapm` proves these for every number of ticks, every set of time stamps and of
threads, and every choice of what may fail. Assumptions are those named in the
modules: `MaxTicksAssumption`, `StampAssumption`, `SwitchAssumption`,
`CompilerAssumption`, `KernelApcAssumption`, `ConnSwitchAssumption`,
`AttachAssumption`, `AdaptersAssumption`, `CommandsAssumption`, `AsyncSwitchAssumption`,
`MethodsAssumption`, `NilAssumption`.

* `SimpleEventProofs`: `NoReturnWithoutSignal`, `SignalRemembered`. The first needs
  `SignalEvidence`: a raised flag, or a released thread under `PulseEvent`, means
  that the thread was signalled. `WaitReturnsOnlyIfSignalled` alone is not
  inductive: it says nothing of the states before a return.
* `TickRelayProofs`: `RelayCorrect`.
* `QuoteProofs`: all safety properties of `quote_safety`, from one inductive
  invariant `IInv` with four parts.
  - `ControlTypeOK`: types.
  - `LoginInv`: follows the main thread through the login. Its core is that a main
    thread that waits and has been signalled implies a session that is refused
    or ready, which rests on `SignalEvidence`, proved for the event as composed.
    `SubscribesOnlyWhenReady` and `RunEndsWithCause` are consequences.
  - `HeapInv`: the replies on the heap lie between those held by the callback in
    progress and those plus one for AUTH and one for the subscription; hence no
    free of something not there, and `RepliesBounded`.
  - `TickInv`: while the context is usable, every tick processed so far was
    announced or refused; once it is not, nothing is announced any more. That is
    `LossIsASuffix`, which is not inductive without the state of the context.
  `Refinement` maps every step to a step of `TickRelay` or a stutter, and
  `OrderForReaders` then needs no more than `RelayCorrect`.
  `KeysFollowTheChannel` is the half of `TickInv` about the keys.
  `SignalsAreHeard` is the safety half of `WaitingRunIsReleased`, for every constant: a
  signal that finds `Run` waiting leaves it awake, with the flag up where there is one,
  and nothing inside the wait undoes that. It needs that `Run` is the only waiter (no
  later `WaitEvent` lowers the flag) and that only the kernel of Windows takes a sleeper
  off the list. `QuoteUsesTheEvent` shows that whatever the pusher does to its event is
  a behaviour of `SimpleEvent`; the theorems of `SimpleEventProofs` then hold for it
  (`RunWaitsForASignal`).
* `AsyncAdaptersProofs`: all six invariants of `async_all`, for any set of the eight
  adapters and any number of commands. `AddIntact`, `DelIntact`, `CleanupIntact`,
  `HookMissing` and `AttachEnds` say once what the hooks of every adapter do to the
  side of a context: with its record in place, notes and loop that agreed still
  agree, and cleanup leaves nothing watched. `DeliveryHands` says the same of the delivery
  of an event. `AsyncInv` builds on them. Its parts
  follow the life of the record: `RecordInv` (hooks, record and the result of
  attach), `BoundInv` (record in place: notes and loop `Agree`, work is watched),
  `UnboundInv` (record missing: why, nothing is watched, and no command is pending
  that a later attach would miss) and `GoneInv` (context freed). None of these
  properties is inductive alone: that a freed context is not used follows from
  nothing being watched for it, that from cleanup having known all that was
  watched, and that from `Agree`. `OnlyOutputKeepsTheLoopAwake`, the safety half of
  `NoBusyLoop`, is the converse of `WorkStaysWatched`. It rests on `AsyncInv` and a second
  invariant, `IdleInv`: what is sent and not answered was sent by a context that is
  connected, which is what excludes that an early read of ivykis or macosx, both
  directions watched from the start, connects it with the write interest still up.
* `CRedisConnProofs`: the four invariants of `conn_safety` and its action property
  `BrokenUntilReconnect`, from `ConnInv`, which adds
  `CallInv`: a call in progress owns the one reply there is, and has none if and
  only if its context is in error. That equivalence is also what makes the results
  tell the state of the link: `AnswersTellTheSession` maps every step of `CRedisConn` to a
  step of `Session`, or to none.
* `RedisMethodsProofs`: all five invariants of `methods_safety`, for any values, fields
  and widths of integers, and lists of any bound; `TrueIsTrue` for a caller that passes
  new variables, as `methods_reused_output` shows it must, and of `lrange` only for the
  starts that a signed integer holds, as `methods_unsigned_start` shows. A result is only as good as
  the answer it is made of, so the invariant `DataInv` has `Pending`, which says of the
  call in progress what its answer `Tells`: taken for a success, it agrees with the
  key before and after (`Done`); taken for a failure, the key is as it was and the
  reason holds (`Honest`). Each method is shown to be a `Lawful` round trip of this
  kind; the return then needs no case for each method. `MinIsMember` (what `LINSERT`
  finds is in the list) and `RangeIsInterval` (what `LRANGE` answers) are the lemmas
  about sequences. `NilAssumption`, that the reply nil is no string of the key, is
  needed: the methods tell the two apart by `reply->str` (the pops) or
  `reply->type`.
  `MethodsUseTheConnection` shows that the methods implement `ConnSpec`, by which the
  theorems of `CRedisConnProofs` hold for them, and `MethodsKeepTheSession` that they
  implement `Session`.
* `AtomicKeyProofs`: `MethodsAreAtomic`, the refinement of `AtomicKey`, for a caller that
  passes new variables. A step that asks the server maps to `Invoke`, a return to
  `Succeed`, `Fail` or `Throw`, all else to `Elsewhere` or no step. The invariant is that
  of `RedisMethodsProofs`, whose `Pending` says for this purpose that the key after the
  call is the one before or its `Effect`, and the second only if the server ran it.
  `SameInterval` (the interval of `RedisMethods` and that of `AtomicKey` are the same) and `InsertionIsNextTo` (a value inserted at an index is next to the pivot
  there) are the lemmas about sequences.

That a pulse without APCs reaches every sleeper (`SignalIsNotForgotten` under
`_MSC_VER`) is proved and has no run of its own. Only model-checked: liveness
(`WaitingRunIsReleased`, `PendingIsAnswered`, `NoBusyLoop`) and `ENABLED`, which are out
of the prover's reach. No module declares a RECURSIVE operator, and nothing that needs
induction over data is claimed.

## 5. Plan

1. Done: `SimpleEvent`, `Hiredis`, `TickRelay`, `Quote`, `CRedisConn`, `RedisMethods`,
   `LoopAdapters`, `AsyncAdapters` and the proofs above.
   `Session` and `AtomicKey`, the abstract specifications of the connection class and of
   its methods, and the refinements.
2. Left to TLC: liveness. Every safety property that a passing run checks is a theorem,
   and so is the safety half of `WaitingRunIsReleased` and `NoBusyLoop`.
3. Next: theorems about `Session` and `AtomicKey` alone (an exception is told only of a
   broken link; the key is never a list and a hash; a key changes only under a call told
   true or thrown), which then hold for the code by refinement.

## 6. Not modelled

* The callbacks of the catalog queries (`Quote.cpp:189-274`): `Run` does not issue the
  query (`Quote.cpp:86` is commented out), so they never run. A model would be of
  another program.
* The conversion in `datetime_timestamp`: its result is only printed
  (`Quote.cpp:302-311`), and nothing depends on it. Whether it throws is in `Quote`.
* What a callback does while `main` destroys `objQuote` (`ConsoleApp.cpp:44`): it
  depends on how the vendor's DLL is unloaded.
* Loops that refuse to watch a descriptor (`aeCreateFileEvent`, `event_add`,
  `uv_poll_start`): no adapter looks at the answer.
* The sources of hiredis and of the vendor's API, which are not in the repository
  (`hiredis.lib`, `TapQuoteAPI.dll`): they are the environment, from the headers and
  the way the code uses them. The vendor's headers are declarations.
* `Demo.cpp`, project files, documents.
