# A model of smoljudge's RPC library

smoljudge is a judge made of three programs, a registry, a broker and invokers,
that talk through an RPC library of its own. The library is where the logic is;
the programs are small or still stubs. This directory models the library in
TLA+, checks the models with TLC and proves theorems about them with TLAPS.

The contents: [inventory](#inventory), [modules](#modules-and-the-code),
[runs](#runs), [bounds](#bounds), [fairness](#fairness),
[proofs](#proofs), [what was found](#what-was-found),
[what is not modelled](#what-is-not-modelled), [plan](#plan).

## Inventory

Everything runs in one thread, on one `uvw` (libuv) loop. There are no locks and
no data races: what is hard is the order in which callbacks run, what they find
when they do, and what happens to an exception that one of them throws. Between
processes it is the streams, whose two ends are lost at different times, and the
files of UNIX sockets, the only thing that outlives a process: a server that is
killed leaves them behind, and until somebody removes them the next one gives
those addresses up, while its clients go on dialing them.

| Component | State | Operations | Interacts with |
|---|---|---|---|
| client, `rpc/src/client.cpp` | `sock`, `is_active`, `n_failures`, a raw `timer` pointer, `server_ids_of_methods`, `promises`, `pending_messages`, `next_message_id` | constructor, `invoke`, `stop`, `reconnect`, handlers of ConnectEvent, CloseEvent and TimerEvent, `on_incoming_handshake`, `on_message` | owns one socket; the loop calls it; its promises run continuations of the application |
| socket, `rpc/include/rpc/socket.hpp` | `_is_open`, `_is_connected`, `_handshake_finished`, `message_piece` | handlers of the stream's events, `on_data`, `write`, `stop` | calls `on_incoming_handshake` and `on_message` of its owner, which may destroy it meanwhile |
| server, `rpc/src/server.cpp` | listeners, the list `clients`; for each client its object, ids, promises and socket | `bind`, `stop`, handlers of ListenEvent and CloseEvent, `on_incoming_handshake`, `on_message`, `invoke` | handles keep the address of a list element; methods may answer in a later callback |
| handshake, in both of the above and `rpc/include/rpc/common.hpp` | the two maps from names to method ids | `client_hello`, `server_hello`, `report_handshake_error` | the text of types from serialization |
| serialization, `rpc/include/rpc/serialization.hpp` | none | `serialize`, `deserialize`, `stringify_type` | used for every frame and every argument |
| reflection, `rpc/include/rpc/reflection.hpp` | lists of methods, filled before `main()` | macros and templates | gives the handshake its lists, the server its methods |
| promises, `common/include/common/async.hpp` | `callback`, `value`, `ex` | `set`, `throw_`, `operator\|`, `catch_`, `else_`, `to_promise` | every answer to a call |
| listeners, `bind` and `stop` of `rpc/src/server.cpp` | `unix_domain_sockets`, `server_stop_methods`, the files on the host | `bind`, `stop`, the destructor | every other process that binds the same addresses |
| registry, `registry/src/main.cpp`, `common/registry.hpp` | the registry itself, whose implementation is not in the repository | `store`, `retrieve`, signal handlers | a server, bound to the addresses of a configuration |
| invoker, `invoker/src/main.cpp` | none of its own, an implementation without methods | signal handlers | a client |
| broker, `broker/src/main.cpp`, `broker/src/queue.cpp` | none | `main()` returns before it starts anything | |
| `rpc/include/rpc/identity.hpp`, `common/config.hpp` | none | declarations nobody uses, an empty function | |
| test program, `rpc/test.cpp` | none | a client and a server that call each other, in one process; signal handlers | both |

What would make each of them correct:

* **client**: calls are written in the order they were made and never twice;
  every call is accounted for; one failure leads to one attempt; a stopped
  client lets the loop end; a running one never stops trying; a queued call is
  written in the end; no event handler throws into the loop.
* **socket**: how the stream was cut into pieces makes no difference; nothing is
  handled before an acceptable hello; the flags say what the stream is doing.
* **server**: a `server_client` exists exactly as long as a callback can ask for
  it; a request is answered once; a client that was refused gets nothing.
* **handshake**: both sides come to the same verdict, and an id designates the
  method meant, also after the server was replaced by another version.
* **serialization**: what was written is read back, and nothing else is read as
  it; types with the same text are read alike.
* **promises**: a continuation runs once, whichever comes first, it or the value,
  however continuations are nested.
* **listeners**: nobody removes the socket of a process that serves; a restart
  listens again.
* **a client and a server together**: calls in both directions are executed at
  most once and in order, no answer goes astray, and every call completes or is
  known to have been on a connection that is lost.

The behaviours that are hard, with the lines where they bite and the properties
that watch them, are the hazards of `PROJECT.json`. The hardest come from three
habits of the code. Handlers of a handle that was replaced are not removed, and
use whatever socket the client has by then. A handler can destroy or stop the
socket whose `on_data()` is running. And an exception is caught only under
`on_data()`, and only if it derives from `std::exception`; it then stops the
socket that was being read, whichever socket it was about. Any other exception,
and any that is thrown elsewhere, leaves the loop and ends the process.

## Modules and the code

`uvw` and libuv are not in the repository. From how the code uses them: a handle
delivers nothing but its CloseEvent once `close()` was called on it, and that
once; the listeners of an event that were added with `on` run the last one
first; a TimerEvent fires after its delay, in no order with other events.

### Client, with CallLedger and MCClient

One client and its sockets. An action is one whole callback, or one call of the
public interface. `handle` is what the loop knows of every stream the client
ever opened (`free`, `connecting`, `up`, `closing`); `sock` is the stream of
`*sock`; the three flags are those of `*sock`. Handles and timers are taken from
finite sets and used again, so that a run has no bound on the number of
connections. `armed` holds the timers that will fire, `timer` is the raw
pointer, which may designate another one. `hellos` and `asked` are what was
written on `*sock`, so that the peer answers only what it was asked.

| Action | Code |
|---|---|
| `OnConnect` | both ConnectEvent listeners: the socket's sets `_is_connected`, the client's writes the hello on `*sock`, throws, or dereferences a null pointer |
| `OnEnd`, `OnError` | the socket's listeners |
| `OnClose` | the CloseEvent listener of `_connect_impl`, for any handle: `reconnect(true)` |
| `OnTimer` | the TimerEvent listener: the pointer is cleared, a connection is made |
| `OnHandshake` | an acceptable `server_hello`: the queue is written and cleared, then `on_data()` sets the flag |
| `OnHandshakeRefused` | `reconnect(true)` under `on_data()`; what `on_data()` then does to the destroyed socket is undefined: the process goes on or dies |
| `OnResponse`, `OnStrayResponse` | `on_message` with `method_id == -1`; the continuation may throw what is caught (`StopSocket`) or what is not (`Escape`) |
| `OnRequest`, `AnswerLater` | a method the client offers is called and answers in a later callback, on the socket it was asked on: if that is not connected any more, the exception leaves the loop |
| `OnLastResponse`, `OnLastRequest` | a continuation, or a method the client offers, calls `reconnect()` or `stop()` (`Leave`): the socket whose `on_data()` runs is destroyed under it, with the same two outcomes as after a refusal |
| `OnBadData` | everything else that throws a `std::exception` under `on_data()`, or fails its checks |
| `Invoke` | queued, written, or "Socket not connected" after a number was used up |
| `Stop`, `ReconnectByHand` | `stop()`, `reconnect()` |

`sent`, `resolutions` and `threw` are histories. `n_failures` stops at
`FailureCap`, beyond which the delay does not change. `MayReject` and
`MayReconnect` say whether the environment refuses hellos and whether the
application calls `reconnect()`, or either function under `on_data()`: the
properties that fail once it does are checked without, the others with both.
`MayThrowForeign` says whether the application throws what is no
`std::exception`, `MayAnswerLate` whether its methods answer in another callback
than the client's `on_data()`. `owed` keeps whether any such answer is due on
`*sock` (`"here"`) or on a socket that was replaced (`"gone"`); how many there
are makes no difference. `aborted` says what ended the process.

Such a method holds its socket, with all its listeners
(`[sock = sock, ...]`, `client.cpp:100`). A socket that is stopped before it is
replaced hears nothing more. One that is replaced without being stopped, as only
doubled timers do, would go on as a second client in all but name; that
combination is excluded (`MayAnswerLate => ~MayReject /\ ~MayReconnect` in
`ClientAssumption`).

`CallLedger` is what the client promises about calls with every connection
hidden: a call is queued, written if nothing waits, or refused; the queue is
written as a whole; what was written is answered at most once. `KeepsLedger`
says that `Client` implements it.

### Framing and MCFraming

`on_data()` alone. Bytes are counted: `End[i]` is where frame `i` ends,
`received` and `cut` delimit `message_piece`. One DataEvent brings any number of
bytes and sets `reading`; the iterations of the loop are the steps taken while
it holds; a handler returns, stops the socket, or throws. The two tests of the
header of a hello, its magic and its length, are the values of `hello`.

### Serialization, Codec and MCCodec

`Serialization` has the overloads of `serialize_to` and `deserialize_to`: what a
value of a type is written as, and what reading bytes gives, which is a value
and the bytes that are left, an exception, or `Undefined`, which stands for
anything (a bool that is neither 0 nor 1). The overloads for templates are
operators from the codecs of the parameters to a codec: `Vector(part)`,
`Variant(parts)`. A tuple or struct is its first element and the tuple of the
others, since the code reads and writes one element after the other. `values`
are the values of a type, `readable` those that can be read back at all: a
variant is read into a fresh object with `std::get`, which finds only its first
alternative there.

`Codec` has a table of types, each made of types before it, and `CodecOf`, which
picks the overloads as the compiler does; `serialize`, `deserialize` and the
text of types. A value is written, then the bytes are left alone or up to
`MaxChanges` of them are lost, added or replaced, and read back. `MCCodec` has
the frames of `common.hpp`, with narrower fields, the results and arguments of
the registry's methods, and nested variants, pairs and optionals.

### Handshake and MCHandshake

A client with a list of methods it calls and one of methods it offers, a server
the same, and the connections between them: `Greet`, `Answer`, `Conclude`,
`Lose`. `Answer` is the whole of the server's `on_incoming_handshake`,
`MappedCalls` the part of the map that is filled before the first check fails.
`Upgrade` replaces the server while the client, and its map, live on.

### Server and MCServer

One server that is bound once. Here `on_data()` is taken apart into one step per
frame, because it goes on after a handler stopped the socket; `reading` is the
connection it runs for, and no callback of the loop starts meanwhile. `Thrown`
is what a `std::exception` does: under `on_data()` it stops the socket being
read, elsewhere it ends the process. `Escape` is any other exception of a method
or continuation, which ends the process everywhere (`MayThrowForeign`), and
`OnListenFails` a ListenEvent in which the factory of the application's object
throws, or calls the new client, whose methods have no ids yet
(`FactoryMayThrow`). `aborted` tells these apart. `Async` says whether methods answer, and call
their client, after they returned; `AnswerLater` may then run in any callback,
including the `on_data()` of another connection. `CallFromDeleted` is such a
method whose connection's CloseEvent has deleted the object it belongs to: the
outcome of its next call is undefined, and the process dies or goes on. `Stop`
may come from a signal handler or from a method, whose `on_data()` then goes on
over a socket that is closed.

### Listeners and MCListeners

Processes that run a server, as `registry/src/main.cpp` does, on one host.
Between two system calls of one process the others run, so every system call on
something shared is a step:

| Action | Code |
|---|---|
| `Check`, `BindPath` | `exists()`, and the `bind()` that relies on it |
| `BindPort`, `FailToResolve` | `bind()` of a port; an address that makes it throw |
| `Run` | the signal handlers are there and the loop runs |
| `OnSignal`, `RemovePath` | the first loop of `stop()`: the recorded paths are removed, whoever made the files |
| `ClearPaths` | `unix_domain_sockets.clear()` |
| `CloseListener`, `AllClosed` | the second loop: a listener is closed, and libuv unlinks the path it was bound to once more, whoever has bound it since |
| `Exit` | the destructor's second `stop()`, whose lists are empty |
| `Kill` | the process ends without `stop()` |

Every process is one run, so a restart is another process. `crashed`,
`overlapped`, `raced` and `hasty` are histories that the properties use as
premises: `raced` says that a process found a path taken which `exists()` had
reported free, `hasty` that one bound a path whose last listener was not closed
yet. The order in which a process takes the addresses of its lists is left open.
That closing a pipe unlinks its path is how libuv behaves; its source is not in
the repository.

### Promise

`set()`, `throw_()` and `operator|`, with functions and with the handlers that
`catch_` and `else_` build. Promises are numbered as they are made; `callback`
is the result of the continuation attached last, `source` the promise a result
belongs to. A callback runs inside the `set()` or the `operator|` that caused
it and may itself make, settle and continue promises, so the module keeps the
call stack: `settling` is the promise whose `set()` is at work, `stack` the
continuations that have not returned. An exception empties the stack
(`Unwind`): nothing in the file catches it, except `handle()`, and that only
around the handlers' own dispatch.

| Action | Code |
|---|---|
| `Make`, `MakeResolved` | `promise()`, `to_promise()` |
| `Begin` | `set()` or `throw_()` by the owner of a promise; only `_promise_impl` has `throw_()`, `promise` has not, so this is more than the code allows |
| `Attach` | both `operator\|` |
| `Keep` | no callback yet: `value` or `ex` is stored |
| `PassOn` | the callback of a function hands an exception to its result |
| `Run`, `Return`, `Escape` | a function, `else_` or a handler runs, returns or throws |
| `EscapeHandler` | an exception that is no `std::exception` passes the catch clause of `handle()` |

That a promise is set once is an assumption about its owner (`MaySettle`), which
`Client` and `Server` justify: they take the promise out of their map to set it.
Two things a user could do are excluded, because they destroy a function while
it runs: a continuation does not replace one that waits for it to return. And
handlers belong to promises of `void`, since for any other type `handle()` does
not compile (`result.set` on a `shared_ptr`, `async.hpp:98`).

### RpcSystem, with RemoteCalls and MCRpcSystem

The composition: one `Client` and one `Server`, instantiated with their own
variables, joined by two streams for every connection made. It is the program
of `rpc/test.cpp`: `main()` makes calls, one of its methods calls the client
back before it returns, and the client's method calls the server again before
it answers. Every action is one of `Client` or of `Server` together with what
it takes from a stream and puts on one, so that nothing arrives that was not
written:

| Action | Of the component | Streams |
|---|---|---|
| `Connect`, `Accept` | `C!OnConnect`, `S!OnListen` | a new pair with a hello on it |
| `Greet`, `TakeHello` | `S!OnHello`, `C!OnHandshake` | the hello is answered; what waited is written (`Flushed`) |
| `MainCalls`, `TakeCall` | `C!Invoke` | a call, written or queued |
| `CallBack`, `Execute` | `S!CallClient`, `S!OnRequest` | a call to the client; an answer |
| `TakeAnswer`, `GoodBye` | `C!OnResponse`, `S!OnResponse` | the answer of the client's method, on the connection that asked (`ReplyNumber`), or an exception if that is gone |
| `LoseServer`, `LoseClient`, `FailToConnect` | `C!OnEnd`, `S!OnEndOrError`, `C!OnError` | each end notices for itself, while the other may still read |
| `StopClient`, `StopServer` | `C!Stop`, `S!Stop` | |
| `CrashServer` | | the server process ends at any moment; the file of its socket stays (`stale`), unless `stop()` had removed it |
| `RemoveFile`, `StartServer` | | somebody removes that file; another process takes the server's place, which it can only while there is no such file |

Numbers of calls are those of the code: the client's go on over connections,
the server's start over on each. The two sides run as two processes; the one
process of the test is one way to schedule them. Hellos are accepted, since
both sides declare the same protocols; methods do not throw and answer before
they return, and the factory does not throw, as in `test.cpp`. `Client` and
`Server` have the rest. A server that finds the file of a killed one runs
without listening on that path, which nobody can tell from one that was not
started; the client's attempts then fail (`FailToConnect`) or stay pending.
`CallBack` and `Execute` are one `on_message` taken apart, so that the
connection may end between them, which is more than the code allows.

`RemoteCalls` is what a caller and a callee promise with connections, failures
and messages hidden: a call is made, executed at most once, and answered at most
once after that. `ForwardCalls` and `BackwardCalls` say that the composition
implements it in either direction.

### Modules of proofs

`ClientProofs`, `ServerProofs`, `HandshakeProofs`, `FramingProofs`,
`PromiseProofs`, `ListenersProofs`, `CodecProofs` and `RpcSystemProofs` hold the
theorems about the modules they are named for, `CodecProofs` those about
`Serialization` as well.

## Runs

| Run | What it shows |
|---|---|
| `client_healthy` | while hellos are accepted and `reconnect()` is left to the client, there is one handle or one timer at a time (`SingleAttempt`) and no event handler throws into the loop: the process ends only if the application throws what `on_data()` does not catch or answers late on a lost connection (`OwnHandlersNeverThrow`); `stop()` lets the loop end (`StopWindsDown`); a client without a connection dials again (`KeepsTrying`); with a network and a server that work again and again, a queued call is written in the end (`QueueDrains`) |
| `client_faulty` | with refused hellos, and `reconnect()` or `stop()` at any moment and under `on_data()`: the order of calls (`CallOrder`), the account of calls (`CallsAccounted`), flags and handle agree (`FlagsMirrorHandle`), the raw pointer never dangles (`TimerNotDangling`), the ledger is implemented (`KeepsLedger`) |
| `client_refused` | a violation: see [what was found](#what-was-found) |
| `framing` | over every way to cut the stream, no message is handled before an acceptable hello (`HelloFirst`) and which frames are delivered depends only on how many bytes came (`ChunkingIndependent`) |
| `codec` | what was written is read back (`RoundTrip`); what is accepted is what would be written (`Canonical`); a message cut short or with bytes after its end is refused (`SelfDelimiting`); a frame starts with its length (`FrameSpellsLength`); types with one text read the same value from the same bytes, unless the reader's cannot hold it (`SignatureAgrees`) |
| `handshake` | `EstablishedIffCompatible`, and ids designate methods on both sides (`CallsReachTheirMethods`, `PeerCallsReachTheirMethods`) |
| `server_async` | `FlagsMirrorHandles`, `RequestsAccounted`, `OnlyEstablishedAreServed`, `PeerCallsAccounted` with methods that answer whenever they like |
| `server_sync` | with methods that answer before they return, everything is caught by an `on_data()` but what the application throws of another kind than `std::exception`, or while its object is made (`OwnHandlersNeverThrow`) |
| `server_live` | after `stop()` the listener and every connection leave the loop, unless the application ends the process (`StopWindsDown`) |
| `listeners` | nobody loses its socket to another process unless they raced for it or it bound the path before the other had closed its listener (`ListenersReachable`); after orderly stops the next process listens everywhere (`CleanRestartListens`); a killed process costs those after it the paths whose files it left and no other address (`CrashCostsItsPaths`) |
| `promises` | no continuation runs twice or early, however many are attached and nested (`AtMostOnce`); the only one of a promise runs exactly when it has something to take, early or late, and settles its result when it returns (`ExactlyOnce`) |
| `system` | nothing throws into either loop (`NoAbort`); no answer is sent to somebody who does not wait for it (`AnswersAwaited`); nothing is lost while a connection holds (`InFlight`); the calls of a connection are executed in order (`ExecutedInOrder`); both directions implement `RemoteCalls` (`ForwardCalls`, `BackwardCalls`); calls and calls back complete, the former unless a server was killed and its file stays for good (`CallsComplete`, `CallbacksComplete`) |

The type invariants, and three facts that the properties above imply or rest on
(`Aligned`, `NothingLost`, `StopLeavesNoFile`), are proved and not run again;
the client's types are run as well, for the bound of 64 seconds in them.

Each property of a passing run has a mutant in `PROJECT.json`: a definition
marked "Fault" in the module, in place of the one it names, makes TLC find the
property violated. Deadlock is checked in `handshake` only; the other models may
stop, because a client or a server may be stopped or the bounds used up.

## Bounds

* `client_faulty`: three handles, two timers, two calls. Two handles and two
  timers are what a doubled attempt needs; the third handle lets one that was
  replaced linger beside one that closes and one that connects. Two calls have
  an order. `Rearm` needs a free timer, so more than two armed at once are not
  explored; handles and timers are used again without limit.
* `client_healthy`: two handles are enough, since with single attempts they are
  never used together. That itself is part of `SingleAttempt`. Late answers and
  exceptions that are not caught are switched on here, and in `client_faulty`
  the latter.
* `framing`: a hello of 9 bytes, one more than its header, and messages of 4, 5
  and 6: an exact fit of the header, one byte more, two more. The proofs drop
  the bound.
* `codec`: bytes of four values so that a byte holds both special method ids, -1
  and -2, and an undefined bool; strings and vectors of up to two elements in
  methods and one in frames; up to two bytes changed. The proofs drop all of
  these bounds.
* `handshake`: two names, two signatures, lists of up to two methods on the side
  under test and one on the other: enough for another order, a missing method, a
  wrong signature after a right one, and ids that change with the server.
* `server_*`: two connections, two requests each (one in `server_live`), one
  call to each client: an exception about one connection while another is read
  needs two.
* `listeners`: three processes, so that one may start in the middle of the
  `stop()` of another while a third serves; two paths and a port, so that a process can
  have one address and lose another. The proofs drop the bound.
* `promises`: five promises, of which any may be results of others: a chain of
  two continuations, the second of which settles another chain. The proofs drop
  the bound.
* `system`: two requests that call back, which makes four calls of the client
  and two to it, and two faults. A fault is a connection that ends by itself, an
  attempt that fails, a signal to either side, or a crash of the server; what
  follows from one, such as the other end's close, is free. Two faults are what
  it takes to lose a call, start its numbers over and then lose the connection
  that has the same numbers. One handle and one timer suffice for the client,
  which is `SingleAttempt`. The proofs drop the bounds on calls and faults.

Symmetry is used where only safety is checked, and for sets whose members the
specification does not tell apart.

## Fairness

* `LoopFairness` (`Client`), and the fairness of `Server`: a CloseEvent that is
  due is delivered and a timer that is armed fires. That is what libuv's loop
  does on every iteration, and the code never blocks it. `StopReading` is fair
  because `on_data()` works off a finite piece. A late answer, an exception of
  the application and a factory that throws are never due.
* `PeerFairness` (`Client`) is an assumption about the world, not about the
  code: connections are let through again and again, and the server answers a
  hello again and again. Both are strong fairness, since failures in between
  disable them. It is the premise of `QueueDrains` and of nothing else.
* `RpcSystem`: what is due in one of the loops, or a start of a server that is
  gone, happens some time; this is weak fairness of all of it together, so it
  promises of any single callback only that it comes when nothing else is left
  to do. That a server which ended is started again is an assumption about
  whoever runs it; that the file of a killed one is removed is not assumed. The pieces of a stream are strong fairness (`Frames`): an
  `on_data()` may end without a frame any number of times, but what arrives
  again and again is a whole frame some time. Faults need no fairness, and the
  script none: what main() does not call need not complete.

`StopWindsDown` and `KeepsTrying` of the client are checked without refused
hellos: after one, a second timer may be armed that `stop()` does not know of,
and a stopped client dials again.

## Proofs

TLAPS checks these for every value of the constants, from the assumptions the
modules name.

`FramingProofs` (assumption: frames are at least as long as their headers and
laid one after the other):

* The invariant is `IInv`: types, `Aligned`, `HelloFirst`, and `ChunkingIndependent`.
  It is inductive because a length is only ever read at the start of a frame
  (`SizeAtStart`), where a frame is complete exactly if its end has been
  received (`CompleteFrame`), and if the next frame is not complete no later one
  is (`NothingComplete`). `FramesAligned`, `HelloHandledFirst` and
  `FramesComplete` follow.

`ClientProofs` (assumption: `nullptr` is no handle and no timer, there is a
handle):

* `ClientTypes`, with the type invariant in three parts, since an action
  disturbs one or two of them. The bound of 64 seconds is in it.
* `CallsInOrder` and `NoCallLost` need each other: that the order is increasing
  is kept by a new call only because all earlier numbers are smaller
  (`CallsAccounted`), and that nothing is both queued and written only because
  the order is increasing. Both need that a socket whose handshake is over
  leaves nothing queued, and that what was asked on it was written: a call then
  overtakes none. The conjunction is `CallInv`. Only the
  handshake, `invoke()` and a response change a call at all (`CallCases`), and
  the proof has one case for each.
* `ClientKeepsLedger`: each of those is a step of `CallLedger`, the others
  stutter.
* `FlagsAgree` is inductive together with the types.
* `TimerIsArmed` needs one more fact (`TimerInv`): a stopped client has no
  pointer to a timer. Otherwise a `reconnect()` after `stop()`, which resets the
  failures and starts no timer, would leave the pointer with a delay that the
  failures no longer call for.
* `OneAttempt` and `HealthyHandlersNeverThrow` assume that no hello is refused and that
  the application does not call `reconnect()`. They are inductive together with
  `FlagsMirrorHandle` (`HealthyInv`): the handle that closes is the only one, so
  its CloseEvent finds no timer armed and no other stream to stop, and the
  ConnectEvent that comes is that of `*sock`. The second leaves two ways for the
  process to end, both named in the property and both the application's.

`ServerProofs` (assumption: `nullptr` is no connection):

* Most steps do no more to the streams than stop sockets and end an
  `on_data()`. `Narrowed` says so, and the invariants of the requests, of the
  established clients and of the calls to clients are kept by every such step
  that leaves their own variables alone; the others are taken one by one.
* `FlagsAgree` is `StreamInv` with the types of the streams.
* `RequestsAnsweredOnce` needs that a method is started only after the handshake
  flag was set (`RequestInv`).
* `RefusedGetNothing` needs an invariant the code relies on and does not state:
  after a refusal `on_data()` goes on and sets `_handshake_finished`, and what
  keeps the refused client from being served is that the socket was stopped
  before. Hence `handshake_finished \cap is_connected \subseteq established`
  (`ServedInv`).
* `PeerCallsAnsweredOnce` adds that what was asked has a number already used
  (`PeerInv`); a response then finds its promise at most once.
* `SyncHandlersNeverThrow` assumes methods that answer before they return: no
  method is then ever running between two steps, so nothing but the factory
  throws outside `on_data()` (`SyncInv`).

`HandshakeProofs` (assumption: the names in a list are unique, which the code's
maps from names to ids take for granted):

* The id of a method is its place in the list (`IdIsPlace`), so comparing the
  signature found under a name is the same as looking for the method
  (`SupportedIsMember`), and the server's verdict is inclusion of both lists
  (`VerdictIsRight`).
* The invariant `IInv` says what each phase knows of the two maps; all three
  theorems follow from it.

* `HandshakeTypes` adds what `IInv` leaves open of the replies and of the
  client's map, which outlives its connection.

`PromiseProofs` (assumption: the bound on promises is a number):

* `IInv` joins all properties, since each needs the others. Three facts carry
  it. `Ordered`: nothing happens to a result before its source is settled.
  `Pending`: nothing has happened yet to the result whose continuation is due.
  `Nesting`: the continuations on the stack are different ones, each ran once,
  and their results are open. That a continuation runs at most once follows,
  because it runs only when it is pending.
* A step that settles a promise, be it from outside, by an exception that is
  handed on or by a continuation that returns, is one lemma
  (`SettleKeepsIInv`); one that unwinds the stack is another.
* `ExactlyOnce` speaks of a promise's only continuation, which `OnlyIsLast`
  shows to be the one in `callback`.

`ListenersProofs` (assumption: `None` is no process and no path, paths are not
ports):

* `Owners`: a file is that of a process which will remove it, or which was
  killed; what a process listens on it will remove.
* `Orderly`: unless a path was bound too early, what a process will remove is its
  own, and what it has yet to close after that has no file. `FilesStay` follows:
  while nobody is hasty, closing a listener unlinks nothing. A second `stop()`
  is harmless because the first one emptied both lists.
* `Alone`: while no process starts during another, at most one serves, and an
  address it is done with it either listens on, or has left to the file of a
  killed process (`LeftBehind`). `CrashesCostPaths` is that; `RestartsListen`
  adds that without a crash nobody was killed.

`RpcSystemProofs` (assumption: `Script` is a sequence of the two methods,
`MaxFaults` a number, `None` no handle, timer or connection):

* `NobodyAborts` needs only that what connects is the open socket of the client
  (`ClientQuiet`), and that the server's methods have returned (`ServerQuiet`).
* `SystemInv`, for the calls of the client. The numbers it gives out increase,
  so everything that is on its way or was executed is smaller than everything
  that waits (`NumbersInv`); hence a queue written to a new connection puts
  nothing there that was written before. Streams are in order and share no call
  (`StreamsInv`), and what was executed is on no stream and came before what is
  (`ExecutionInv`). `CallsExecutedInOrder` follows, and that no call is executed
  twice; that none is answered twice, or before it was executed, needs
  `AnswerInv`. `CallsExecutedAtMostOnce` is the refinement of `RemoteCalls`.
* `BackwardInv`, for the calls to the client, whose numbers start over on every
  connection: a pair of connection and number was asked once (`DownInv`), called
  a method of the client once (`ServedInv`), and only that method answers it
  (`ReplyInv`). `CallbacksExecutedAtMostOnce` is the same refinement.
* What a step does to a stream is stated once for `Taken`, `Put` and the flush
  of a queue; most steps then only take messages away (`Shrinks`,
  `PassingKeepsInv`).

* `AnswersFindTheirPromise` and `NothingLostInFlight` say what neither side can
  know by itself: they relate the client's promises, the server's promises and
  both streams of a connection. Neither is inductive, and they are proved from
  one invariant, `FlightInv`, which adds four things to `SystemInv` and
  `BackwardInv`.
* `EndsInv`: which ends are open. Every connection that was lost took a fault
  (`LinkInv`), so that the one the client uses is the last; before it is made
  nothing is known of it, and before the server has accepted it nothing was asked
  on it (`FreshInv`). A new connection therefore starts with nothing in flight.
  `ConnectionsSuffice` is a part of it.
* `BooksInv` and `ForInv`: what waits has its promise, and a call made for the
  server is never queued, because `say_good_bye()` runs inside `on_data()` of a
  connected socket. This is why the reply goes out on the connection that asked.
* `OnceInv`: no answer is on a stream twice, so that taking it leaves no other.
* `ForwardInv` and `CallbackInv`: what is on its way is waited for, and while the
  server has its end open what is waited for is on its way: as a call, as an
  answer, or, for a call to the client, as a call of `echo_v1()` that is on its
  way itself. Each step moves one call from one of these places to the next or
  none (`ForwardStep`, `CallbackStep`), and what closes an end may forget what
  was on the connection (`CalmKeepsFlight`).
* `ClientIsClient` and `ServerIsServer`: every step of the composition is a step
  of `Client` or leaves it alone, and the same with `Server` but for the death
  and the start of its process. What TLC and the other proofs show of either
  module thus holds in the composition.

`CodecProofs` (assumptions: a byte has at least two values and a length at least
one byte; a type is made of types before it in the table and of as many as its
kind takes; frames start with an unsigned number):

* `Faithful(c)` is what the overloads for a type promise: every value can be
  written; what was written is read back with whatever follows it left over, and
  a value that is not readable throws; if reading gives a value, the bytes were
  those written for it and what is left; bytes that end too early throw; and
  undefined bytes stay so with more bytes after them. Each clause needs the
  others once codecs are nested.
* All overloads for templates read one part and choose what follows by its
  value: the size of a vector, the index of a variant, the first of a pair, the
  elements so far. `ChainedFaithful` shows once that this keeps `Faithful`;
  each overload is then an instance of it (`VectorFaithful`, `VariantFaithful`,
  ...), with an induction over the number of elements. Numbers are digits in base
  `Base`, whose writing and reading undo each other (`UnsignedFaithful`).
* `CodecFaithful`: by induction over the table every type is faithful. Induction
  is over the set of the places, or numbers, for which a fact holds, since the
  provers cannot instantiate a theorem about a predicate.
* `CodecInv` says that what was sent is what is written for the value, and
  is all that steps keep. `CodecRoundTrip`, `CodecCanonical` and
  `CodecSelfDelimiting` are the clauses of the contract, for the whole of a
  message; `CodecFrameSpellsLength` adds that the bytes after the size field, and
  with them the length, do not depend on the number in it (`FrameShape`).
* `Agrees(c, d)`: what c writes, d reads as the same value with the same bytes
  left over, or as nothing defined if it does not have the value. Every codec
  agrees with itself, `bool` with the unsigned number of one byte, and templates
  agree if their parts do (`PairAgrees`, `CountedAgrees`, `VariantAgrees`, ...):
  of a variant only the first alternative counts, since no other is ever read.
* `TextTells`: two texts that are equal, whatever follows either, are of types
  that agree, and so is what follows. One cannot say less for a part of a type,
  whose text ends nowhere visible. The first token tells the kind of a type
  (`SameFirst`) and no type starts with a bracket that closes (`NoneSaysClose`),
  so that two lists of parts are of one length. A tuple shares its brackets with
  the tuple of its other elements, for which `TupleTells` says the same of what
  is between them. The induction is over the table, with one over the
  alternatives of a variant in it (`PartsTell`). `CodecSignatureAgrees` follows
  for messages.

Every safety and action property of a passing run is proved. Only model-checked:
the liveness properties, because the prover handles neither fairness nor
ENABLED. Theorems about `Client` and `Server` are not cited in the proofs about
`RpcSystem`, although it instantiates both: the prover does not take theorems
from an instance, so these proofs state what they need of either.

## What was found

* **A refused hello makes two attempts.** `on_incoming_handshake()` calls
  `reconnect(true)`, which closes the handle; its CloseEvent, whose listener
  stays, calls `reconnect(true)` again. Two timers are armed and `timer` knows
  one. The second connection replaces the first without closing it, and a
  ConnectEvent of the one left over writes on a socket that is not connected:
  the exception leaves the loop. `client_refused` shows it, against the comment
  that a refusal is followed by an attempt to reconnect. Calling `reconnect()`
  while connected does the same.
* **The application can end the process in three ways the library does not
  guard.** The catch clause around `on_data()` (`socket.hpp:102`) takes only
  `std::exception`; a method of the client that answers in a later callback
  (`client.cpp:100`) throws into the loop if its connection is lost by then; and
  the factory of the server's objects runs in a ListenEvent (`server.cpp:12`),
  where nothing is caught, also what `at()` throws if it calls its client. No
  text of the repository says otherwise, so these are the outcomes that
  `OwnHandlersNeverThrow` allows, by name. The server has a fourth, a method
  that answers after its client has gone, once `Async` is set.
* **`stop()` has a window.** It removes the paths first and closes the listeners
  then, and closing one unlinks its path again. A process that starts between
  the two loses the file it has just made and cannot be reached. `hasty` is this
  case: without it in the premise, TLC finds `ListenersReachable` violated.
* **A killed server costs its successors their UNIX sockets** until somebody
  removes the files (`server.cpp:203`); they start without an error.
  `CrashCostsItsPaths` says that this is all it costs; `CallsComplete` of the
  composition needs `~stale` for it, and TLC finds it violated without.
* Three facts the models keep, which no text of the repository contradicts:
  a variant that does not hold its first alternative can be written and never
  read (`RoundTrip` says so); `bool` has the text of `uint8_t`, so that the
  handshake accepts one for the other (`SignatureAgrees`), and a number which is
  neither 0 nor 1 is then read as a bool, with no defined value, also where the
  sender's type has bools in other places; a call that was
  written on a connection that is lost is never answered nor written again
  (`CallsAccounted` keeps its promise in the map).

## What is not modelled

* The end of the client's life while handles remain: main() destroys it after
  its loop has ended.
* Name resolution and the choice between TCP and UNIX sockets, which only decide
  the kind of the handle; resolution that fails is `FailToResolve`.
* A socket that was replaced without being stopped, when a method still holds it:
  see `Client`.
* The order in which static members are initialized. The texts of types
  (`serialization.hpp:262`) are static members of templates, made of one
  another, and C++ does not order them; `TypeText` takes them for a function of
  the type, which assumes that each is there when another is made of it.
* `operator|` from a continuation on a promise whose callback has not returned,
  and a continuation that catches what an inner one throws. Values of promises,
  so that a second continuation which is given a value that was moved away is
  not seen to differ, and the templates that deduce the types of continuations.
* What a handler does with the null reference that `async.hpp:70` hands it: the
  effect is undefined, and nothing in the repository says which handler is meant
  to run. `Promise` ends there (`dead`).
* Macros and templates of `reflection.hpp`: they run at compile time; the lists
  they make are the inputs of `Handshake`.
* `store` and `retrieve` of the registry, which are declared and not
  implemented; the parsing of configuration files.
* The broker, which is a stub, `identity.hpp`, which is unused, `config.hpp`,
  which is empty.

## Plan

Done, in the order of importance: `Client` with its ledger, `Framing`,
`Handshake`, `Server`, `Promise`, `Serialization` with `Codec`, `Listeners`, `RpcSystem` with
`RemoteCalls`, and the proofs about all of them. What is left:

1. `RpcSystem` over a server that is replaced by another version (`Upgrade` of
   `Handshake`), so that calls that waited meet methods with other ids.
2. The registry's methods and the broker's queue, once they are implemented.
