# A TLA+ model of rest_rpc

rest_rpc is a header-only C++20 RPC library on top of asio coroutines
(`src/include/rest_rpc`). This project models the parts of it where order and
concurrency decide what happens: the server side of a connection, the life of a
server and its thread pool, the expiry of idle connections, the router and the
client; and the pure functions both sides must agree on: the header's byte
order and the codec. TLC checks the models on small
instances; TLAPS proves every safety property of the passing runs, and both
refinements, for every instance.

The library has 2300 lines. The rest of the repository, 186 thousand lines of
asio and ylt under `src/thirdparty`, is third-party code that the models take by
what the library relies on.

## The system

| Part | State | Operations | Talks to |
|---|---|---|---|
| `rpc_connection` | socket, `has_closed_`, `topic_id_`, the `start()` coroutine | `start`, `response`, `close` | router, `tls_data`, registry (quit callback) |
| `tls_data`, `rpc_context` | per thread: `conn_`, `delay_`; per context: `conn_`, `has_response_` | context constructor, `response` | the connection found in `tls_data` |
| `rpc_server` (registry, publish) | `conns_` under `conn_mtx_` | quit callback, `check_timeout`, `publish`, `stop` | every connection, from other threads |
| `rpc_server` (lifecycle) | `has_stop_`, once flags, `thd_`, acceptor, check timer, a static error code | `start`, `async_start`, `stop`, `accept`, timer | `io_context_pool`, application threads |
| `io_context_pool` | io_contexts, work guards, one thread per io_context | `run`, `stop` | everything that is posted to it |
| `rpc_router` | `map_invokers_`, `key2func_name_` | `register_handler`, `remove_handler`, `route` | handlers |
| `rpc_client` | socket, `has_closed_`, `sub_ops_`, `should_reset_` | `connect`, `call_for`, `subscribe`, `close`, watchdogs | a server, over TCP |
| `rpc_server` (expiry) | `need_check_`, `timeout_duration_`, `check_duration_`, `check_timer_`; per connection `checkout_timeout_`, `last_rwtime_` | `set_conn_max_age`, `set_check_conn_interval`, `start_check_timer`, `check_timeout` | connections |
| `rest_rpc_protocol` | none | `prepare_for_send`, `parse_recieved` | client and connection |
| codec | none | `pack_args`, `unpack`, `get_buffer` | client and router |
| md5 | none | `MD5Hash32` of a name | client and router |
| traits, function_name, logger, string_resize | none | compile-time or logging | - |

What is hard about it:

* An io thread serves many connections. Their coroutines interleave wherever one
  suspends, but `tls_data` belongs to the thread: the delay flag that tells
  `start()` not to answer, and the connection an `rpc_context` picks up, are
  written by all of them.
* A frame carries no sequence number. Client and server agree on which answer
  belongs to which request only through order, and through closing the socket
  whenever the order is lost.
* The read loop, delayed responses and publishers write to one socket, and the
  read loop, failed writes, the check timer, `stop()` and clients all close it.
* `stop()` joins threads that run as long as any operation is pending anywhere.
* A call races its watchdog; a subscribe waits for two things at once.
* Each `set_conn_max_age()` starts a coroutine on one shared timer.
* A handler can be removed, and its name registered anew, while it is suspended;
  names are kept by a 32-bit key only.
* A call is packed by the types of its arguments and unpacked by those of the
  handler's parameters, one argument by a format of its own.

`PROJECT.json` lists the hazards line by line with the properties that cover
them, the source lines of every definition, the runs, the mutants (a plausible
bug per property, defined next to the definition it replaces) and the theorems.

## Modules

### RpcConnection

Connections as `accept()` leaves them. A step is the code between two suspension
points. `running[t]` is the connection whose handler holds io thread `t`; while it
does, no other coroutine of the thread can be resumed (`Idle`). `pc[c]` is where
`start()` of `c` stands; `armed[c]` says that its pending read was begun on an open
socket. `tls_conn` and `tls_delay` are `tls_data` per thread. `contexts` holds the
`rpc_context` objects, each with the request that created it, which the code does
not record and the properties need. A write puts the first part of its frame on `wire[c]`
when it starts and the last part when it completes, so that two overlapping
`async_write`s can be seen to mix. `close()` on the connection's own thread is
inline (`CloseHere`), from another thread it posts a lambda (`PostClose`,
`PostedClose`). Handlers may suspend, create contexts and return at will; `route()`
catches what they throw, so a return and an exception are the same step, but for a
handler whose context dies with the exception (`ThrowDelayed`).

`Usage` says what clients and handlers do beyond the plain call. The plain use is
`Usage = {}`: a client waits for its answer and uses a connection either for calls
or for a subscription, a handler creates its context before it first suspends, and
does not suspend while it has one. `Contract` is what the properties of the
response need: no copies of a context, no exception out of a handler that has one,
and, where connections share an io thread, none of `"late"` and `"suspend"`.

### RpcServer

One server: application threads in `start_impl()` and `stop()`, the `accept()`
coroutine, the check timer, and every io_context on its own. `Work(k)` is what
keeps `io_context::run()` from returning; a `"stopped"` io_context runs nothing
again, as in the code, where nothing restarts it. `accept()` is split where another thread can
come between: `AcceptConn` (the operation completed) and `AcceptRegister` (the
connection enters `conns_`, its `start()` is spawned). `AcceptError` is an error of
`async_accept` that `accept()` does not expect. `OtherStart` is the start of
another `rpc_server` of the process, which writes the same static error code.
`Overlap` says what may coincide with `stop()`. Two threads that pass the
`has_stop_` test of `stop()` together (both would join `thd_`) and a `stop()` called
on an io thread are excluded.

### RpcClient

One `rpc_client` used by one coroutine at a time. `io[o]` is where `call_impl()` or
`wait_response()` of operation `o` stands, `timer[o]` its watchdog: `"fired"` if it won the
race, `"late"` if it expired although the answer had won, which the code allows
and which closes the socket after an ok result. `sub_ops[t]` is `"armed"` while the
sub_operation has a handler to run and `"fired"` once it has run it. A client that is
reset but not connected has `impl = "closed"`: reads and writes fail on it either
way. The server is reduced to what it runs and sends. `Route` is `route()` for one
request: an unknown function is answered `no_such_function` and not run, arguments that do
not unpack end in the code of an exception before the function is entered, and the function
itself may throw after; `executed[o]` counts how often it was entered. A frame written before the
client closed may still be read by the server of the old connection (`orphans`).
A body that does not unpack as the result (`UnpackThrows`) leaves a call to its watchdog and
a subscribe waiting for its sub_operation. Peers that do not speak the protocol send
bytes that are no frame.

`RemoteCall` is what an application may rely on: a function runs at most once per
call; `ok` means that it ran, `no_such_function` and `write_error` that it has not and never
will; after `function_exception` or `function_unknown_exception` it may have run, or its
arguments were refused, but it will not run any more; after any other error it may have run
or still run. `IsRemoteCall` is the refinement; a call
is `"invoked"` until it returns and then has its error code as state.

### RpcRouter and HandlerRegistry

`map_invokers_` and `key2func_name_` by key, where a registration is numbered so that
a handler and its successor under the same name can be told apart. A call of
`route()` looks its key up once and keeps the handler while it suspends and resumes.
`Stateful` names have handlers that are lambda coroutines with captures; these live in the map entry,
and `dangling` records that one was resumed after the entry was gone. The code does
not keep an application from removing such a handler (`RemoveLive`).
`HandlerRegistry` is the same by name and with nothing but the handler of each
name, and the name each call asked for with the handler it runs. `ImplementsRegistry` maps a name to the entry
under its key.

### RpcExpiry

A discrete clock, the coroutines of `start_check_timer()` that wait on the one
timer, and for each connection when it began its last read or write (`begun`), which
is what `last_rwtime_` should be. `expires_after()` cancels the wait of every other
coroutine, which then ends. Time passes only while no coroutine of the
timer can run, so the delays of a loaded io thread come on top of the bounds that
`ReapedInTime` and `StopBounded` state. A connection's own steps take place at any time.
Two inputs the code accepts are left out. With an interval of zero the loop would check
without a pause and discrete time would not pass, so intervals are positive
(`ExpiryAssumption`). And `set_conn_max_age()` is called before `stop()`: afterwards its coroutine
ends at its first expiry or is never run. `RpcServer`, which has no clock, lets it be called at any time.

### RpcProtocol

A word is a function from the significance of a byte to the byte, memory and wire
are by address, and `htonl` is what it is on each host. One request and its
response go between two hosts; byte orders and settings are those of the
initial state.

### RpcCodec

One call: the arguments' types are any from which the parameters can be
constructed, and each is a temporary or an lvalue; the handler answers by what it returns or by
`response_s()` of a context, with a temporary or an lvalue. What rounds or fails gives a set of outcomes. Integer types have small
ranges; a double counts steps of 1/`Scale`, of which its text keeps every `Kept`-th.

Whether a value travels as text or as a struct_pack image is decided by `is_basic_v` of its
deduced type. For an lvalue that is a reference, and `std::is_fundamental_v<int&>` is false
(`traits.h:216`): a lone number passed as a variable is packed as an image (`AsImage`), while
the side that unpacks tests the declared type and expects text. `from_chars()` then reads the
type code with which the image begins. Compiled with g++ 12 on x86-64, the image of a tuple of one
`int`, `long` or `double` begins with the bytes 99 dd, 45 d8 and e3 92, and that of an `int` or a `double`
result with 09 40 and 19 56: no digits, so it is refused. That of a `long` result begins
with 35 68, the characters `5h`, and is read as 5. `CodeNumber` gives
these numbers by type, and the theorems hold for any; `response()` is modelled for the types that
`response_s()` lets through.

### MC modules and proofs

`MCRpcConnection` and the other `MC` modules give the constants of the runs their
values. `RpcConnectionProofs`, `RpcRouterProofs`, `RpcProtocolProofs`, `RpcExpiryProofs`,
`RpcServerProofs`, `RpcClientProofs` and `RpcCodecProofs` hold the theorems about their
module, and `RpcConnectionOrderProofs` those about the order of answers and the frames of a
connection. The inductive invariants are defined at the end of the modules
they are about, in named parts, and the runs check them too, but for
`CodecInv`, which is only proved.

## What the runs show

| Run | Result |
|---|---|
| `conn_calls` | plain use, two connections on one io thread, two requests each: answered once, in order, on the right connection, and in the end; `std::string_view` arguments last until the response |
| `conn_publish` | one connection, a publisher, and handlers that copy, throw away, create late or abroad and suspend with their contexts: frames stay whole, `tls_data` stays with its thread, `conns_` follows the sockets |
| `conn_stolen_delay` | violated: a handler suspended with a context loses its delay flag to another connection and is answered twice |
| `client_use` | calls or one subscription through timeouts, refused requests, lost connections and reconnects: own results only, one completion, every call returns; implements `RemoteCall` |
| `client_resubscribe` | violated: after a reconnect the topic is not sent again |
| `server_lifecycle` | `stop()` and `start()` return, a stopped server has no thread, acceptor, connection or socket left, a start that cannot listen says so, and `accept()` goes on until `stop()` if `tcp_no_delay` is off |
| `server_accept_race` | violated: a connection accepted during `stop()` keeps it from returning |
| `router_names` | the router implements `HandlerRegistry`; calls run handlers of their own name |
| `protocol_header` | peers of one byte order and setting understand each other; across byte orders, with `cross_ending` on, the function id arrives and the body length has its halves exchanged |
| `expiry_rules` | one timer loop however often the age is set; idle connections are dropped in time, busy ones kept; the loop ends within an interval of `stop()` |
| `codec_types` | matching types arrive intact, up to the decimals a lone double loses and but for a lone lvalue number; a lone integer is never cut |
| `codec_lvalue_argument` | violated: a lone number passed as an lvalue of the declared type is refused |

The violated runs each state what a test, an assertion, an error text or the README says; the
quotation is in `PROJECT.json`.

**Where the properties stop.** The passing runs check the uses the library is made
for. These uses break a property, as a change of a constant shows:

| Change | Violated | Why |
|---|---|---|
| `RpcConnection`, `Usage = {"late"}`, two connections on a thread | `RightConnection` | a context created after a suspension takes the connection last set on the thread (`rpc_connection.hpp:215`) |
| `RpcConnection`, `Usage = {"throw"}` | `NoLostResponse` | a handler that throws after it created a context leaves the delay flag set, and the error is dropped (`rpc_connection.hpp:108`) |
| `RpcConnection`, `Usage = {"copy"}` | `AnsweredOnce` | every copy of a context has a `has_response_` of its own (`rpc_connection.hpp:47`) |
| `RpcConnection`, `Usage = {"pipeline"}` | `ResponseOrder`, `ArgumentsValid`, `FramesIntact` | the loop reads on while a context owes a response (`rpc_connection.hpp:108`) |
| `RpcConnection`, `Usage = {"mixed"}`, or two publishers | `FramesIntact` | nothing in `response()` queues the writes to a socket |
| `RpcRouter`, `RemoveLive = TRUE` | `OwnHandler` | `remove_handler()` destroys the captures of a suspended handler (`rpc_router.hpp:55`) |
| `RpcClient`, `Roles = {"mixed"}`, `MaxPub = 2` | `OwnResult` | a publication is taken for the answer of a call (`rpc_client.hpp:252`) |
| `RpcServer`, `Overlap = {"accept"}` | `StoppedQuiet` | a connection that is accepted during `stop()` is still registered when it is back (`rpc_server.hpp:208`) |
| `RpcServer`, `Overlap = {"start"}` | `StoppedQuiet`, `StartReturns` | `accept()` is spawned on an io_context that has run out of work (`rpc_server.hpp:227`) |

Five properties state an exception that the code needs, each a hazard in
`PROJECT.json`. `SubscribeFails`: after a write error `call_impl()` does not wake the
sub_operation, nor does a publication that does not unpack, and `subscribe()` never comes
back (`rpc_client.hpp:201`, `249`).
`StartTruthful`: the error code is one static variable of all servers, and a start of
another one overwrites the failure (`rpc_server.hpp:220`). `ServesUntilStopped`: with
`tcp_no_delay` on, the default, `set_option()` throws after a failed accept and ends
`accept()` (`rpc_server.hpp:179`). `KeptWhileActive`: a connection accepted before the first
`set_conn_max_age()` takes no time stamps (`rpc_server.hpp:185`). And `Faithful` excepts a lone
number that is an lvalue, as an argument and as a response (`traits.h:216`). `codec_lvalue_argument` shows
the argument refused; the response is refused by the caller, or read as the number its type code begins
with, and the call reports ok with that. `Faithful` also promises acceptance for arguments of the declared types only: `f(int, double)` called with two ints passes the
assertion at `rpc_client.hpp:108` and is refused by the server.

`HeaderUnderstood` has no exception but says where `cross_ending` falls short: `htonll()` exchanges the
halves also where `htonl()` is the identity (`rest_rpc_protocol.hpp:11`), so a big-endian and a
little-endian peer disagree on every body length whose halves differ. The test of the option
(`tests/test_rest_rpc.cpp:402`) runs both sides on one host and cannot show it.

**Bounds.** Two connections are what it takes for one to disturb another, two
requests for a flag to survive the request that set it and for order to matter, one
suspension for another connection to come between, two publications for a
publisher to overlap itself. What a publisher and the closers do to a connection
needs no second one, so `conn_publish` has one. Three client operations and two connects let an
answer arrive after its call, the next call and a reconnect; the second connect is the first
to reset a used connection, and the proofs have no bound. Two io_contexts separate
the acceptor from connection and timer, three calls are a start, a stop and one
more of either. A context has at most one copy. Two names, one of them with captures, four
registrations and two calls let a name be removed and registered twice under a
suspended call. Connections do not affect each other in `check_timeout()`, so
`expiry_rules` has one; three calls of `set_conn_max_age()` let a coroutine start
while one waits and another has expired, and the clock runs for three longest
intervals and more. Integers of two and three bits have values that fit and do not fit; the decimals
are exact ones and ones that round up, down and through zero. Header bytes are
all different, so any exchange shows. Deadlock is not checked: with its bounds reached, or its clients
silent, the system may stop.

**Fairness.** Threads are scheduled and an io_context that runs executes what is
ready: completed operations, posted lambdas, expired timers. Handlers return, and
the application answers each context it created. A write completes or fails. There is
none for what others decide: requests, publications, connects, disconnects,
calls of `start()` and `stop()`.

## What is proved

The theorems hold for every value of the constants: any connections, threads, topics, publishers,
names, calls, types, and any bound. What they assume of the
constants is the `ASSUME` of each module, which the runs evaluate: that the values
meaning "none" are none of the others, that functions have the right domains, that
bounds are numbers, and in `RpcExpiry` that one of the intervals is the longest. Hypotheses
about the use of the library are written in the theorems.

| Theorems | Hypotheses |
|---|---|
| `RpcConnection`: `TypeCorrect`, `RegistryExactHolds` | none |
| `AnsweredOnceHolds`, `RightConnectionHolds`, `NoLostResponseHolds`, `TakeoverInvHolds` | `Contract` |
| `ResponseOrderHolds`, `ArgumentsValidHolds`, `WaitInvHolds` | `Contract`, clients wait (`"pipeline"` not in `Usage`) |
| `FramesIntactHolds`, `FramesInvHolds` | `Contract`, `OneWriter`: clients wait and are not `"mixed"`, at most one publisher |
| `RpcServer`: `TypeCorrect`, `StartTruthfulHolds`, `ServesUntilStoppedHolds` | none, so for any `Overlap` |
| `StoppedQuietHolds`, `StopInvHolds` | `Overlap = {}` |
| `RpcClient`: `TypeCorrect`, `ClientInvHolds` | none, so for any `Roles` |
| `OwnResultHolds`, `NoDoubleCompleteHolds`, `ClientImplementsRemoteCall` | `"mixed"` not in `Roles` |
| `SubscriptionKnownHolds` | that, and `~Resubscribe` |
| `RpcRouter`: `OwnHandlerHolds`, `RouterInvHolds`, `RouterImplementsRegistry` | `Contract`: keys that differ, no handler with captures removed under a call |
| `RpcExpiry`: `OneCheckLoopHolds`, `ReapedInTimeHolds`, `StopBoundedHolds`, `KeptWhileActiveHolds`, `ExpiryInvHolds` | none |
| `RpcCodec`: `FaithfulHolds`, `NoTruncationHolds` | none |
| `RpcProtocol`: `HeaderUnderstoodHolds` | none |

Apart from the assumption that the router's keys differ, which no run relaxes, each
hypothesis has a run or a line in the tables above that shows a property violated
without it.

**Takeover** (`RpcConnection`). None of `AnsweredOnce`, `RightConnection` and
`NoLostResponse` is inductive: whether the loop may answer depends on a flag of
the thread. `TakeoverInv` relates the flag to the requests. A running handler holds
its thread (`ThreadHeld`); the flag is set exactly while a handler in progress
there has a context, and on a shared thread no suspended handler has one
(`DelayMeansContext`); where a handler may create a context, `tls_conn` is its own
connection (`TlsConnection`); a request has at most one working context, on its own
connection (`ContextsOwned`); a context that has responded has its frame on the
stream (`RespondedOnWire`); and a frame of the loop belongs to a finished request
without context, one of a context to a request whose context has responded
(`WireOwned`). `RegistryExact` needs that a posted close without callback is only ever
posted for a connection that has left `conns_`.

**Order and frames** (`RpcConnection`). That a client waits is a condition on what
it has read; the properties are about what the server still holds. `WaitInv` connects the
two: a pending answer was taken over by its writer, is the only one of its request
and has no last part on the stream yet (`WritesOwned`, `TailsFollow`), so that a client that has
read its answer leaves no context and no write behind (`SettledQuiet`), and every answer that
is begun is that of the latest request. `FramesInv` adds the publisher: a
connection is used in one way (`OneUse`), a publisher waits for each write (`PubAwaited`),
a subscriber not yet visited has nothing of the publication (`PubFresh`), and a frame that
lacks its rest is still being written unless the socket is gone (`LastPending`). With these a
write starts only when none is pending, and the first part of the frame whose write completes is the last thing on
the stream.

**Client.** `ClientInv`: one operation is in flight, it has written at most one frame,
and what is on the links belongs to the connection that is open (`OneAtATime`, `SentOnce`,
`FreshStart`, `BodyFollows`). For a caller, at most one frame is under way between the two
sides and it is the pending call's, because every way out but a complete answer closes the
socket (`OneFrame`); and a call that `route()` has answered is on no link and at no old server
any more, so that what its code says of the function stays so (`Settled`, `Answered`). For a subscriber, every frame is of its topic and its
sub_operation is armed while a frame is awaited (`OneTopic`, `SubWaits`); if it never
reconnects, the server has the topic or the frame is on its way (`ServerKnows`). The
refinement maps each step to a step of `RemoteCall` or to none; it needs `OneFrame` to know that the
answer that completes a call is that of `route()` to this very call, and `Settled` to know that the function does
not run after the call has reported an exception or `no_such_function`.

**Server.** `StopInv`: one `stop()` is under way, and from where it stands it has already closed
or released all that the io_contexts it has not yet joined live on (`StoppedOnce`, `StopLeaves`); an io_context
that ran out of work never gets work again. `StartedOnce` and `AcceptorServes` carry
`StartTruthful` and `ServesUntilStopped`.

**Expiry.** `ExpiryInv`: at most one coroutine waits, and what is ready to run is so at the time that
made it ready; the expiry of the timer is no later than one longest interval from
now (`LoopsInTime`, `OneWaits`), and every connection in use is young enough for that check to come in
time (`CheckDue`). Time stamps are those of the last read or write for connections that take them (`Stamped`).

**Router.** `RouterInv`: under each key there is an invoker and a name or neither, both of
one registration made under that key, and what a call with captures runs is still
in the map. The first part makes "free" mean the same by name and by key; the last
carries `~dangling` over a suspension.

**Codec and header.** `CodecInv` says that what one side unpacked is an outcome of what the other
packed; the properties follow by lemmas on `pack_args`, `unpack` and the parsing of
numbers. For the header, `ntohll` undoes `htonll` on either
host, `htonl` makes the image of a 32-bit word independent of the host, and
what is on the wire was encoded by its sender from what it meant (`InTransit`).

Only model-checked: the liveness properties (`EventuallyAnswered`, `CallReturns`,
`SubscribeFails`, `StopReturns`, `StartReturns`), since liveness under fairness and ENABLED are out of reach of the
prover, as are induction over data and modules with RECURSIVE operators; none of
the modules declares one.

## What is not modelled

* asio and ylt: third-party, taken by what the library relies on.
* `sync_wait()`, which blocks a thread on a coroutine, and the global io_context
  pool, which never stops.
* md5: a pure compile-time hash of a name. Only the equality of its value on both
  sides matters, and both run the same code; the key of a name is a constant.
* Type traits, `function_name`, the logger and `string_resize`: no state at run time.
  One thing was noticed there: `handle_more_args()` tests `std::is_void_v<R>`
  (`rpc_router.hpp:206`) where its siblings test `is_void_v<R>`, so a coroutine with two
  or more arguments that returns `asio::awaitable<void>` does not compile.
* A user's own `serialize()` and `deserialize()`, and `response()` with a value of another type
  than the function returns, which nothing checks.
* A handler that never returns, a `stop()` on an io thread, and what C++ gives no
  meaning to: concurrent registration while io threads route, two joins of `thd_`.
* Operations issued concurrently on one client: they share `body_` and the stream, and nothing
  in the code or its documents says what they should do.
* Steps of `system_clock`, by which `check_timeout()` measures age.

## Plan

1. Proofs without a hypothesis where the code allows one: `NoLostResponse` and `FramesIntact` for connections
   whose own handlers keep the `Contract`, whatever those of the others do.
2. Two operations in flight on one client, if a use of it is ever documented.
