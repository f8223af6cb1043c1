------------------------------ MODULE RpcClient ------------------------------
(***************************************************************************)
(* One rpc_client used by one coroutine at a time: connect() with its      *)
(* reset and its watchdogs, call_for() racing a watchdog, subscribe()      *)
(* waiting for both a frame and its sub_operation, and close().  The       *)
(* server at the other end is reduced to what it sends: the answer to each *)
(* request in order, publications of the topic it last recorded for the    *)
(* connection, or bytes that are no rest_rpc frame at all.                 *)
(***************************************************************************)
EXTENDS Naturals, Sequences

CONSTANTS
    Topic,        \* topics a client may subscribe to
    NoTopic,      \* the server has recorded no topic for the connection
    Roles,        \* what a client is used for: "caller", "subscriber" of one
                  \* topic, or "mixed": calls and subscriptions of any topic
    Resubscribe,  \* TRUE: a subscriber connects again and goes on subscribing
    MaxOps,       \* bound: calls and subscribes issued
    MaxConnect,   \* bound: calls of connect()
    MaxPub        \* bound: publications

ASSUME ClientAssumption ==
    /\ Topic \cap {NoTopic, "call", "none"} = {}
    /\ Roles \subseteq {"caller", "subscriber", "mixed"}
    /\ Resubscribe \in BOOLEAN
    /\ MaxOps \in Nat /\ MaxConnect \in Nat /\ MaxPub \in Nat

VARIABLES
    role,         \* what this client is used for
    connect_pc,   \* "idle", "resolve", "connect": where connect() stands
    connects,     \* calls of connect() so far
    should_reset, \* should_reset_
    impl,         \* socket_->impl_: "open" or "closed"
    has_closed,   \* socket_->has_closed_
    sub_ops,      \* sub_ops_ by topic: "absent", "armed" or "fired"
    ops,          \* operations issued so far; the last one may be in flight
    kind,         \* "call" or the topic of a subscribe, per operation
    io,           \* call_impl()/wait_response() of the operation
    timer,        \* the watchdog of a call
    result,       \* the call_result an operation returns
    returned,     \* the operations that have returned
    uplink,       \* frames on their way to the server
    downlink,     \* frames on their way to the client
    peer,         \* "rpc", "foreign" (no rest_rpc server) or "gone"
    topic_id,     \* the topic the server recorded for this connection
    pubs,         \* publications so far
    executed,     \* how often the function of a call has been entered
    orphans,      \* calls that a server of an earlier connection has not read
    double        \* a sub_operation was completed a second time (undefined)

connVars == <<connect_pc, connects, should_reset>>
sockVars == <<impl, has_closed>>
opVars == <<ops, kind>>
serverVars == <<topic_id, pubs, executed, orphans>>
netVars == <<uplink, downlink, peer, serverVars>>
subVars == <<sub_ops, double>>
vars == <<role, connVars, sockVars, opVars, io, timer, result, returned,
          netVars, subVars>>

Op == 1 .. MaxOps

\* What the server sends. A response carries the operation it answers.
RouteErrc == {"ok", "no_such_function", "function_exception",
              "function_unknown_exception"}
Response == [type : {"resp"}, op : Op, ec : RouteErrc]
Publication == [type : {"pub"}, topic : Topic, n : 1 .. MaxPub]
Garbage == [type : {"garbage"}]
Frame == Response \cup Publication \cup Garbage
NoFrame == [type |-> "none"]

Errc == RouteErrc \cup {"none", "write_error", "read_error", "protocol_error",
                        "request_timeout"}

TypeOK ==
    /\ role \in Roles
    /\ connect_pc \in {"idle", "resolve", "connect"}
    /\ connects \in 0 .. MaxConnect
    /\ should_reset \in BOOLEAN
    /\ impl \in {"open", "closed"} /\ has_closed \in BOOLEAN
    /\ sub_ops \in [Topic -> {"absent", "armed", "fired"}]
    /\ ops \in 0 .. MaxOps
    /\ kind \in [Op -> {"none", "call"} \cup Topic]
    /\ io \in [Op -> {"idle", "write", "header", "body", "threw", "done"}]
    /\ timer \in [Op -> {"off", "on", "fired", "late"}]
    /\ result \in [Op -> [ec : Errc, frame : Frame \cup {NoFrame}]]
    /\ returned \subseteq 1 .. ops
    /\ uplink \in Seq([op : Op, kind : {"call"} \cup Topic])
    /\ downlink \in Seq(Frame)
    /\ peer \in {"rpc", "foreign", "gone"}
    /\ topic_id \in Topic \cup {NoTopic}
    /\ pubs \in 0 .. MaxPub
    /\ executed \in [Op -> 0 .. 1] /\ orphans \subseteq Op
    /\ double \in BOOLEAN

Init ==
    /\ role \in Roles
    /\ connect_pc = "idle" /\ connects = 0 /\ should_reset = FALSE
    /\ impl = "closed" /\ has_closed = TRUE
    /\ sub_ops = [t \in Topic |-> "absent"] /\ double = FALSE
    /\ ops = 0
    /\ kind = [o \in Op |-> "none"]
    /\ io = [o \in Op |-> "idle"]
    /\ timer = [o \in Op |-> "off"]
    /\ result = [o \in Op |-> [ec |-> "none", frame |-> NoFrame]]
    /\ returned = {}
    /\ uplink = <<>> /\ downlink = <<>> /\ peer = "gone"
    /\ topic_id = NoTopic /\ pubs = 0
    /\ executed = [o \in Op |-> 0] /\ orphans = {}

-----------------------------------------------------------------------------
(* Helpers *)

\* The coroutine that uses the client is between two operations.
AppIdle == connect_pc = "idle" /\ returned = 1 .. ops

InFlight(o) == o \in 1 .. ops /\ o \notin returned

\* close_socket(): shutdown and close of impl_, has_closed_ = true.
\* Mutant: the flag is set and impl_ stays open.
MarkClosed == has_closed' = TRUE /\ UNCHANGED impl

CloseSocket == impl' = "closed" /\ has_closed' = TRUE

\* complete() of the sub_operations of the topics in S: the stored handler
\* runs once; running it again is undefined.
Complete(S) ==
    /\ sub_ops' = [t \in Topic |-> IF t \in S THEN "fired" ELSE sub_ops[t]]
    /\ double' = (double \/ \E t \in S : sub_ops[t] = "fired")

Present == {t \in Topic : sub_ops[t] # "absent"}

\* Mutant: an error wakes nobody.
WakeNone == Complete({})

comple_all == Complete(Present)

\* The watchdog of call o won: `||` cancels the pending read or write.
Cancelled(o) == timer[o] = "fired"

\* call_impl() or wait_response() comes back with ec; a call whose watchdog
\* has fired already has its result.
FinishIo(o, ec, f) ==
    /\ io' = [io EXCEPT ![o] = "done"]
    /\ result' = IF Cancelled(o) THEN result
                 ELSE [result EXCEPT ![o] = [ec |-> ec, frame |-> f]]

-----------------------------------------------------------------------------
(* connect() and close() *)

\* A subscriber that may not resubscribe connects only before its first use.
MayConnect ==
    /\ AppIdle
    /\ connects < MaxConnect
    /\ role = "caller" \/ Resubscribe \/ ops = 0

\* The calls among the frames of q.
CallsIn(q) == {q[i].op : i \in {j \in DOMAIN q : q[j].kind = "call"}}

\* reset(): the old connection is closed and impl_ becomes a new socket, which
\* is opened here and connected later. sub_ops_ stays as it is.
reset ==
    /\ impl' = "closed" /\ has_closed' = TRUE
    /\ uplink' = <<>> /\ downlink' = <<>> /\ peer' = "gone"
    /\ topic_id' = NoTopic
    /\ orphans' = orphans \cup IF peer = "rpc" THEN CallsIn(uplink) ELSE {}
    /\ UNCHANGED <<pubs, executed>>

ConnectBegin ==
    /\ MayConnect
    /\ connect_pc' = "resolve"
    /\ connects' = connects + 1
    /\ should_reset' = TRUE
    /\ IF should_reset THEN reset ELSE UNCHANGED <<sockVars, netVars>>
    /\ UNCHANGED <<role, opVars, io, timer, result, returned, subVars>>

ResolveDone ==
    /\ connect_pc = "resolve"
    /\ connect_pc' = "connect"
    /\ UNCHANGED <<role, connects, should_reset, sockVars, opVars, io, timer,
                   result, returned, netVars, subVars>>

\* The resolver or async_connect fails: its error is returned.
ConnectFail ==
    /\ connect_pc # "idle"
    /\ connect_pc' = "idle"
    /\ UNCHANGED <<role, connects, should_reset, sockVars, opVars, io, timer,
                   result, returned, netVars, subVars>>

\* The watchdog of either step expires first.
ConnectTimeout ==
    /\ connect_pc # "idle"
    /\ connect_pc' = "idle"
    /\ CloseSocket
    /\ UNCHANGED <<role, connects, should_reset, opVars, io, timer, result,
                   returned, netVars, subVars>>

ConnectDone ==
    /\ connect_pc = "connect"
    /\ connect_pc' = "idle"
    /\ impl' = "open" /\ has_closed' = FALSE
    /\ peer' \in {"rpc", "foreign"}
    /\ UNCHANGED <<role, connects, should_reset, opVars, io, timer, result,
                   returned, uplink, downlink, serverVars, subVars>>

\* async_connect completes first, but the timer has expired too and its
\* watchdog closes the socket before connect() goes on to line 73.
ConnectDoneLate ==
    /\ connect_pc = "connect"
    /\ connect_pc' = "idle"
    /\ impl' = "closed" /\ has_closed' = FALSE
    /\ UNCHANGED <<role, connects, should_reset, opVars, io, timer, result,
                   returned, netVars, subVars>>

Close ==
    /\ ~has_closed
    /\ CloseSocket
    /\ UNCHANGED <<role, connVars, opVars, io, timer, result, returned, netVars,
                   subVars>>

-----------------------------------------------------------------------------
(* call_for() and subscribe() *)

Issue(k) ==
    /\ AppIdle /\ ops < MaxOps
    /\ ops' = ops + 1
    /\ kind' = [kind EXCEPT ![ops + 1] = k]

\* Mutant: call_impl() without the watchdog.
NoWatchdog == UNCHANGED timer

StartWatchdog == timer' = [timer EXCEPT ![ops + 1] = "on"]

StartCall ==
    /\ role \in {"caller", "mixed"}
    /\ Issue("call")
    /\ io' = [io EXCEPT ![ops + 1] = "write"]
    /\ StartWatchdog
    /\ UNCHANGED <<role, connVars, sockVars, result, returned, netVars, subVars>>

\* Mutant: every subscribe only waits.
OnlyWait(t) == "header"

\* The first subscribe of a topic sends it to the server, a later one waits.
FirstStep(t) == IF sub_ops[t] = "absent" THEN "write" ELSE "header"

\* Mutant: only the first subscribe of a topic stores its handler.
ArmFirst(t) == [sub_ops EXCEPT ![t] = IF @ = "absent" THEN "armed" ELSE @]

\* async_compose stores a new handler in the sub_operation.
Arm(t) == [sub_ops EXCEPT ![t] = "armed"]

StartSubscribe(t) ==
    /\ role = "mixed" \/ (role = "subscriber" /\ Present \subseteq {t})
    /\ Issue(t)
    /\ sub_ops' = Arm(t)
    /\ io' = [io EXCEPT ![ops + 1] = FirstStep(t)]
    /\ UNCHANGED <<role, connVars, sockVars, timer, result, returned, netVars,
                   double>>

WriteDone(o) ==
    /\ io[o] = "write" /\ impl = "open"
    /\ io' = [io EXCEPT ![o] = "header"]
    /\ uplink' = Append(uplink, [op |-> o, kind |-> kind[o]])
    /\ UNCHANGED <<role, connVars, sockVars, opVars, timer, result, returned,
                   downlink, peer, serverVars, subVars>>

\* Line 201: the one error path that does not call comple_all().
WriteError(o) ==
    /\ io[o] = "write"
    /\ impl = "closed" \/ Cancelled(o) \/ peer = "gone"
    /\ CloseSocket
    /\ FinishIo(o, "write_error", NoFrame)
    /\ UNCHANGED <<role, connVars, opVars, timer, returned, netVars, subVars>>

ReadError(o) ==
    /\ io[o] \in {"header", "body"}
    /\ impl = "closed" \/ Cancelled(o) \/ (peer = "gone" /\ downlink = <<>>)
    /\ CloseSocket
    /\ comple_all
    /\ FinishIo(o, "read_error", NoFrame)
    /\ UNCHANGED <<role, connVars, opVars, timer, returned, netVars>>

\* The header is in: a wrong magic number ends the operation, and leaves the
\* socket open.
ReadHeader(o) ==
    /\ io[o] = "header" /\ impl = "open" /\ downlink # <<>>
    /\ IF Head(downlink).type = "garbage"
       THEN /\ comple_all
            /\ FinishIo(o, "protocol_error", NoFrame)
            /\ downlink' = Tail(downlink)
       ELSE /\ io' = [io EXCEPT ![o] = "body"]
            /\ UNCHANGED <<result, downlink, subVars>>
    /\ UNCHANGED <<role, connVars, sockVars, opVars, timer, returned, uplink,
                   peer, serverVars>>

\* The body is in: its first byte is the error code. A publication completes
\* the sub_operation of its topic.
ReadBody(o) ==
    /\ io[o] = "body" /\ impl = "open" /\ downlink # <<>>
    /\ LET f == Head(downlink) IN
         IF f.type = "pub"
         THEN FinishIo(o, "ok", f) /\ Complete({f.topic} \cap Present)
         ELSE FinishIo(o, f.ec, f) /\ UNCHANGED subVars
    /\ downlink' = Tail(downlink)
    /\ UNCHANGED <<role, connVars, sockVars, opVars, timer, returned, uplink,
                   peer, serverVars>>

\* unpack<R> throws: the body is the text of an error or was packed from another
\* type than R. `||` then waits for the watchdog of a call, `&&` for the
\* sub_operation of a subscribe, which this frame no longer completes.
UnpackThrows(o) ==
    /\ io[o] = "body" /\ impl = "open" /\ downlink # <<>>
    /\ io' = [io EXCEPT ![o] = "threw"]
    /\ downlink' = Tail(downlink)
    /\ UNCHANGED <<role, connVars, sockVars, opVars, timer, result, returned,
                   uplink, peer, serverVars, subVars>>

WatchdogFires(o) ==
    /\ timer[o] = "on" /\ io[o] # "done" /\ InFlight(o)
    /\ timer' = [timer EXCEPT ![o] = "fired"]
    /\ result' = [result EXCEPT ![o] = [ec |-> "request_timeout", frame |-> NoFrame]]
    /\ CloseSocket
    /\ io' = IF io[o] = "threw" THEN [io EXCEPT ![o] = "done"] ELSE io
    /\ UNCHANGED <<role, connVars, opVars, returned, netVars, subVars>>

\* The answer is in, but the timer has expired before it could be cancelled:
\* the call keeps its result and loses its socket.
WatchdogLate(o) ==
    /\ timer[o] = "on" /\ io[o] = "done" /\ InFlight(o)
    /\ timer' = [timer EXCEPT ![o] = "late"]
    /\ CloseSocket
    /\ UNCHANGED <<role, connVars, opVars, io, result, returned, netVars, subVars>>

CallReturn(o) ==
    /\ InFlight(o) /\ kind[o] = "call" /\ io[o] = "done"
    /\ returned' = returned \cup {o}
    /\ timer' = [timer EXCEPT ![o] = IF @ = "on" THEN "off" ELSE @]
    /\ UNCHANGED <<role, connVars, sockVars, opVars, io, result, netVars, subVars>>

\* `&&` waits for the frame and for the sub_operation.
SubscribeReturn(o) ==
    /\ InFlight(o) /\ kind[o] \in Topic /\ io[o] = "done"
    /\ sub_ops[kind[o]] = "fired"
    /\ returned' = returned \cup {o}
    /\ UNCHANGED <<role, connVars, sockVars, opVars, io, timer, result, netVars,
                   subVars>>

-----------------------------------------------------------------------------
(* The other end *)

\* Mutant: the message type is not looked at.
RecordAny(m) == m.kind

RecordTopic(m) == IF m.kind = "call" THEN topic_id ELSE m.kind

\* Mutant: a frame that was read is read again.
ReadAgain == UNCHANGED uplink

TakeFrame == uplink' = Tail(uplink)

Run(o) == executed' = [executed EXCEPT ![o] = @ + 1]

\* Mutant: the error code of an unknown function stays as it was constructed.
RouteUnset(o, ec) ==
    \/ ec # "no_such_function" /\ Run(o)
    \/ UNCHANGED executed

\* route() with ec as its outcome. An unknown function is not run, and unpack()
\* of the arguments throws before the function is entered; the function itself,
\* or the packing of what it returns, throws after.
Route(o, ec) ==
    \/ ec # "no_such_function" /\ Run(o)
    \/ ec # "ok" /\ UNCHANGED executed

\* rpc_connection::start() takes the next frame: a subscription overwrites
\* the topic of the connection, a request is routed and answered.
ServerReads ==
    /\ peer = "rpc" /\ uplink # <<>>
    /\ TakeFrame
    /\ topic_id' = RecordTopic(Head(uplink))
    /\ \/ /\ Head(uplink).kind # "call"
          /\ UNCHANGED <<downlink, executed>>
       \/ /\ Head(uplink).kind = "call"
          /\ \E ec \in RouteErrc :
               /\ Route(Head(uplink).op, ec)
               /\ downlink' = Append(downlink, [type |-> "resp",
                                                op |-> Head(uplink).op, ec |-> ec])
    /\ UNCHANGED <<role, connVars, sockVars, opVars, io, timer, result, returned,
                   peer, pubs, orphans, subVars>>

\* The server of an earlier connection gets to a request that was sent before
\* the client closed it; its answer reaches nobody.
OldServerReads(o) ==
    /\ o \in orphans
    /\ orphans' = orphans \ {o}
    /\ \E ec \in RouteErrc : Route(o, ec)
    /\ UNCHANGED <<role, connVars, sockVars, opVars, io, timer, result, returned,
                   uplink, downlink, peer, topic_id, pubs, subVars>>

ServerPublishes(t) ==
    /\ peer = "rpc" /\ topic_id = t /\ pubs < MaxPub
    /\ pubs' = pubs + 1
    /\ downlink' = Append(downlink, [type |-> "pub", topic |-> t, n |-> pubs + 1])
    /\ UNCHANGED <<role, connVars, sockVars, opVars, io, timer, result, returned,
                   uplink, peer, topic_id, executed, orphans, subVars>>

\* Something else listens on the port.
ForeignPeerSends ==
    /\ peer = "foreign" /\ downlink = <<>> /\ uplink # <<>>
    /\ uplink' = Tail(uplink)
    /\ downlink' = <<[type |-> "garbage"]>>
    /\ UNCHANGED <<role, connVars, sockVars, opVars, io, timer, result, returned,
                   peer, serverVars, subVars>>

PeerGoes ==
    /\ peer # "gone"
    /\ peer' = "gone"
    /\ UNCHANGED <<role, connVars, sockVars, opVars, io, timer, result, returned,
                   uplink, downlink, serverVars, subVars>>

-----------------------------------------------------------------------------
Connecting ==
    \/ ConnectBegin \/ ResolveDone \/ ConnectFail \/ ConnectTimeout
    \/ ConnectDone \/ ConnectDoneLate \/ Close

Operation(o) ==
    \/ WriteDone(o) \/ WriteError(o)
    \/ ReadError(o) \/ ReadHeader(o) \/ ReadBody(o) \/ UnpackThrows(o)
    \/ WatchdogFires(o) \/ WatchdogLate(o)
    \/ CallReturn(o) \/ SubscribeReturn(o)

Network ==
    \/ ServerReads
    \/ \E o \in Op : OldServerReads(o)
    \/ \E t \in Topic : ServerPublishes(t)
    \/ ForeignPeerSends
    \/ PeerGoes

Next ==
    \/ Connecting
    \/ StartCall
    \/ \E t \in Topic : StartSubscribe(t)
    \/ \E o \in Op : Operation(o)
    \/ Network

Spec == Init /\ [][Next]_vars

(***************************************************************************)
(* The client's io_context runs completed reads and writes, timers expire, *)
(* and a write or read of a dead connection fails in the end. The server   *)
(* owes nothing.                                                           *)
(***************************************************************************)
Fairness ==
    \A o \in Op :
        /\ WF_vars(WriteDone(o) \/ WriteError(o))
        /\ WF_vars(ReadError(o) \/ ReadHeader(o) \/ ReadBody(o) \/ UnpackThrows(o))
        /\ WF_vars(WatchdogFires(o))
        /\ WF_vars(CallReturn(o) \/ SubscribeReturn(o))

FairSpec == Spec /\ Fairness

-----------------------------------------------------------------------------
(* Properties *)

(***************************************************************************)
(* An operation that returns ok has what it asked for: a call the answer   *)
(* to this very call, never that of an earlier one that timed out or of an *)
(* earlier connection, and a subscribe a publication of its topic. The     *)
(* frames carry no sequence number, so only the closing of the socket on   *)
(* every other way out keeps a stale frame from being read.                *)
(***************************************************************************)
OwnResult ==
    \A o \in returned :
        result[o].ec = "ok" =>
            IF kind[o] = "call"
            THEN result[o].frame.type = "resp" /\ result[o].frame.op = o
            ELSE result[o].frame.type = "pub" /\ result[o].frame.topic = kind[o]

(***************************************************************************)
(* To the application a call is a remote call: it runs the function at     *)
(* most once; ok means that it ran, no_such_function and write_error that  *)
(* it never will, and an exception that it will not run any more.          *)
(***************************************************************************)
Remote == INSTANCE RemoteCall WITH
    state <- [o \in Op |->
                IF kind[o] # "call" THEN "idle"
                ELSE IF o \in returned THEN result[o].ec ELSE "invoked"]

IsRemoteCall == Remote!Spec

(***************************************************************************)
(* No sub_operation is completed twice, which would invoke a moved-from    *)
(* handler: comple_all() completes every topic ever subscribed, waited for *)
(* or not.                                                                 *)
(***************************************************************************)
NoDoubleComplete == ~double

(***************************************************************************)
(* A subscribe that waits on an open connection is known to the server of  *)
(* that connection, or its subscription is on its way there.               *)
(***************************************************************************)
SubscriptionKnown ==
    \A o \in Op :
        /\ InFlight(o) /\ kind[o] \in Topic /\ io[o] \in {"header", "body"}
        /\ impl = "open" /\ peer = "rpc" /\ downlink = <<>>
        => \/ topic_id = kind[o]
           \/ \E i \in DOMAIN uplink : uplink[i].kind = kind[o]

\* Every call returns, whatever the server does: its watchdog sees to it.
CallReturns ==
    \A o \in Op : (InFlight(o) /\ kind[o] = "call") ~> (o \in returned)

(***************************************************************************)
(* A subscribe whose connection is closed comes back, as the loop of the   *)
(* README that breaks on ec != ok needs: every error of wait_response()    *)
(* wakes the sub_operation that `&&` also waits for. Two ways out do not,  *)
(* and subscribe waits for ever: a write that fails in call_impl(), and a  *)
(* publication that does not unpack.                                       *)
(***************************************************************************)
SubscribeFails ==
    \A o \in Op :
        (InFlight(o) /\ kind[o] \in Topic /\ impl = "closed")
          ~> (o \in returned \/ result[o].ec = "write_error" \/ io[o] = "threw")
-----------------------------------------------------------------------------
(* Why operations get their own results, as an inductive invariant *)

\* One operation at a time: the last one issued may be in flight.
OneAtATime ==
    /\ returned \in {1 .. ops, 1 .. (ops - 1)}
    /\ connect_pc # "idle" => returned = 1 .. ops
    /\ \A o \in Op :
         /\ o > ops => /\ kind[o] = "none" /\ io[o] = "idle" /\ timer[o] = "off"
                       /\ result[o].ec = "none"
         /\ o <= ops => kind[o] # "none" /\ io[o] # "idle"
         /\ o < ops \/ o \in returned => io[o] = "done"
         /\ io[o] = "done" => result[o].ec # "none"
         /\ io[o] # "done" => result[o].ec \in {"none", "request_timeout"}
         /\ timer[o] # "off" => kind[o] = "call"
         /\ Cancelled(o) => result[o].ec = "request_timeout"
         /\ InFlight(o) /\ Cancelled(o) => impl = "closed"

\* A request is sent once, and a server gets to it at most once.
SentOnce ==
    /\ \A i \in DOMAIN uplink :
         LET o == uplink[i].op IN
           /\ o <= ops /\ io[o] # "write" /\ result[o].ec # "write_error"
           /\ uplink[i].kind = kind[o]
           /\ executed[o] = 0 /\ o \notin orphans
           /\ \A j \in DOMAIN uplink : uplink[j].op = o => j = i
    /\ \A o \in orphans :
         /\ o \in returned /\ kind[o] = "call"
         /\ executed[o] = 0 /\ result[o].ec # "write_error"
    /\ \A o \in Op : executed[o] = 1 =>
         o <= ops /\ kind[o] = "call" /\ io[o] # "write" /\ result[o].ec # "write_error"

\* What an earlier connection left behind is gone before the next one opens.
FreshStart ==
    /\ connect_pc # "idle" => should_reset
    /\ connect_pc # "idle" \/ ~should_reset =>
         uplink = <<>> /\ downlink = <<>> /\ impl = "closed" /\ peer = "gone"

\* The body that is awaited is that of the header that was checked.
BodyFollows ==
    \A o \in Op : io[o] = "body" => downlink # <<>> /\ Head(downlink).type # "garbage"

\* A caller subscribes to nothing.
NoTopics ==
    /\ topic_id = NoTopic /\ Present = {} /\ ~double
    /\ \A o \in Op : kind[o] \in {"none", "call"}

\* A caller has one frame under way at most, and it belongs to the call in
\* flight unless the socket is closed.
OneFrame ==
    /\ Len(uplink) + Len(downlink) <= 1
    /\ impl = "open" /\ (uplink # <<>> \/ downlink # <<>>) =>
         InFlight(ops) /\ io[ops] \in {"header", "body"}
    /\ impl = "open" => /\ \A i \in DOMAIN uplink : uplink[i].op = ops
                        /\ \A i \in DOMAIN downlink :
                             downlink[i].type = "resp" => downlink[i].op = ops

\* No server will get to the request of o any more, and what the answer ec
\* says of the function is so.
Settled(o, ec) ==
    /\ o \notin orphans
    /\ \A i \in DOMAIN uplink : uplink[i].op # o
    /\ ec = "ok" => executed[o] = 1
    /\ ec = "no_such_function" => executed[o] = 0

\* An answer is the server's, and it goes to the call it answers.
Answered ==
    /\ \A i \in DOMAIN downlink :
         \/ downlink[i].type = "garbage"
         \/ downlink[i].type = "resp" /\ Settled(downlink[i].op, downlink[i].ec)
    /\ \A o \in Op : result[o].ec \in RouteErrc =>
         /\ Settled(o, result[o].ec)
         /\ result[o].frame.type = "resp" /\ result[o].frame.op = o

\* A subscriber has one topic, and so has all it sends and gets.
OneTopic ==
    /\ \A s, t \in Present : s = t
    /\ topic_id \in Present \cup {NoTopic}
    /\ \A o \in Op : kind[o] \in Present \cup {"none"}
    /\ \A i \in DOMAIN uplink : uplink[i].kind \in Present
    /\ \A i \in DOMAIN downlink :
         \/ downlink[i].type = "garbage"
         \/ downlink[i].type = "pub" /\ downlink[i].topic \in Present
    /\ \A o \in Op : result[o].ec = "ok" =>
         result[o].frame.type = "pub" /\ result[o].frame.topic \in Present

\* Its sub_operation waits for as long as the frame is awaited.
SubWaits ==
    /\ ~double
    /\ \A o \in Op : InFlight(o) /\ io[o] # "done" => sub_ops[kind[o]] = "armed"

\* A subscriber that does not connect again is not forgotten by its server.
ServerKnows ==
    /\ ops > 0 => connect_pc = "idle"
    /\ Present # {} => ops > 0
    /\ impl = "open" /\ peer = "rpc" =>
         \A t \in Present :
            \/ topic_id = t
            \/ \E i \in DOMAIN uplink : uplink[i].kind = t
            \/ InFlight(ops) /\ io[ops] = "write"

(***************************************************************************)
(* The inductive invariant behind OwnResult, NoDoubleComplete,             *)
(* SubscriptionKnown and IsRemoteCall: one frame per operation, and one    *)
(* connection per frame.                                                   *)
(***************************************************************************)
ClientInv ==
    /\ OneAtATime /\ SentOnce /\ FreshStart /\ BodyFollows
    /\ role = "caller" => NoTopics /\ OneFrame /\ Answered
    /\ role = "subscriber" => OneTopic /\ SubWaits
    /\ role = "subscriber" /\ ~Resubscribe => ServerKnows
=============================================================================
