---------------------------- MODULE RpcConnection ----------------------------
(***************************************************************************)
(* The server side of established connections: rpc_connection::start(),    *)
(* the thread-local tls_data it shares with the handlers it calls,         *)
(* rpc_context (a response sent later), the frames response() writes, and  *)
(* the connection registry and publishers of rpc_server that reach a       *)
(* connection from other threads.                                          *)
(*                                                                         *)
(* Every io_context is run by exactly one thread (io_context_pool::run), so *)
(* the coroutines of one io_context interleave only where one of them      *)
(* suspends: running[t] is the connection whose handler holds thread t.    *)
(* One step is the code between two suspension points.                     *)
(***************************************************************************)
EXTENDS Naturals, Sequences, FiniteSets

CONSTANTS
    Conn,        \* the accepted connections
    Thread,      \* the io_contexts, each with the one thread that runs it
    ExecutorOf,  \* the io_context the socket of a connection belongs to
    NoConn,      \* the null shared_ptr<rpc_connection>
    Topic,       \* topic ids that clients subscribe to
    NoTopic,     \* the zero topic_id_ of a connection that never subscribed
    Publisher,   \* coroutines that call rpc_server::publish
    Usage,       \* what clients and handlers may do, see UsageKinds
    MaxReq,      \* bound: requests per connection
    MaxSuspend,  \* bound: suspensions of one handler
    MaxPub       \* bound: publications per publisher

(***************************************************************************)
(* What the library lets its users do beyond the plain call:               *)
(*   suspend  - a handler co_awaits while it owns an rpc_context            *)
(*   late     - a handler creates its rpc_context after a suspension       *)
(*   foreign  - a handler creates an rpc_context on a non-io thread        *)
(*   copy     - an rpc_context is copied (it is a copyable class)          *)
(*   throw    - a handler throws while it owns an rpc_context              *)
(*   pipeline - a client sends a request before the previous answer        *)
(*   mixed    - a client both calls and subscribes on one connection       *)
(***************************************************************************)
UsageKinds ==
    {"suspend", "late", "foreign", "copy", "throw", "pipeline", "mixed"}

ASSUME ConstantsAssumption ==
    /\ ExecutorOf \in [Conn -> Thread]
    /\ NoConn \notin Conn
    /\ NoTopic \notin Topic
    /\ Usage \subseteq UsageKinds
    /\ MaxReq \in Nat /\ MaxSuspend \in Nat /\ MaxPub \in Nat

VARIABLES
    pc,         \* where the start() coroutine of a connection stands
    armed,      \* its pending read was started on an open socket
    req,        \* requests dispatched on the connection so far
    suspends,   \* suspensions of the current handler
    tls_conn,   \* tls_data::conn_ of an io thread
    tls_delay,  \* tls_data::delay_ of an io thread
    running,    \* the connection whose handler holds the thread
    contexts,   \* the rpc_context objects alive
    socket,     \* "open", "broken" by the peer or the network, or "closed"
    writes,     \* frames whose async_write has not completed
    wire,       \* what was put on the TCP stream: first and last parts
    topic_id,   \* topic_id_
    conns,      \* rpc_server::conns_
    posted,     \* close lambdas posted to a connection's io_context
    pub_topic,  \* publish(): the topic being published, NoTopic between calls
    pub_todo,   \* publish(): connections of its copy of conns_ to visit
    pub_busy,   \* publish(): the connection whose write it awaits
    published   \* publications begun by a publisher

connVars == <<pc, armed, req, suspends>>
threadVars == <<tls_conn, tls_delay, running>>
netVars == <<socket, writes, wire>>
regVars == <<conns, posted>>
pubVars == <<pub_topic, pub_todo, pub_busy, published>>
vars == <<connVars, threadVars, contexts, netVars, topic_id, regVars, pubVars>>

\* A request is named by its connection and its number on it.
Request == Conn \X Nat

\* A frame names who wrote it: the read loop, an rpc_context or a publisher.
Frame == [by : {"loop", "ctx"}, owner : Request, copy : BOOLEAN]
            \cup [by : {"pub"}, owner : Publisher \X Nat, copy : {FALSE}]

\* What a write has put on the stream: the first or the last part of a frame.
Segment == [frame : Frame, part : {"head", "tail"}]

Context == [owner : Request, conn : Conn \cup {NoConn},
            has_response : BOOLEAN, copy : BOOLEAN]

ThreadConn(t) == {c \in Conn : ExecutorOf[c] = t} \cup {NoConn}

ThreadTypeOK ==
    /\ tls_conn \in [Thread -> Conn \cup {NoConn}]
    /\ tls_delay \in [Thread -> BOOLEAN]
    /\ running \in [Thread -> Conn \cup {NoConn}]
    /\ \A t \in Thread : {tls_conn[t], running[t]} \subseteq ThreadConn(t)

PubTypeOK ==
    /\ pub_topic \in [Publisher -> Topic \cup {NoTopic}]
    /\ pub_todo \in [Publisher -> SUBSET Conn]
    /\ pub_busy \in [Publisher -> Conn \cup {NoConn}]
    /\ published \in [Publisher -> Nat]

(***************************************************************************)
(* Each variable has its type; the tls_data of a thread only ever holds a  *)
(* connection whose socket lives on that thread's io_context, which is     *)
(* what `static thread_local` in get_context() is for.                     *)
(***************************************************************************)
TypeOK ==
    /\ pc \in [Conn -> {"header", "body", "handler", "suspended", "write",
                        "ended", "protocol_error"}]
    /\ armed \in [Conn -> BOOLEAN]
    /\ req \in [Conn -> Nat]
    /\ suspends \in [Conn -> Nat]
    /\ ThreadTypeOK
    /\ contexts \subseteq Context
    /\ socket \in [Conn -> {"open", "broken", "closed"}]
    /\ writes \in [Conn -> SUBSET Frame]
    /\ wire \in [Conn -> Seq(Segment)]
    /\ topic_id \in [Conn -> Topic \cup {NoTopic}]
    /\ conns \subseteq Conn
    /\ posted \subseteq Conn \X BOOLEAN
    /\ PubTypeOK

\* Connections as accept() leaves them: registered, with start() spawned.
Init ==
    /\ pc = [c \in Conn |-> "header"]
    /\ armed = [c \in Conn |-> TRUE]
    /\ req = [c \in Conn |-> 0]
    /\ suspends = [c \in Conn |-> 0]
    /\ tls_conn = [t \in Thread |-> NoConn]
    /\ tls_delay = [t \in Thread |-> FALSE]
    /\ running = [t \in Thread |-> NoConn]
    /\ contexts = {}
    /\ socket = [c \in Conn |-> "open"]
    /\ writes = [c \in Conn |-> {}]
    /\ wire = [c \in Conn |-> <<>>]
    /\ topic_id = [c \in Conn |-> NoTopic]
    /\ conns = Conn
    /\ posted = {}
    /\ pub_topic = [p \in Publisher |-> NoTopic]
    /\ pub_todo = [p \in Publisher |-> {}]
    /\ pub_busy = [p \in Publisher |-> NoConn]
    /\ published = [p \in Publisher |-> 0]

-----------------------------------------------------------------------------
(* Helpers *)

\* A coroutine of c can only be resumed while no handler holds its thread.
Idle(c) == running[ExecutorOf[c]] = NoConn

Current(c) == <<c, req[c]>>

InHandler(c) == pc[c] \in {"handler", "suspended"}

\* Request r created an rpc_context that found a connection.
HasContext(r) == \E x \in contexts : x.owner = r /\ x.conn # NoConn

IsHead(c, i, r) ==
    /\ wire[c][i].part = "head"
    /\ wire[c][i].frame.by # "pub"
    /\ wire[c][i].frame.owner = r

IsTail(c, i, r) ==
    /\ wire[c][i].part = "tail"
    /\ wire[c][i].frame.by # "pub"
    /\ wire[c][i].frame.owner = r

\* No context of c is a copy, which could respond together with another.
NoCopies(c) == \A x \in contexts : x.conn = c => ~x.copy

\* The client has read the whole answer of r.
Answered(r) == \E i \in DOMAIN wire[r[1]] : IsTail(r[1], i, r)

\* The peer of c waits for the answer of its last request before the next.
Settled(c) == req[c] = 0 \/ Answered(Current(c))

\* Back to line 60: a new async_read, which fails on a closed socket.
NextHeader(c) ==
    /\ pc' = [pc EXCEPT ![c] = "header"]
    /\ armed' = [armed EXCEPT ![c] = socket[c] # "closed"]

\* async_write sends what it can at once, unless the socket is unusable.
StartWrite(c, f) ==
    /\ writes' = [writes EXCEPT ![c] = @ \cup {f}]
    /\ wire' = [wire EXCEPT ![c] =
                  IF socket[c] = "open"
                  THEN Append(@, [frame |-> f, part |-> "head"]) ELSE @]

WriteDone(c, f) ==
    /\ f \in writes[c]
    /\ \E i \in DOMAIN wire[c] : wire[c][i] = [frame |-> f, part |-> "head"]
    /\ writes' = [writes EXCEPT ![c] = @ \ {f}]
    /\ wire' = [wire EXCEPT ![c] = Append(@, [frame |-> f, part |-> "tail"])]

WriteFail(c, f) ==
    /\ f \in writes[c]
    /\ writes' = [writes EXCEPT ![c] = @ \ {f}]
    /\ UNCHANGED wire

LoopFrame(c) == [by |-> "loop", owner |-> Current(c), copy |-> FALSE]
PubFrame(p) == [by |-> "pub", owner |-> <<p, published[p]>>, copy |-> FALSE]

\* The quit callback erases the connection from conns_ under the mutex.
\* Mutant: need_cb is false where the connection ends by itself.
NoQuitCallback(c) == UNCHANGED conns

QuitCallback(c) == conns' = conns \ {c}

\* close() on the connection's own thread: asio::dispatch runs it inline.
CloseHere(c) ==
    IF socket[c] = "closed"
    THEN UNCHANGED <<socket, conns>>
    ELSE socket' = [socket EXCEPT ![c] = "closed"] /\ QuitCallback(c)

\* close() from another thread: asio::dispatch posts the lambda.
PostClose(S, need_cb) ==
    posted' = posted \cup
                {<<c, need_cb>> : c \in {d \in S : socket[d] # "closed"}}

-----------------------------------------------------------------------------
(* start(): the read loop *)

HeaderError(c) ==
    /\ pc[c] = "header" /\ Idle(c)
    /\ CloseHere(c)
    /\ pc' = [pc EXCEPT ![c] = "ended"]
    /\ UNCHANGED <<armed, req, suspends, threadVars, contexts, writes, wire,
                   topic_id, posted, pubVars>>

HeaderRead(c) == pc[c] = "header" /\ armed[c] /\ Idle(c)

\* A wrong magic number ends the loop and leaves the socket as it is.
HeaderBadMagic(c) ==
    /\ HeaderRead(c)
    /\ pc' = [pc EXCEPT ![c] = "protocol_error"]
    /\ UNCHANGED <<armed, req, suspends, threadVars, contexts, netVars,
                   topic_id, regVars, pubVars>>

HeaderSubscribe(c, topic) ==
    /\ HeaderRead(c)
    /\ "mixed" \in Usage \/ req[c] = 0
    /\ topic_id' = [topic_id EXCEPT ![c] = topic]
    /\ NextHeader(c)
    /\ UNCHANGED <<req, suspends, threadVars, contexts, netVars, regVars,
                   pubVars>>

\* get_context().set_connection(self): the tls_data of the connection's thread.
\* Mutant: the instance is static, not thread_local.
SetConnectionShared(c) == tls_conn' = [t \in Thread |-> c]
\* Mutant: only the first connection of a thread is recorded.
SetConnectionOnce(c) ==
    tls_conn' = [tls_conn EXCEPT ![ExecutorOf[c]] = IF @ = NoConn THEN c ELSE @]

SetConnection(c) == tls_conn' = [tls_conn EXCEPT ![ExecutorOf[c]] = c]

\* The call of route(): the handler runs until it returns or suspends.
Dispatch(c) ==
    /\ SetConnection(c)
    /\ running' = [running EXCEPT ![ExecutorOf[c]] = c]
    /\ req' = [req EXCEPT ![c] = @ + 1]
    /\ suspends' = [suspends EXCEPT ![c] = 0]
    /\ pc' = [pc EXCEPT ![c] = "handler"]
    /\ UNCHANGED <<armed, tls_delay, contexts, netVars, topic_id, regVars,
                   pubVars>>

\* A request may be read: within the bound and the client's discipline.
MayRequest(c) ==
    /\ HeaderRead(c)
    /\ req[c] < MaxReq
    /\ "mixed" \in Usage \/ topic_id[c] = NoTopic
    /\ "pipeline" \in Usage \/ Settled(c)

HeaderEmptyCall(c) == MayRequest(c) /\ Dispatch(c)

HeaderCall(c) ==
    /\ MayRequest(c)
    /\ pc' = [pc EXCEPT ![c] = "body"]
    /\ armed' = [armed EXCEPT ![c] = socket[c] # "closed"]
    /\ UNCHANGED <<req, suspends, threadVars, contexts, netVars, topic_id,
                   regVars, pubVars>>

BodyRead(c) ==
    /\ pc[c] = "body" /\ armed[c] /\ Idle(c)
    /\ Dispatch(c)

BodyError(c) ==
    /\ pc[c] = "body" /\ Idle(c)
    /\ CloseHere(c)
    /\ pc' = [pc EXCEPT ![c] = "ended"]
    /\ UNCHANGED <<armed, req, suspends, threadVars, contexts, writes, wire,
                   topic_id, posted, pubVars>>

\* route() came back, by a return or a caught exception: its thread is free.
Leave(c) ==
    /\ pc[c] = "handler"
    /\ running' = [running EXCEPT ![ExecutorOf[c]] = NoConn]

\* Mutant: the flag survives the request that set it.
KeepDelay(c) == UNCHANGED tls_delay

ResetDelay(c) == tls_delay' = [tls_delay EXCEPT ![ExecutorOf[c]] = FALSE]

ReturnDelayed(c) ==
    /\ Leave(c)
    /\ tls_delay[ExecutorOf[c]]
    /\ ResetDelay(c)
    /\ NextHeader(c)
    /\ UNCHANGED <<req, suspends, tls_conn, contexts, netVars, topic_id,
                   regVars, pubVars>>

\* The handler throws and its rpc_context is destroyed with its frame: the
\* flag is still set, so the result that route() made of the exception is
\* dropped like any other.
ThrowDelayed(c) ==
    /\ "throw" \in Usage
    /\ Leave(c)
    /\ tls_delay[ExecutorOf[c]]
    /\ ResetDelay(c)
    /\ NextHeader(c)
    /\ contexts' = {x \in contexts : x.owner # Current(c) \/ x.has_response}
    /\ UNCHANGED <<req, suspends, tls_conn, netVars, topic_id, regVars, pubVars>>

ReturnAnswered(c) ==
    /\ Leave(c)
    /\ ~tls_delay[ExecutorOf[c]]
    /\ StartWrite(c, LoopFrame(c))
    /\ pc' = [pc EXCEPT ![c] = "write"]
    /\ UNCHANGED <<armed, req, suspends, tls_conn, tls_delay, contexts, socket,
                   topic_id, regVars, pubVars>>

LoopWriteDone(c) ==
    /\ pc[c] = "write" /\ Idle(c)
    /\ WriteDone(c, LoopFrame(c))
    /\ NextHeader(c)
    /\ UNCHANGED <<req, suspends, threadVars, contexts, socket, topic_id,
                   regVars, pubVars>>

LoopWriteFail(c) ==
    /\ pc[c] = "write" /\ Idle(c)
    /\ WriteFail(c, LoopFrame(c))
    /\ CloseHere(c)
    /\ pc' = [pc EXCEPT ![c] = "ended"]
    /\ UNCHANGED <<armed, req, suspends, threadVars, contexts, topic_id,
                   posted, pubVars>>

-----------------------------------------------------------------------------
(* What a handler does, and rpc_context *)

Suspend(c) ==
    /\ pc[c] = "handler"
    /\ suspends[c] < MaxSuspend
    /\ "suspend" \in Usage \/ ~HasContext(Current(c))
    /\ pc' = [pc EXCEPT ![c] = "suspended"]
    /\ suspends' = [suspends EXCEPT ![c] = @ + 1]
    /\ running' = [running EXCEPT ![ExecutorOf[c]] = NoConn]
    /\ UNCHANGED <<armed, req, tls_conn, tls_delay, contexts, netVars, topic_id,
                   regVars, pubVars>>

Resume(c) ==
    /\ pc[c] = "suspended" /\ Idle(c)
    /\ pc' = [pc EXCEPT ![c] = "handler"]
    /\ running' = [running EXCEPT ![ExecutorOf[c]] = c]
    /\ UNCHANGED <<armed, req, suspends, tls_conn, tls_delay, contexts, netVars,
                   topic_id, regVars, pubVars>>

\* rpc_context::rpc_context() in a handler, on its io thread.
NewContext(c) ==
    /\ pc[c] = "handler"
    /\ "late" \in Usage \/ suspends[c] = 0
    /\ ~HasContext(Current(c))
    /\ contexts' = contexts \cup
         {[owner |-> Current(c), conn |-> tls_conn[ExecutorOf[c]],
           has_response |-> FALSE, copy |-> FALSE]}
    /\ tls_delay' = [tls_delay EXCEPT ![ExecutorOf[c]] = TRUE]
    /\ UNCHANGED <<connVars, tls_conn, running, netVars, topic_id, regVars,
                   pubVars>>

\* rpc_context::rpc_context() on another thread, whose tls_data has no
\* connection: the delay flag it sets belongs to that other thread.
ForeignContext(c) ==
    /\ pc[c] = "handler" /\ "foreign" \in Usage
    /\ contexts' = contexts \cup
         {[owner |-> Current(c), conn |-> NoConn,
           has_response |-> FALSE, copy |-> FALSE]}
    /\ UNCHANGED <<connVars, threadVars, netVars, topic_id, regVars, pubVars>>

\* The implicit copy constructor. Bound: one copy per request.
CopyContext(x) ==
    /\ "copy" \in Usage /\ ~x.copy /\ x.conn # NoConn
    /\ \A y \in contexts : y.owner = x.owner => ~y.copy
    /\ contexts' = contexts \cup {[x EXCEPT !.copy = TRUE]}
    /\ UNCHANGED <<connVars, threadVars, netVars, topic_id, regVars, pubVars>>

\* Mutant: a second response() is kept off only while the first is written.
RespondedWhileWriting(x) ==
    contexts' = (contexts \ {x}) \cup
        {[x EXCEPT !.has_response = \E i \in DOMAIN wire[x.conn] :
                      IsTail(x.conn, i, x.owner)]}

SetHasResponse(x) ==
    contexts' = (contexts \ {x}) \cup {[x EXCEPT !.has_response = TRUE]}

\* rpc_context::response(). The two early returns change nothing: a context
\* that has responded or that has no connection takes no step.
ContextResponse(x) ==
    /\ ~x.has_response
    /\ x.conn # NoConn
    /\ SetHasResponse(x)
    /\ StartWrite(x.conn, [by |-> "ctx", owner |-> x.owner, copy |-> x.copy])
    /\ UNCHANGED <<connVars, threadVars, socket, topic_id, regVars, pubVars>>

CtxWriteDone(c, f) ==
    /\ f.by = "ctx"
    /\ WriteDone(c, f)
    /\ UNCHANGED <<connVars, threadVars, contexts, socket, topic_id, regVars,
                   pubVars>>

\* The peer or the network broke the connection, or it was closed here.
Break(c) == socket' = [socket EXCEPT ![c] = IF @ = "open" THEN "broken" ELSE @]

CtxWriteFail(c, f) ==
    /\ f.by = "ctx"
    /\ WriteFail(c, f)
    /\ Break(c)
    /\ PostClose({c}, TRUE)
    /\ UNCHANGED <<connVars, threadVars, contexts, topic_id, conns, pubVars>>

-----------------------------------------------------------------------------
(* rpc_server reaching a connection from other threads *)

\* The lambda of close() posted to the connection's io_context.
PostedClose(c, need_cb) ==
    /\ <<c, need_cb>> \in posted /\ Idle(c)
    /\ posted' = posted \ {<<c, need_cb>>}
    /\ socket' = [socket EXCEPT ![c] = "closed"]
    /\ IF need_cb THEN QuitCallback(c) ELSE UNCHANGED conns
    /\ UNCHANGED <<connVars, threadVars, contexts, writes, wire, topic_id,
                   pubVars>>

\* check_timeout() found the connection expired.
Expire(c) ==
    /\ c \in conns
    /\ conns' = conns \ {c}
    /\ PostClose({c}, FALSE)
    /\ UNCHANGED <<connVars, threadVars, contexts, netVars, topic_id, pubVars>>

\* stop() closes and forgets every connection under the mutex.
StopServer ==
    /\ conns # {}
    /\ conns' = {}
    /\ PostClose(conns, FALSE)
    /\ UNCHANGED <<connVars, threadVars, contexts, netVars, topic_id, pubVars>>

\* publish(): get_connections() takes a copy of conns_ under the mutex.
PublishBegin(p, topic) ==
    /\ pub_topic[p] = NoTopic /\ published[p] < MaxPub
    /\ pub_topic' = [pub_topic EXCEPT ![p] = topic]
    /\ pub_todo' = [pub_todo EXCEPT ![p] = conns]
    /\ published' = [published EXCEPT ![p] = @ + 1]
    /\ UNCHANGED <<connVars, threadVars, contexts, netVars, topic_id, regVars,
                   pub_busy>>

\* Mutant: the awaitable of response() is started and not awaited.
NotAwaited(p) == TRUE

\* co_await: the previous response() of this publish() has come back.
Awaited(p) == pub_busy[p] = NoConn

Visit(p, c) ==
    /\ Awaited(p) /\ c \in pub_todo[p]
    /\ pub_todo' = [pub_todo EXCEPT ![p] = @ \ {c}]

PublishSkip(p, c) ==
    /\ Visit(p, c)
    /\ topic_id[c] # pub_topic[p]
    /\ UNCHANGED <<connVars, threadVars, contexts, netVars, topic_id, regVars,
                   pub_topic, pub_busy, published>>

PublishSend(p, c) ==
    /\ Visit(p, c)
    /\ topic_id[c] = pub_topic[p]
    /\ StartWrite(c, PubFrame(p))
    /\ pub_busy' = [pub_busy EXCEPT ![p] = c]
    /\ UNCHANGED <<connVars, threadVars, contexts, socket, topic_id, regVars,
                   pub_topic, published>>

PubWriteDone(p, c) ==
    /\ pub_busy[p] = c
    /\ WriteDone(c, PubFrame(p))
    /\ pub_busy' = [pub_busy EXCEPT ![p] = NoConn]
    /\ UNCHANGED <<connVars, threadVars, contexts, socket, topic_id, regVars,
                   pub_topic, pub_todo, published>>

PubWriteFail(p, c) ==
    /\ pub_busy[p] = c
    /\ WriteFail(c, PubFrame(p))
    /\ Break(c)
    /\ PostClose({c}, TRUE)
    /\ pub_busy' = [pub_busy EXCEPT ![p] = NoConn]
    /\ UNCHANGED <<connVars, threadVars, contexts, topic_id, conns,
                   pub_topic, pub_todo, published>>

PublishEnd(p) ==
    /\ pub_topic[p] # NoTopic /\ pub_todo[p] = {} /\ Awaited(p)
    /\ pub_topic' = [pub_topic EXCEPT ![p] = NoTopic]
    /\ UNCHANGED <<connVars, threadVars, contexts, netVars, topic_id, regVars,
                   pub_todo, pub_busy, published>>

-----------------------------------------------------------------------------
ReadLoop(c) ==
    \/ HeaderError(c)
    \/ HeaderBadMagic(c)
    \/ \E topic \in Topic : HeaderSubscribe(c, topic)
    \/ HeaderEmptyCall(c)
    \/ HeaderCall(c)
    \/ BodyRead(c)
    \/ BodyError(c)
    \/ ReturnDelayed(c)
    \/ ThrowDelayed(c)
    \/ ReturnAnswered(c)
    \/ LoopWriteDone(c)
    \/ LoopWriteFail(c)

Handler(c) ==
    \/ Suspend(c)
    \/ Resume(c)
    \/ NewContext(c)
    \/ ForeignContext(c)

DelayedResponse ==
    \/ \E x \in contexts : CopyContext(x)
    \/ \E x \in contexts : ContextResponse(x)
    \/ \E c \in Conn : \E f \in writes[c] : CtxWriteDone(c, f)
    \/ \E c \in Conn : \E f \in writes[c] : CtxWriteFail(c, f)

Server ==
    \/ \E c \in Conn, need_cb \in BOOLEAN : PostedClose(c, need_cb)
    \/ \E c \in Conn : Expire(c)
    \/ StopServer

Publish(p) ==
    \/ \E topic \in Topic : PublishBegin(p, topic)
    \/ \E c \in Conn : PublishSkip(p, c)
    \/ \E c \in Conn : PublishSend(p, c)
    \/ \E c \in Conn : PubWriteDone(p, c)
    \/ \E c \in Conn : PubWriteFail(p, c)
    \/ PublishEnd(p)

Next ==
    \/ \E c \in Conn : ReadLoop(c)
    \/ \E c \in Conn : Handler(c)
    \/ DelayedResponse
    \/ Server
    \/ \E p \in Publisher : Publish(p)

Spec == Init /\ [][Next]_vars

(***************************************************************************)
(* An io thread runs what is ready (coroutines to resume, completed writes, *)
(* posted lambdas), every handler returns, every pending write completes   *)
(* one way or the other, and the application answers each rpc_context.     *)
(* Nothing makes a client send or a server publish.                        *)
(***************************************************************************)
Fairness ==
    /\ \A c \in Conn :
         /\ WF_vars(ReturnDelayed(c))
         /\ WF_vars(ReturnAnswered(c))
         /\ WF_vars(Resume(c))
         /\ WF_vars(LoopWriteDone(c) \/ LoopWriteFail(c))
         /\ WF_vars(\E f \in writes[c] :
                       CtxWriteDone(c, f) \/ CtxWriteFail(c, f))
         /\ WF_vars(\E need_cb \in BOOLEAN : PostedClose(c, need_cb))
    /\ WF_vars(\E x \in contexts : ContextResponse(x))

FairSpec == Spec /\ Fairness

-----------------------------------------------------------------------------
(* Properties *)

(***************************************************************************)
(* No request is answered twice, on its own connection or another: the     *)
(* read loop answers a request exactly when no rpc_context took it over,   *)
(* although the two agree only through the delay flag of the thread.       *)
(***************************************************************************)
AnsweredOnce ==
    \A c, d \in Conn : \A i \in DOMAIN wire[c], j \in DOMAIN wire[d] :
        /\ wire[c][i].part = "head" /\ wire[c][i].frame.by # "pub"
        /\ wire[d][j].part = "head" /\ wire[d][j].frame.by # "pub"
        /\ wire[c][i].frame.owner = wire[d][j].frame.owner
        => c = d /\ i = j

(***************************************************************************)
(* An answer goes out on the connection its request came in on, although   *)
(* rpc_context takes the connection from the tls_data that all the         *)
(* connections of the thread overwrite.                                    *)
(***************************************************************************)
RightConnection ==
    \A c \in Conn : \A i \in DOMAIN wire[c] :
        wire[c][i].frame.by # "pub" => wire[c][i].frame.owner[1] = c

\* The handler of request n of c has returned.
Finished(c, n) == n \in 1 .. req[c] /\ (n = req[c] => ~InHandler(c))

(***************************************************************************)
(* No response is swallowed: once the handler of a request has returned,   *)
(* an answer was started on its connection, or an rpc_context of this very *)
(* request and connection can still send it, or the socket is gone.        *)
(***************************************************************************)
NoLostResponse ==
    \A c \in Conn : \A n \in 1 .. req[c] :
        Finished(c, n) =>
            \/ socket[c] # "open"
            \/ \E i \in DOMAIN wire[c] : IsHead(c, i, <<c, n>>)
            \/ \E x \in contexts :
                  x.owner = <<c, n>> /\ x.conn = c /\ ~x.has_response

(***************************************************************************)
(* Answers leave a connection in the order of its requests: the header's   *)
(* seq_num is never filled in, so order is all a client can match by.      *)
(***************************************************************************)
ResponseOrder ==
    \A c \in Conn : \A i, j \in DOMAIN wire[c] :
        /\ i < j
        /\ wire[c][i].part = "head" /\ wire[c][i].frame.by # "pub"
        /\ wire[c][j].part = "head" /\ wire[c][j].frame.by # "pub"
        => wire[c][i].frame.owner[2] < wire[c][j].frame.owner[2]

(***************************************************************************)
(* What a std::string_view argument refers to lasts until the response: a  *)
(* context may hand such a view to response() after its handler returned,  *)
(* and body_ is not read into again while the response is owed or written. *)
(* Only the client's waiting for its answer keeps the next request away.   *)
(***************************************************************************)
ArgumentsValid ==
    \A c \in Conn :
        /\ \A x \in contexts :
             x.conn = c /\ ~x.has_response => x.owner = Current(c) /\ pc[c] # "body"
        /\ \A f \in writes[c] :
             f.by = "ctx" => f.owner = Current(c) /\ pc[c] # "body"

(***************************************************************************)
(* Frames are not mixed on the stream: whatever follows the first part of  *)
(* a frame is its rest. The read loop, contexts and publishers all call    *)
(* async_write on the one socket, and nothing in response() queues them;   *)
(* copies of a context can respond together and are excepted.              *)
(***************************************************************************)
FramesIntact ==
    \A c \in {d \in Conn : NoCopies(d)} :
      \A i \in DOMAIN wire[c] :
        /\ wire[c][i].part = "head" /\ i < Len(wire[c]) =>
             wire[c][i + 1] = [frame |-> wire[c][i].frame, part |-> "tail"]
        /\ wire[c][i].part = "tail" =>
             /\ i > 1
             /\ wire[c][i - 1] = [frame |-> wire[c][i].frame, part |-> "head"]

(***************************************************************************)
(* conns_ follows the sockets: a closed connection is not registered, one  *)
(* that is not registered is closed or about to be, and a read loop that   *)
(* ended by an error has closed its socket. Loop, contexts, publishers,    *)
(* check_timeout() and stop() all race to close a connection.              *)
(***************************************************************************)
RegistryExact ==
    \A c \in Conn :
        /\ socket[c] = "closed" => c \notin conns
        /\ c \notin conns =>
             socket[c] = "closed" \/ \E b \in BOOLEAN : <<c, b>> \in posted
        /\ pc[c] = "ended" => socket[c] = "closed"

(***************************************************************************)
(* Every request that reached its handler is answered in full, unless its  *)
(* connection is lost.                                                     *)
(***************************************************************************)
EventuallyAnswered ==
    \A c \in Conn : \A n \in 1 .. MaxReq :
        req[c] = n ~> Answered(<<c, n>>) \/ socket[c] # "open"
-----------------------------------------------------------------------------
(* Why the takeover of a response works, as an inductive invariant *)

Isolated == \A c, d \in Conn : ExecutorOf[c] = ExecutorOf[d] => c = d

(***************************************************************************)
(* What the users of the library must keep to: an rpc_context is not       *)
(* copied and not lost in an exception, and where connections share an io  *)
(* thread a handler creates its context before it first suspends and does  *)
(* not suspend while it has one.                                           *)
(***************************************************************************)
Contract ==
    /\ "copy" \notin Usage /\ "throw" \notin Usage
    /\ ("late" \notin Usage /\ "suspend" \notin Usage) \/ Isolated

\* A handler that is running holds its thread, and no two hold one.
ThreadHeld ==
    \A c \in Conn :
        /\ pc[c] = "handler" <=> running[ExecutorOf[c]] = c
        /\ pc[c] = "suspended" => suspends[c] > 0
        /\ InHandler(c) => req[c] > 0

\* The delay flag of a thread says that the one handler in progress there
\* that may have a context has one.
DelayMeansContext ==
    /\ \A t \in Thread :
         tls_delay[t] <=> \E c \in Conn : /\ ExecutorOf[c] = t
                                          /\ InHandler(c)
                                          /\ HasContext(Current(c))
    /\ ~Isolated =>
         \A c \in Conn : pc[c] = "suspended" => ~HasContext(Current(c))

\* Where a handler may create its context, tls_data has its connection.
TlsConnection ==
    \A c \in Conn :
        /\ InHandler(c)
        /\ Isolated \/ (pc[c] = "handler" /\ suspends[c] = 0)
        => tls_conn[ExecutorOf[c]] = c

\* A request has at most one context that works, on its own connection.
ContextsOwned ==
    /\ \A x \in contexts :
         /\ ~x.copy
         /\ x.conn \in {x.owner[1], NoConn}
         /\ x.owner[2] \in 1 .. req[x.owner[1]]
         /\ x.has_response => x.conn # NoConn
    /\ \A x, y \in contexts :
         x.owner = y.owner /\ x.conn # NoConn /\ y.conn # NoConn => x = y

\* A context that has responded has put the answer on the stream.
RespondedOnWire ==
    \A x \in contexts :
        x.has_response =>
            \/ socket[x.conn] # "open"
            \/ \E i \in DOMAIN wire[x.conn] : IsHead(x.conn, i, x.owner)

\* Which answers the stream of a connection can hold.
WireOwned ==
    \A c \in Conn : \A i \in DOMAIN wire[c] :
        LET f == wire[c][i].frame IN
        f.by # "pub" =>
            /\ f.owner[1] = c
            /\ f.owner[2] \in 1 .. req[c]
            /\ f.by = "loop" => Finished(c, f.owner[2]) /\ ~HasContext(f.owner)
            /\ f.by = "ctx" =>
                 \E x \in contexts : x.owner = f.owner /\ x.has_response

(***************************************************************************)
(* The inductive invariant behind AnsweredOnce, RightConnection and        *)
(* NoLostResponse: the thread's delay flag and connection, written by      *)
(* every connection of the thread, still speak of the handler that reads   *)
(* them.                                                                   *)
(***************************************************************************)
TakeoverInv ==
    /\ ThreadHeld
    /\ DelayMeansContext
    /\ TlsConnection
    /\ ContextsOwned
    /\ RespondedOnWire
    /\ WireOwned
    /\ AnsweredOnce
    /\ NoLostResponse

-----------------------------------------------------------------------------
(* Why a client that waits gets its answers in order *)

\* A pending answer is of a request that its writer took over, no other write
\* answers the same request, and none has done so before.
WritesOwned ==
    \A c \in Conn : \A f \in writes[c] :
        f.by # "pub" =>
            /\ f.owner[1] = c
            /\ f.by = "loop" =>
                 f.owner = Current(c) /\ pc[c] = "write" /\ ~HasContext(f.owner)
            /\ f.by = "ctx" =>
                 \E x \in contexts : x.owner = f.owner /\ x.has_response
            /\ \A g \in writes[c] : g.by # "pub" /\ g.owner = f.owner => g = f
            /\ \A i \in DOMAIN wire[c] : ~IsTail(c, i, f.owner)

\* The last part of an answer is not there without the first.
TailsFollow ==
    \A c \in Conn : \A i \in DOMAIN wire[c] :
        LET f == wire[c][i].frame IN
        IsTail(c, i, f.owner) => \E j \in DOMAIN wire[c] : IsHead(c, j, f.owner)

(***************************************************************************)
(* The inductive invariant behind ResponseOrder and ArgumentsValid: when   *)
(* the client has read an answer, nothing is left on the server that would *)
(* still write to it on behalf of the request.                             *)
(***************************************************************************)
WaitInv ==
    /\ WritesOwned
    /\ TailsFollow
    /\ ArgumentsValid
    /\ ResponseOrder

-----------------------------------------------------------------------------
(* Why frames stay whole although nothing queues them *)

\* A connection is used for calls or for a subscription.
OneUse ==
    \A c \in Conn :
        topic_id[c] # NoTopic =>
            req[c] = 0 /\ pc[c] \in {"header", "ended", "protocol_error"}

\* A publisher writes to one subscriber at a time.
PubAwaited ==
    /\ \A p \in Publisher :
         /\ pub_todo[p] # {} => pub_topic[p] # NoTopic
         /\ pub_busy[p] # NoConn =>
              pub_topic[p] # NoTopic /\ topic_id[pub_busy[p]] # NoTopic
    /\ \A c \in Conn : \A f \in writes[c] :
         f.by = "pub" =>
             \E p \in Publisher : pub_busy[p] = c /\ f = PubFrame(p)

\* A connection that publish() has still to visit has nothing of it.
PubFresh ==
    \A c \in Conn : \A i \in DOMAIN wire[c] :
        LET f == wire[c][i].frame  p == f.owner[1] IN
        f.by = "pub" =>
            /\ f.owner[2] <= published[p]
            /\ c \in pub_todo[p] => f.owner[2] < published[p]
            /\ wire[c][i].part = "tail" => f \notin writes[c]

\* A frame that lacks its rest is being written, or the socket is gone.
LastPending ==
    \A c \in Conn :
        LET n == Len(wire[c]) IN
        NoCopies(c) /\ n > 0 /\ wire[c][n].part = "head" =>
            wire[c][n].frame \in writes[c] \/ socket[c] # "open"

(***************************************************************************)
(* The inductive invariant behind FramesIntact: at any time one write is   *)
(* pending on a socket, since each of its writers waits for something that *)
(* the others are done with.                                               *)
(***************************************************************************)
FramesInv ==
    /\ OneUse
    /\ PubAwaited
    /\ PubFresh
    /\ LastPending
    /\ FramesIntact
=============================================================================
