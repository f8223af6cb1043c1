------------------------------ MODULE RpcServer ------------------------------
(***************************************************************************)
(* The life of one rpc_server: start() or async_start() and stop() called  *)
(* by application threads, the accept() coroutine, the connection check    *)
(* timer, and the io_context_pool whose threads stop() must join. Each     *)
(* io_context is followed on its own: it runs while it has work, and once  *)
(* it has run out of work it runs nothing again. What a connection does    *)
(* between its start and its end is the subject of RpcConnection.          *)
(***************************************************************************)
EXTENDS Naturals, FiniteSets

CONSTANTS
    Caller,       \* application threads that start and stop the server
    Conn,         \* connections that clients may open
    NoConn,       \* accept() has no connection in hand
    Ctx,          \* the io_contexts of the pool
    AcceptorCtx,  \* the io_context of acceptor_
    TimerCtx,     \* the io_context of check_timer_
    CtxOf,        \* the io_context accept() gives to the socket of a connection
    Overlap,      \* what may coincide with stop(), see OverlapKinds
    MaxCalls      \* bound: calls of start(), async_start() and stop()

(***************************************************************************)
(*   accept - clients connect while stop() is running                      *)
(*   start  - start() has not got as far as accept() when stop() is called *)
(* Two threads never pass the test of has_stop_ in stop() together.        *)
(***************************************************************************)
OverlapKinds == {"accept", "start"}

ASSUME ServerAssumption ==
    /\ NoConn \notin Conn
    /\ {AcceptorCtx, TimerCtx} \subseteq Ctx
    /\ CtxOf \in [Conn -> Ctx]
    /\ Overlap \subseteq OverlapKinds
    /\ MaxCalls \in Nat

VARIABLES
    pc,           \* where a caller stands in start_impl() or stop()
    result,       \* what its last start() returned
    calls,        \* calls made so far
    has_stop,     \* has_stop_
    start_flag,   \* start_flag_: "none", "active" or "done"
    stop_flag,    \* stop_flag_
    ec,           \* the static error code of start_impl(), see Outcome
    thd,          \* thd_: "none", "running", "finished", "joined"
    guards,       \* works_ still holds the io_contexts
    ctx,          \* an io_context is "idle", "running" or "stopped"
    acceptor,     \* acceptor_: "closed" or "listening"
    close_posted, \* stop()'s lambda that closes the acceptor is queued
    accept_pc,    \* accept(): "none", "spawned", "waiting", "done"
    accepted,     \* the connection async_accept has come back with
    conns,        \* conns_
    sock,         \* the socket of a connection: "none", "open", "gone", "closed"
    loop,         \* its start(): "none", "spawned", "reading", "ended"
    conn_close,   \* connections whose posted close() has not run
    timer,        \* start_check_timer(): "none", "armed", "done" (or never run)
    stop_timer,   \* stop_timer_
    tcp_no_delay  \* tcp_no_delay_

callVars == <<pc, result, calls>>
flagVars == <<has_stop, start_flag, stop_flag, ec>>
poolVars == <<thd, guards, ctx>>
acceptVars == <<acceptor, close_posted, accept_pc, accepted>>
connVars == <<conns, sock, loop, conn_close>>
optVars == <<timer, stop_timer, tcp_no_delay>>
vars == <<callVars, flagVars, poolVars, acceptVars, connVars, optVars>>

\* What listen() of this server, or of another one of the process, came to.
Outcome == {"ok", "error", "other_ok", "other_error"}

Starting == {"start_once", "listen", "run", "spawn", "spawn_wait", "wait",
             "return"}
Stopping == {"stop_once", "stop_acceptor", "stop_conns", "stop_pool", "join"}

(***************************************************************************)
(* Each variable has its type, and io_contexts only run on the threads     *)
(* that thd_ stands for and stop() joins.                                  *)
(***************************************************************************)
TypeOK ==
    /\ pc \in [Caller -> {"idle"} \cup Starting \cup Stopping]
    /\ result \in [Caller -> Outcome \cup {"none", "operation_canceled"}]
    /\ calls \in 0 .. MaxCalls
    /\ has_stop \in BOOLEAN
    /\ {start_flag, stop_flag} \subseteq {"none", "active", "done"}
    /\ ec \in Outcome
    /\ thd \in {"none", "running", "finished", "joined"}
    /\ guards \in BOOLEAN
    /\ ctx \in [Ctx -> {"idle", "running", "stopped"}]
    /\ \A k \in Ctx : ctx[k] = "running" => thd = "running"
    /\ acceptor \in {"closed", "listening"} /\ close_posted \in BOOLEAN
    /\ accept_pc \in {"none", "spawned", "waiting", "done"}
    /\ accepted \in Conn \cup {NoConn}
    /\ conns \subseteq Conn /\ conn_close \subseteq Conn
    /\ sock \in [Conn -> {"none", "open", "gone", "closed"}]
    /\ loop \in [Conn -> {"none", "spawned", "reading", "ended"}]
    /\ timer \in {"none", "armed", "done"} /\ stop_timer \in BOOLEAN
    /\ tcp_no_delay \in BOOLEAN

Init ==
    /\ pc = [p \in Caller |-> "idle"]
    /\ result = [p \in Caller |-> "none"]
    /\ calls = 0
    /\ has_stop = FALSE /\ start_flag = "none" /\ stop_flag = "none"
    /\ ec = "ok"
    /\ thd = "none" /\ guards = TRUE /\ ctx = [k \in Ctx |-> "idle"]
    /\ acceptor = "closed" /\ close_posted = FALSE
    /\ accept_pc = "none" /\ accepted = NoConn
    /\ conns = {} /\ conn_close = {}
    /\ sock = [c \in Conn |-> "none"]
    /\ loop = [c \in Conn |-> "none"]
    /\ timer = "none" /\ stop_timer = FALSE
    /\ tcp_no_delay \in BOOLEAN

Goto(p, l) == pc' = [pc EXCEPT ![p] = l]

Return(p, r) ==
    /\ Goto(p, "idle")
    /\ result' = [result EXCEPT ![p] = r]

-----------------------------------------------------------------------------
(* start_impl() *)

NobodyAt(S) == \A p \in Caller : pc[p] \notin S

StartCall(p) ==
    /\ pc[p] = "idle" /\ calls < MaxCalls
    /\ "start" \in Overlap \/ NobodyAt({"stop_once"})
    /\ calls' = calls + 1
    /\ IF has_stop THEN Return(p, "operation_canceled")
       ELSE Goto(p, "start_once") /\ UNCHANGED result
    /\ UNCHANGED <<flagVars, poolVars, acceptVars, connVars, optVars>>

\* call_once: the first caller runs the lambda, the others wait for it.
StartOnce(p) ==
    /\ pc[p] = "start_once"
    /\ \/ /\ start_flag = "none"
          /\ start_flag' = "active"
          /\ Goto(p, "listen")
       \/ /\ start_flag = "done"
          /\ Goto(p, "return")
          /\ UNCHANGED start_flag
    /\ UNCHANGED <<result, calls, has_stop, stop_flag, ec, poolVars, acceptVars,
                   connVars, optVars>>

ListenDone(p) ==
    /\ pc[p] = "listen"
    /\ acceptor' = "listening"
    /\ ec' = "ok"
    /\ Goto(p, "run")
    /\ UNCHANGED <<result, calls, has_stop, start_flag, stop_flag, poolVars,
                   close_posted, accept_pc, accepted, connVars, optVars>>

\* Mutant: the outcome of listen() is not assigned.
NotAssigned == UNCHANGED ec

ListenError == ec' = "error"

\* The address does not resolve, or it is in use: nothing else is started.
ListenFail(p) ==
    /\ pc[p] = "listen"
    /\ ListenError
    /\ start_flag' = "done"
    /\ Goto(p, "return")
    /\ UNCHANGED <<result, calls, has_stop, stop_flag, poolVars, acceptVars,
                   connVars, optVars>>

\* Mutant: the threads of the pool are detached.
RunDetached == ctx' = [k \in Ctx |-> "running"] /\ UNCHANGED thd

RunPool == ctx' = [k \in Ctx |-> "running"] /\ thd' = "running"

StartThread(p) ==
    /\ pc[p] = "run"
    /\ RunPool
    /\ \E l \in {"spawn", "spawn_wait"} : Goto(p, l)
    /\ UNCHANGED <<result, calls, flagVars, guards, acceptVars, connVars,
                   optVars>>

SpawnAccept(p) ==
    /\ accept_pc' = "spawned"
    /\ \/ /\ pc[p] = "spawn"
          /\ start_flag' = "done"
          /\ Goto(p, "return")
       \/ /\ pc[p] = "spawn_wait"
          /\ Goto(p, "wait")
          /\ UNCHANGED start_flag
    /\ UNCHANGED <<result, calls, has_stop, stop_flag, ec, poolVars, acceptor,
                   close_posted, accepted, connVars, optVars>>

\* start(): future.wait() lasts as long as accept().
AcceptFuture(p) ==
    /\ pc[p] = "wait" /\ accept_pc = "done"
    /\ start_flag' = "done"
    /\ Goto(p, "return")
    /\ UNCHANGED <<result, calls, has_stop, stop_flag, ec, poolVars, acceptVars,
                   connVars, optVars>>

StartReturn(p) ==
    /\ pc[p] = "return"
    /\ Return(p, ec)
    /\ UNCHANGED <<calls, flagVars, poolVars, acceptVars, connVars, optVars>>

\* Another rpc_server of the process runs listen(): the same static ec.
OtherStart ==
    /\ ec' \in {"other_ok", "other_error"}
    /\ UNCHANGED <<callVars, has_stop, start_flag, stop_flag, poolVars,
                   acceptVars, connVars, optVars>>

-----------------------------------------------------------------------------
(* stop() *)

StopCall(p) ==
    /\ pc[p] = "idle" /\ calls < MaxCalls
    /\ "start" \in Overlap \/ NobodyAt(Starting \ {"wait", "return"})
    /\ NobodyAt({"stop_once"})
    /\ calls' = calls + 1
    /\ IF has_stop THEN UNCHANGED pc ELSE Goto(p, "stop_once")
    /\ UNCHANGED <<result, flagVars, poolVars, acceptVars, connVars, optVars>>

StopOnce(p) ==
    /\ pc[p] = "stop_once"
    /\ "accept" \in Overlap \/ accepted = NoConn
    /\ stop_flag = "none"
    /\ stop_flag' = "active" /\ has_stop' = TRUE
    /\ Goto(p, "stop_acceptor")
    /\ UNCHANGED <<result, calls, start_flag, ec, poolVars, acceptVars, connVars,
                   optVars>>

\* Mutant: the acceptor is left alone.
KeepAcceptor == UNCHANGED close_posted

DispatchClose == close_posted' = TRUE

StopAcceptor(p) ==
    /\ pc[p] = "stop_acceptor"
    /\ DispatchClose
    /\ stop_timer' = TRUE
    /\ Goto(p, "stop_conns")
    /\ UNCHANGED <<result, calls, flagVars, poolVars, acceptor, accept_pc,
                   accepted, connVars, timer, tcp_no_delay>>

\* close(false) of a connection: nothing if it is closed already.
PostClose(S) == conn_close' = conn_close \cup {c \in S : sock[c] # "closed"}

\* Mutant: the connections are closed and stay in the map.
KeepConns == UNCHANGED conns

ClearConns == conns' = {}

StopConns(p) ==
    /\ pc[p] = "stop_conns"
    /\ PostClose(conns)
    /\ ClearConns
    /\ Goto(p, "stop_pool")
    /\ UNCHANGED <<result, calls, flagVars, poolVars, acceptVars, sock, loop,
                   optVars>>

\* Mutant: works_ is not cleared.
KeepWorks == UNCHANGED guards

ClearWorks == guards' = FALSE

StopPool(p) ==
    /\ pc[p] = "stop_pool"
    /\ ClearWorks
    /\ stop_flag' = "done"
    /\ Goto(p, "join")
    /\ UNCHANGED <<result, calls, has_stop, start_flag, ec, thd, ctx, acceptVars,
                   connVars, optVars>>

Join(p) ==
    /\ pc[p] = "join"
    /\ thd # "running"
    /\ thd' = IF thd = "finished" THEN "joined" ELSE thd
    /\ Goto(p, "idle")
    /\ UNCHANGED <<result, calls, flagVars, guards, ctx, acceptVars, connVars,
                   optVars>>

-----------------------------------------------------------------------------
(* What runs on the io_contexts *)

RunClose ==
    /\ close_posted /\ ctx[AcceptorCtx] = "running"
    /\ close_posted' = FALSE
    /\ acceptor' = "closed"
    /\ UNCHANGED <<callVars, flagVars, poolVars, accept_pc, accepted, connVars,
                   optVars>>

AcceptBegin ==
    /\ accept_pc = "spawned" /\ ctx[AcceptorCtx] = "running"
    /\ accept_pc' = "waiting"
    /\ UNCHANGED <<callVars, flagVars, poolVars, acceptor, close_posted,
                   accepted, connVars, optVars>>

\* async_accept completes with a connection.
AcceptConn(c) ==
    /\ accept_pc = "waiting" /\ accepted = NoConn
    /\ acceptor = "listening" /\ sock[c] = "none"
    /\ "accept" \in Overlap \/ ~has_stop
    /\ accepted' = c
    /\ sock' = [sock EXCEPT ![c] = "open"]
    /\ UNCHANGED <<callVars, flagVars, poolVars, acceptor, close_posted,
                   accept_pc, conns, loop, conn_close, optVars>>

\* Mutant: every error ends accept().
EndOnError(c) ==
    accept_pc' = "done" /\ UNCHANGED <<accepted, sock>>

\* With tcp_no_delay_, set_option() throws on the socket that was not opened
\* and the exception ends accept(), unseen; without, accept() goes on with it.
AfterError(c) ==
    \/ /\ tcp_no_delay
       /\ accept_pc' = "done"
       /\ UNCHANGED <<accepted, sock>>
    \/ /\ ~tcp_no_delay
       /\ accepted' = c
       /\ sock' = [sock EXCEPT ![c] = "gone"]
       /\ UNCHANGED accept_pc

\* async_accept fails by an error other than the two that accept() expects,
\* such as no_descriptors: c is the socket that was to be accepted.
AcceptError(c) ==
    /\ accept_pc = "waiting" /\ accepted = NoConn
    /\ acceptor = "listening" /\ sock[c] = "none"
    /\ "accept" \in Overlap \/ ~has_stop
    /\ ctx[AcceptorCtx] = "running"
    /\ AfterError(c)
    /\ UNCHANGED <<callVars, flagVars, poolVars, acceptor, close_posted,
                   conns, loop, conn_close, optVars>>

\* accept() registers it, spawns its start() and accepts again. Nothing here
\* looks at has_stop_.
AcceptRegister ==
    /\ accepted # NoConn /\ ctx[AcceptorCtx] = "running"
    /\ conns' = conns \cup {accepted}
    /\ loop' = [loop EXCEPT ![accepted] = "spawned"]
    /\ accepted' = NoConn
    /\ UNCHANGED <<callVars, flagVars, poolVars, acceptor, close_posted,
                   accept_pc, sock, conn_close, optVars>>

\* operation_aborted, or bad_descriptor on an acceptor closed before.
AcceptEnd ==
    /\ accept_pc = "waiting" /\ accepted = NoConn
    /\ acceptor = "closed" /\ ctx[AcceptorCtx] = "running"
    /\ accept_pc' = "done"
    /\ UNCHANGED <<callVars, flagVars, poolVars, acceptor, close_posted,
                   accepted, connVars, optVars>>

ConnStart(c) ==
    /\ loop[c] = "spawned" /\ ctx[CtxOf[c]] = "running"
    /\ loop' = [loop EXCEPT ![c] = "reading"]
    /\ UNCHANGED <<callVars, flagVars, poolVars, acceptVars, conns, sock,
                   conn_close, optVars>>

\* The read fails; close() runs the quit callback unless it was done before.
ConnEnd(c) ==
    /\ loop[c] = "reading" /\ sock[c] \in {"gone", "closed"}
    /\ ctx[CtxOf[c]] = "running"
    /\ loop' = [loop EXCEPT ![c] = "ended"]
    /\ conns' = IF sock[c] = "closed" THEN conns ELSE conns \ {c}
    /\ sock' = [sock EXCEPT ![c] = "closed"]
    /\ UNCHANGED <<callVars, flagVars, poolVars, acceptVars, conn_close,
                   optVars>>

\* A wrong magic number ends start() and leaves the socket and conns_ alone.
ConnBadMagic(c) ==
    /\ loop[c] = "reading" /\ sock[c] # "closed" /\ ctx[CtxOf[c]] = "running"
    /\ loop' = [loop EXCEPT ![c] = "ended"]
    /\ UNCHANGED <<callVars, flagVars, poolVars, acceptVars, conns, sock,
                   conn_close, optVars>>

ConnClose(c) ==
    /\ c \in conn_close /\ ctx[CtxOf[c]] = "running"
    /\ conn_close' = conn_close \ {c}
    /\ sock' = [sock EXCEPT ![c] = "closed"]
    /\ UNCHANGED <<callVars, flagVars, poolVars, acceptVars, conns, loop,
                   optVars>>

\* The client closes its end.
ClientGone(c) ==
    /\ sock[c] = "open"
    /\ sock' = [sock EXCEPT ![c] = "gone"]
    /\ UNCHANGED <<callVars, flagVars, poolVars, acceptVars, conns, loop,
                   conn_close, optVars>>

\* set_conn_max_age(), before, during or after stop(): start_check_timer() is
\* spawned, and never run if its io_context has stopped. A second call takes
\* the timer over (RpcExpiry).
SetConnMaxAge ==
    /\ timer = "none"
    /\ timer' = IF ctx[TimerCtx] = "stopped" THEN "done" ELSE "armed"
    /\ UNCHANGED <<callVars, flagVars, poolVars, acceptVars, connVars,
                   stop_timer, tcp_no_delay>>

\* The timer expires: stop_timer_ ends it, else check_timeout() closes the
\* connections that have been quiet for too long.
TimerStop ==
    /\ timer = "armed" /\ stop_timer /\ ctx[TimerCtx] = "running"
    /\ timer' = "done"
    /\ UNCHANGED <<callVars, flagVars, poolVars, acceptVars, connVars,
                   stop_timer, tcp_no_delay>>

CheckTimeout(S) ==
    /\ timer = "armed" /\ ~stop_timer /\ ctx[TimerCtx] = "running"
    /\ S # {} /\ S \subseteq conns
    /\ PostClose(S)
    /\ conns' = conns \ S
    /\ UNCHANGED <<callVars, flagVars, poolVars, acceptVars, sock, loop,
                   optVars>>

\* What keeps io_context::run() from returning.
Work(k) ==
    \/ guards
    \/ k = AcceptorCtx /\ (close_posted \/ accept_pc \in {"spawned", "waiting"})
    \/ k = TimerCtx /\ timer = "armed"
    \/ \E c \in Conn :
         CtxOf[c] = k /\ (loop[c] \in {"spawned", "reading"} \/ c \in conn_close)

CtxStop(k) ==
    /\ ctx[k] = "running" /\ ~Work(k)
    /\ ctx' = [ctx EXCEPT ![k] = "stopped"]
    /\ UNCHANGED <<callVars, flagVars, thd, guards, acceptVars, connVars,
                   optVars>>

\* io_context_pool::run() has joined its threads.
PoolDone ==
    /\ thd = "running" /\ \A k \in Ctx : ctx[k] = "stopped"
    /\ thd' = "finished"
    /\ UNCHANGED <<callVars, flagVars, guards, ctx, acceptVars, connVars,
                   optVars>>

-----------------------------------------------------------------------------
StartImpl(p) ==
    \/ StartOnce(p) \/ ListenDone(p) \/ ListenFail(p) \/ StartThread(p)
    \/ SpawnAccept(p) \/ AcceptFuture(p) \/ StartReturn(p)

StopImpl(p) ==
    \/ StopOnce(p) \/ StopAcceptor(p) \/ StopConns(p) \/ StopPool(p) \/ Join(p)

Accept ==
    \/ AcceptBegin
    \/ \E c \in Conn : AcceptConn(c) \/ AcceptError(c)
    \/ AcceptRegister
    \/ AcceptEnd

Connection(c) ==
    \/ ConnStart(c) \/ ConnEnd(c) \/ ConnBadMagic(c)
    \/ ConnClose(c) \/ ClientGone(c)

Timer ==
    \/ SetConnMaxAge
    \/ TimerStop
    \/ \E S \in SUBSET Conn : CheckTimeout(S)

Next ==
    \/ \E p \in Caller : StartCall(p) \/ StopCall(p) \/ StartImpl(p) \/ StopImpl(p)
    \/ OtherStart
    \/ RunClose \/ Accept
    \/ \E c \in Conn : Connection(c)
    \/ Timer
    \/ \E k \in Ctx : CtxStop(k)
    \/ PoolDone

Spec == Init /\ [][Next]_vars

(***************************************************************************)
(* Threads are scheduled, what is queued on a running io_context is run,   *)
(* and the check timer expires. Clients owe nothing: one may stay          *)
(* connected and silent for ever.                                          *)
(***************************************************************************)
Fairness ==
    /\ \A p \in Caller : WF_vars(StartImpl(p)) /\ WF_vars(StopImpl(p))
    /\ WF_vars(RunClose)
    /\ WF_vars(AcceptBegin) /\ WF_vars(AcceptRegister) /\ WF_vars(AcceptEnd)
    /\ \A c \in Conn :
         WF_vars(ConnStart(c)) /\ WF_vars(ConnEnd(c)) /\ WF_vars(ConnClose(c))
    /\ WF_vars(TimerStop)
    /\ \A k \in Ctx : WF_vars(CtxStop(k))
    /\ WF_vars(PoolDone)

FairSpec == Spec /\ Fairness

-----------------------------------------------------------------------------
(* Properties *)

\* The thread that carried out stop() has come back.
Stopped == stop_flag = "done" /\ NobodyAt({"join"})

(***************************************************************************)
(* Once stop() is back the server is gone: the acceptor is closed, thd_    *)
(* is joined or was never started, no connection is registered and no      *)
(* accepted socket is open, whatever was posted to which io_context.       *)
(***************************************************************************)
StoppedQuiet ==
    Stopped =>
        /\ acceptor = "closed" /\ thd \in {"none", "joined"}
        /\ conns = {}
        /\ \A c \in Conn : sock[c] \in {"none", "closed"}

(***************************************************************************)
(* A server accepts until it is stopped, and start() does not return       *)
(* before, whatever errors async_accept reports; unless tcp_no_delay_, the *)
(* default, makes accept() throw on the first error it does not expect.    *)
(***************************************************************************)
ServesUntilStopped ==
    accept_pc = "done" => has_stop \/ tcp_no_delay

(***************************************************************************)
(* start() reports success only if this server was started, whichever of   *)
(* several callers ran listen() and whenever they ask. The one exception:  *)
(* the outcome is a static variable, and another server of the process may *)
(* have written it since ("other_ok").                                     *)
(***************************************************************************)
StartTruthful == \A p \in Caller : result[p] = "ok" => thd # "none"

(***************************************************************************)
(* stop() returns, although silent clients are connected and the check     *)
(* timer is running: the io_contexts run out of work one by one.           *)
(***************************************************************************)
StopReturns == \A p \in Caller : (pc[p] \in Stopping) ~> (pc[p] = "idle")

(***************************************************************************)
(* A start() that is serving returns once the server is stopped.           *)
(***************************************************************************)
StartReturns ==
    \A p \in Caller : (pc[p] \in Starting /\ has_stop) ~> (pc[p] = "idle")
-----------------------------------------------------------------------------
(* Why start() and stop() work, as an inductive invariant *)

\* The lambda that start_flag_ runs once.
Lambda == {"listen", "run", "spawn", "spawn_wait", "wait"}

\* call_once: one caller is inside the lambda and the others wait for it.
StartedOnce ==
    /\ \A p \in Caller :
         /\ pc[p] \in Lambda => start_flag = "active"
         /\ pc[p] = "return" => start_flag = "done"
         /\ pc[p] \in {"listen", "run"} => thd = "none"
         /\ pc[p] \in {"spawn", "spawn_wait", "wait"} => thd # "none"
    /\ \A p, q \in Caller : pc[p] \in Lambda /\ pc[q] \in Lambda => p = q
    /\ start_flag = "none" => thd = "none"
    /\ start_flag = "done" /\ ec = "ok" => thd # "none"

\* The acceptor listens until stop(), and nothing is served without threads.
AcceptorServes ==
    /\ close_posted \/ (\E p \in Caller : pc[p] \in Stopping \ {"stop_once"})
         => has_stop
    /\ accept_pc \in {"spawned", "waiting"} => acceptor = "listening" \/ has_stop
    /\ \A p \in Caller :
         pc[p] \in {"run", "spawn", "spawn_wait", "wait"} =>
            acceptor = "listening" \/ has_stop
    /\ accept_pc # "none" => thd # "none"
    /\ acceptor = "listening" => thd # "none" \/ \E p \in Caller : pc[p] = "run"
    /\ \A k \in Ctx : ctx[k] = "idle" <=> thd = "none"
    /\ thd \in {"finished", "joined"} => \A k \in Ctx : ctx[k] = "stopped"
    /\ thd = "none" => accepted = NoConn /\ \A c \in Conn : sock[c] = "none"

\* One caller carries stop() out, while nobody is on the way to accept().
StoppedOnce ==
    /\ \A p, q \in Caller : pc[p] \in Stopping /\ pc[q] \in Stopping => p = q
    /\ \A p \in Caller : pc[p] = "stop_once" => ~has_stop
    /\ has_stop \/ ~NobodyAt({"stop_once"}) => NobodyAt(Starting \ {"wait", "return"})
    /\ stop_flag = "none" <=> ~has_stop
    /\ guards <=> stop_flag # "done"
    /\ stop_flag = "done" => NobodyAt(Stopping \ {"join"})

\* How far stop() has come, and what then is left.
StopLeaves ==
    /\ has_stop => accepted = NoConn
    /\ has_stop /\ NobodyAt({"stop_acceptor"}) =>
         stop_timer /\ (close_posted \/ acceptor = "closed")
    /\ has_stop /\ NobodyAt({"stop_acceptor", "stop_conns"}) => conns = {}
    /\ \A c \in Conn :
         sock[c] \in {"open", "gone"} => c \in conns \cup conn_close \cup {accepted}
    /\ Stopped => thd \in {"none", "joined"}
    /\ \A k \in Ctx : ctx[k] = "stopped" => ~Work(k)

(***************************************************************************)
(* The inductive invariant behind StoppedQuiet: stop() has to reach all    *)
(* that keeps an io_context running before it waits for the last one, and  *)
(* an io_context that ran out of work never gets work again.               *)
(***************************************************************************)
StopInv == StoppedOnce /\ StopLeaves
=============================================================================
