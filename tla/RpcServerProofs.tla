--------------------------- MODULE RpcServerProofs ---------------------------
(***************************************************************************)
(* Proofs about the life of a server, for any number of callers,           *)
(* connections, io_contexts and calls.                                     *)
(***************************************************************************)
EXTENDS RpcServer, TLAPS

USE ServerAssumption
USE DEF callVars, flagVars, poolVars, acceptVars, connVars, optVars, Outcome,
        Starting, Stopping

\* The steps that are not taken by a caller of start() or stop().
IoStep ==
    \/ RunClose \/ Accept \/ Timer \/ PoolDone
    \/ \E c \in Conn : Connection(c)
    \/ \E k \in Ctx : CtxStop(k)

\* Initially nothing is started.
LEMMA InitType == Init => TypeOK
<1> SUFFICES ASSUME Init PROVE TypeOK
  OBVIOUS
<1> USE DEF Init
<1>1. /\ pc \in [Caller -> {"idle"} \cup Starting \cup Stopping]
      /\ result \in [Caller -> Outcome \cup {"none", "operation_canceled"}]
      /\ calls \in 0 .. MaxCalls
      /\ {start_flag, stop_flag} \subseteq {"none", "active", "done"}
      /\ ec \in Outcome /\ thd \in {"none", "running", "finished", "joined"}
  OBVIOUS
<1>2. /\ ctx \in [Ctx -> {"idle", "running", "stopped"}]
      /\ \A k \in Ctx : ctx[k] = "running" => thd = "running"
  OBVIOUS
<1>3. /\ has_stop \in BOOLEAN /\ guards \in BOOLEAN /\ close_posted \in BOOLEAN
      /\ stop_timer \in BOOLEAN /\ tcp_no_delay \in BOOLEAN
  BY Zenon
<1>4. /\ sock \in [Conn -> {"none", "open", "gone", "closed"}]
      /\ loop \in [Conn -> {"none", "spawned", "reading", "ended"}]
  OBVIOUS
<1>5. /\ acceptor \in {"closed", "listening"}
      /\ accept_pc \in {"none", "spawned", "waiting", "done"}
      /\ accepted \in Conn \cup {NoConn}
      /\ conns \subseteq Conn /\ conn_close \subseteq Conn
      /\ timer \in {"none", "armed", "done"}
  OBVIOUS
<1> QED BY <1>1, <1>2, <1>3, <1>4, <1>5 DEF TypeOK

\* The steps of start_impl() keep the types.
LEMMA StartType ==
    ASSUME TypeOK, NEW p \in Caller, StartCall(p) \/ StartImpl(p)
    PROVE  TypeOK'
<1> USE DEF TypeOK, Goto, Return
<1>1. CASE StartCall(p)
  BY <1>1 DEF StartCall
<1>2. CASE StartOnce(p)
  BY <1>2 DEF StartOnce
<1>3. CASE ListenDone(p)
  BY <1>3 DEF ListenDone
<1>4. CASE ListenFail(p)
  BY <1>4 DEF ListenFail, ListenError
<1>5. CASE StartThread(p)
  BY <1>5 DEF StartThread, RunPool
<1>6. CASE SpawnAccept(p)
  BY <1>6 DEF SpawnAccept
<1>7. CASE AcceptFuture(p)
  BY <1>7 DEF AcceptFuture
<1>8. CASE StartReturn(p)
  BY <1>8 DEF StartReturn
<1> QED BY <1>1, <1>2, <1>3, <1>4, <1>5, <1>6, <1>7, <1>8 DEF StartImpl

\* The steps of stop() keep the types.
LEMMA StopType ==
    ASSUME TypeOK, NEW p \in Caller, StopCall(p) \/ StopImpl(p)
    PROVE  TypeOK'
<1> USE DEF TypeOK, Goto
<1>1. CASE StopCall(p)
  BY <1>1 DEF StopCall
<1>2. CASE StopOnce(p)
  BY <1>2 DEF StopOnce
<1>3. CASE StopAcceptor(p)
  BY <1>3 DEF StopAcceptor, DispatchClose
<1>4. CASE StopConns(p)
  BY <1>4 DEF StopConns, PostClose, ClearConns
<1>5. CASE StopPool(p)
  <2>1. guards' \in BOOLEAN
    BY <1>5, Zenon DEF StopPool, ClearWorks
  <2> QED BY <1>5, <2>1 DEF StopPool
<1>6. CASE Join(p)
  BY <1>6 DEF Join
<1> QED BY <1>1, <1>2, <1>3, <1>4, <1>5, <1>6 DEF StopImpl

\* What runs on the io_contexts keeps the types.
LEMMA IoType ==
    ASSUME TypeOK, IoStep PROVE TypeOK'
<1> USE DEF TypeOK
<1>1. CASE RunClose
  <2>1. close_posted' \in BOOLEAN
    BY <1>1, Zenon DEF RunClose
  <2> QED BY <1>1, <2>1 DEF RunClose
<1>9. CASE AcceptBegin \/ AcceptEnd
  BY <1>9 DEF AcceptBegin, AcceptEnd
<1>2. ASSUME NEW c \in Conn, AcceptConn(c) PROVE TypeOK'
  BY <1>2 DEF AcceptConn
<1>3. ASSUME NEW c \in Conn, AcceptError(c) PROVE TypeOK'
  BY <1>3 DEF AcceptError, AfterError
<1>4. CASE AcceptRegister
  BY <1>4 DEF AcceptRegister
<1>5. ASSUME NEW c \in Conn, Connection(c) PROVE TypeOK'
  BY <1>5 DEF Connection, ConnStart, ConnEnd, ConnBadMagic, ConnClose, ClientGone
<1>6. CASE Timer
  BY <1>6 DEF Timer, SetConnMaxAge, TimerStop, CheckTimeout, PostClose
<1>7. ASSUME NEW k \in Ctx, CtxStop(k) PROVE TypeOK'
  BY <1>7 DEF CtxStop
<1>8. CASE PoolDone
  BY <1>8 DEF PoolDone
<1> QED BY <1>1, <1>2, <1>3, <1>4, <1>5, <1>6, <1>7, <1>8, <1>9 DEF IoStep, Accept

LEMMA NextType == TypeOK /\ [Next]_vars => TypeOK'
<1> SUFFICES ASSUME TypeOK, [Next]_vars PROVE TypeOK'
  OBVIOUS
<1>1. CASE OtherStart
  BY <1>1 DEF OtherStart, TypeOK
<1>2. CASE UNCHANGED vars
  BY <1>2 DEF vars, TypeOK
<1> QED BY <1>1, <1>2, StartType, StopType, IoType DEF Next, IoStep

(***************************************************************************)
(* Every variable keeps its type, and io_contexts only run on the threads  *)
(* that stop() joins.                                                      *)
(***************************************************************************)
THEOREM TypeCorrect == Spec => []TypeOK
  BY InitType, NextType, PTL DEF Spec

-----------------------------------------------------------------------------
(* start() *)

\* A step on an io_context is no step of a caller, and starts no thread.
LEMMA IoQuiet ==
    ASSUME IoStep
    PROVE  /\ UNCHANGED <<callVars, flagVars, guards, stop_timer, tcp_no_delay>>
           /\ thd' # thd => PoolDone
           /\ ctx' # ctx => \E k \in Ctx : CtxStop(k)
  BY DEF IoStep, RunClose, Accept, AcceptBegin, AcceptConn, AcceptError,
         AcceptRegister, AcceptEnd, Timer, SetConnMaxAge, TimerStop, CheckTimeout,
         PoolDone, Connection, ConnStart, ConnEnd, ConnBadMagic, ConnClose,
         ClientGone, CtxStop

\* call_once lets one caller in, and what it leaves in ec is the outcome.
LEMMA StartedOnceStep ==
    ASSUME TypeOK, StartedOnce, [Next]_vars PROVE StartedOnce'
<1> USE DEF TypeOK, StartedOnce, Lambda, Goto, Return
<1>1. ASSUME NEW p \in Caller, StartCall(p) PROVE StartedOnce'
  BY <1>1 DEF StartCall
<1>2. ASSUME NEW p \in Caller, StartOnce(p) PROVE StartedOnce'
  BY <1>2 DEF StartOnce
<1>3. ASSUME NEW p \in Caller, ListenDone(p) PROVE StartedOnce'
  BY <1>3 DEF ListenDone
<1>4. ASSUME NEW p \in Caller, ListenFail(p) PROVE StartedOnce'
  BY <1>4 DEF ListenFail, ListenError
<1>5. ASSUME NEW p \in Caller, StartThread(p) PROVE StartedOnce'
  BY <1>5 DEF StartThread, RunPool
<1>6. ASSUME NEW p \in Caller, SpawnAccept(p) PROVE StartedOnce'
  BY <1>6 DEF SpawnAccept
<1>7. ASSUME NEW p \in Caller, AcceptFuture(p) PROVE StartedOnce'
  BY <1>7 DEF AcceptFuture
<1>8. ASSUME NEW p \in Caller, StartReturn(p) PROVE StartedOnce'
  BY <1>8 DEF StartReturn
<1>9. ASSUME NEW p \in Caller, StopCall(p) \/ StopOnce(p) \/ StopAcceptor(p) \/ StopConns(p)
                                 \/ StopPool(p)
      PROVE  StartedOnce'
  BY <1>9 DEF StopCall, StopOnce, StopAcceptor, StopConns, StopPool
<1>10. ASSUME NEW p \in Caller, Join(p) PROVE StartedOnce'
  BY <1>10 DEF Join
<1>11. CASE IoStep
  BY <1>11, IoQuiet DEF PoolDone
<1>12. CASE OtherStart
  BY <1>12 DEF OtherStart
<1>13. CASE UNCHANGED vars
  BY <1>13 DEF vars
<1> QED BY <1>1, <1>2, <1>3, <1>4, <1>5, <1>6, <1>7, <1>8, <1>9, <1>10, <1>11, <1>12,
           <1>13 DEF Next, StartImpl, StopImpl, IoStep

LEMMA StartedOnceHolds == Spec => [](TypeOK /\ StartedOnce)
<1>1. Init => StartedOnce
  BY DEF Init, StartedOnce, Lambda
<1> QED BY InitType, NextType, <1>1, StartedOnceStep, PTL DEF Spec

(***************************************************************************)
(* A start() that reports success has a server running, or one that was    *)
(* stopped since, whoever ran listen(); a success that another server      *)
(* wrote to the static error code is told apart.                           *)
(***************************************************************************)
THEOREM StartTruthfulHolds == Spec => []StartTruthful
<1>1. Init => StartTruthful
  BY DEF Init, StartTruthful
<1>2. TypeOK /\ StartedOnce /\ StartTruthful /\ [Next]_vars => StartTruthful'
  <2> SUFFICES ASSUME TypeOK, StartedOnce, StartTruthful, [Next]_vars,
                      NEW p \in Caller, result'[p] = "ok"
               PROVE  thd' # "none"
    BY DEF StartTruthful
  <2>1. thd # "none" => thd' # "none"
    <3>1. ASSUME NEW q \in Caller, StartCall(q) \/ StartImpl(q) \/ StopCall(q) \/ StopImpl(q),
                 thd # "none"
          PROVE  thd' # "none"
      BY <3>1 DEF StartCall, StartImpl, StopCall, StopImpl, StartOnce, ListenDone,
              ListenFail, StartThread, RunPool, SpawnAccept, AcceptFuture, StartReturn,
              StopOnce, StopAcceptor, StopConns, StopPool, Join, TypeOK
    <3>2. CASE IoStep
      BY <3>2, IoQuiet DEF PoolDone
    <3> QED BY <3>1, <3>2 DEF Next, IoStep, OtherStart, vars
  <2>2. result[p] = "ok" \/ StartReturn(p)
    <3>1. ASSUME NEW q \in Caller, StartCall(q) \/ StartImpl(q) \/ StopCall(q) \/ StopImpl(q)
          PROVE  result[p] = "ok" \/ StartReturn(p)
      BY <3>1 DEF StartCall, StartImpl, StopCall, StopImpl, StartOnce, ListenDone,
              ListenFail, StartThread, SpawnAccept, AcceptFuture, StartReturn, Return,
              StopOnce, StopAcceptor, StopConns, StopPool, Join, TypeOK
    <3>2. CASE IoStep
      BY <3>2, IoQuiet
    <3> QED BY <3>1, <3>2 DEF Next, IoStep, OtherStart, vars
  <2>3. CASE StartReturn(p)
    BY <2>1, <2>3 DEF StartReturn, Return, StartedOnce, TypeOK
  <2> QED BY <2>1, <2>2, <2>3 DEF StartTruthful
<1> QED BY <1>1, <1>2, StartedOnceHolds, PTL DEF Spec

-----------------------------------------------------------------------------
(* accept() *)

\* The acceptor is closed by stop() only, and nothing is served unstarted.
LEMMA AcceptorServesStep ==
    ASSUME TypeOK, StartedOnce, AcceptorServes, [Next]_vars PROVE AcceptorServes'
<1> USE DEF TypeOK, AcceptorServes, Goto, Return
<1>1. ASSUME NEW p \in Caller, StartCall(p) \/ StartOnce(p) PROVE AcceptorServes'
  BY <1>1 DEF StartCall, StartOnce
<1>3. ASSUME NEW p \in Caller, ListenDone(p) PROVE AcceptorServes'
  BY <1>3 DEF ListenDone
<1>4. ASSUME NEW p \in Caller, ListenFail(p) PROVE AcceptorServes'
  BY <1>4 DEF ListenFail, ListenError
<1>5. ASSUME NEW p \in Caller, StartThread(p) PROVE AcceptorServes'
  BY <1>5 DEF StartThread, RunPool
<1>6. ASSUME NEW p \in Caller, SpawnAccept(p) PROVE AcceptorServes'
  BY <1>6 DEF SpawnAccept, StartedOnce
<1>7. ASSUME NEW p \in Caller, AcceptFuture(p) \/ StartReturn(p) PROVE AcceptorServes'
  BY <1>7 DEF AcceptFuture, StartReturn
<1>8. ASSUME NEW p \in Caller, StopCall(p) \/ StopOnce(p) PROVE AcceptorServes'
  BY <1>8 DEF StopCall, StopOnce
<1>9. ASSUME NEW p \in Caller, StopAcceptor(p) \/ StopConns(p) \/ StopPool(p)
      PROVE  AcceptorServes'
  BY <1>9 DEF StopAcceptor, StopConns, StopPool
<1>10. ASSUME NEW p \in Caller, Join(p) PROVE AcceptorServes'
  BY <1>10 DEF Join
<1>11. CASE IoStep
  <2>1. CASE RunClose \/ AcceptBegin \/ AcceptRegister \/ AcceptEnd
    BY <2>1 DEF RunClose, AcceptBegin, AcceptRegister, AcceptEnd
  <2>2. ASSUME NEW c \in Conn, AcceptConn(c) \/ AcceptError(c) PROVE AcceptorServes'
    BY <2>2 DEF AcceptConn, AcceptError, AfterError
  <2>3. ASSUME NEW c \in Conn, Connection(c) PROVE AcceptorServes'
    <3>1. thd # "none" \/ ClientGone(c)
      BY <2>3 DEF Connection, ConnStart, ConnEnd, ConnBadMagic, ConnClose
    <3>2. thd # "none"
      BY <3>1 DEF ClientGone
    <3> QED BY <2>3, <3>2 DEF Connection, ConnStart, ConnEnd, ConnBadMagic, ConnClose,
                              ClientGone
  <2>4. CASE Timer
    BY <2>4 DEF Timer, SetConnMaxAge, TimerStop, CheckTimeout
  <2>5. ASSUME NEW k \in Ctx, CtxStop(k) PROVE AcceptorServes'
    BY <2>5 DEF CtxStop
  <2>6. CASE PoolDone
    BY <2>6 DEF PoolDone
  <2> QED BY <1>11, <2>1, <2>2, <2>3, <2>4, <2>5, <2>6 DEF IoStep, Accept
<1>12. CASE OtherStart
  BY <1>12 DEF OtherStart
<1>13. CASE UNCHANGED vars
  BY <1>13 DEF vars
<1> QED BY <1>1, <1>3, <1>4, <1>5, <1>6, <1>7, <1>8, <1>9, <1>10, <1>11, <1>12,
           <1>13 DEF Next, StartImpl, StopImpl, IoStep

LEMMA AcceptorServesHolds == Spec => [](TypeOK /\ StartedOnce /\ AcceptorServes)
<1>1. Init => AcceptorServes
  BY DEF Init, AcceptorServes
<1> QED BY <1>1, StartedOnceHolds, AcceptorServesStep, PTL DEF Spec

(***************************************************************************)
(* accept() goes on until stop() is called, or until an error that it does *)
(* not expect while tcp_no_delay_ is on.                                   *)
(***************************************************************************)
THEOREM ServesUntilStoppedHolds == Spec => []ServesUntilStopped
<1>1. Init => ServesUntilStopped
  BY DEF Init, ServesUntilStopped
<1>2. TypeOK /\ AcceptorServes /\ ServesUntilStopped /\ [Next]_vars => ServesUntilStopped'
  <2> SUFFICES ASSUME TypeOK, AcceptorServes, ServesUntilStopped, [Next]_vars
               PROVE  ServesUntilStopped'
    OBVIOUS
  <2> USE DEF ServesUntilStopped
  <2>1. ASSUME NEW p \in Caller, StartCall(p) \/ StartImpl(p) \/ StopCall(p) \/ StopImpl(p)
        PROVE  ServesUntilStopped'
    BY <2>1 DEF StartCall, StartImpl, StopCall, StopImpl, StartOnce, ListenDone,
            ListenFail, StartThread, SpawnAccept, AcceptFuture, StartReturn,
            StopOnce, StopAcceptor, StopConns, StopPool, Join
  <2>2. CASE Accept
    BY <2>2 DEF Accept, AcceptBegin, AcceptConn, AcceptError, AfterError,
                AcceptRegister, AcceptEnd, AcceptorServes
  <2>3. CASE IoStep /\ ~Accept
    BY <2>3 DEF IoStep, RunClose, Timer, SetConnMaxAge, TimerStop, CheckTimeout,
                PoolDone, Connection, ConnStart, ConnEnd, ConnBadMagic, ConnClose,
                ClientGone, CtxStop
  <2> QED BY <2>1, <2>2, <2>3 DEF Next, IoStep, OtherStart, vars
<1> QED BY <1>1, <1>2, AcceptorServesHolds, PTL DEF Spec

-----------------------------------------------------------------------------
(* stop() *)

\* One caller passes the test of has_stop_ and carries stop() out.
LEMMA StoppedOnceStep ==
    ASSUME Overlap = {}, TypeOK, AcceptorServes, StoppedOnce, [Next]_vars
    PROVE  StoppedOnce'
<1> USE DEF TypeOK, StoppedOnce, NobodyAt, Goto, Return
<1>1. ASSUME NEW p \in Caller, StartCall(p) PROVE StoppedOnce'
  BY <1>1 DEF StartCall
<1>2. ASSUME NEW p \in Caller, StartOnce(p) PROVE StoppedOnce'
  BY <1>2 DEF StartOnce
<1>3. ASSUME NEW p \in Caller, ListenDone(p) \/ ListenFail(p) PROVE StoppedOnce'
  BY <1>3 DEF ListenDone, ListenFail
<1>4. ASSUME NEW p \in Caller, StartThread(p) \/ SpawnAccept(p) PROVE StoppedOnce'
  BY <1>4 DEF StartThread, SpawnAccept
<1>5. ASSUME NEW p \in Caller, AcceptFuture(p) \/ StartReturn(p) PROVE StoppedOnce'
  BY <1>5 DEF AcceptFuture, StartReturn
<1>6. ASSUME NEW p \in Caller, StopCall(p) PROVE StoppedOnce'
  BY <1>6 DEF StopCall, AcceptorServes
<1>7. ASSUME NEW p \in Caller, StopOnce(p) PROVE StoppedOnce'
  BY <1>7 DEF StopOnce
<1>8. ASSUME NEW p \in Caller, StopAcceptor(p) \/ StopConns(p) PROVE StoppedOnce'
  BY <1>8 DEF StopAcceptor, StopConns
<1>9. ASSUME NEW p \in Caller, StopPool(p) PROVE StoppedOnce'
  <2>1. ~guards'
    BY <1>9, Zenon DEF StopPool, ClearWorks
  <2>2. stop_flag' = "done" /\ has_stop' = has_stop /\ Goto(p, "join")
    BY <1>9 DEF StopPool
  <2> QED BY <1>9, <2>1, <2>2 DEF AcceptorServes, StopPool
<1>10. ASSUME NEW p \in Caller, Join(p) PROVE StoppedOnce'
  BY <1>10 DEF Join
<1>11. CASE IoStep
  BY <1>11, IoQuiet
<1>12. CASE OtherStart
  BY <1>12 DEF OtherStart
<1>13. CASE UNCHANGED vars
  BY <1>13 DEF vars
<1> QED BY <1>1, <1>2, <1>3, <1>4, <1>5, <1>6, <1>7, <1>8, <1>9, <1>10, <1>11, <1>12,
           <1>13 DEF Next, StartImpl, StopImpl, IoStep

\* The steps of the callers leave what stop() relies on.
LEMMA StopLeavesCaller ==
    ASSUME Overlap = {}, TypeOK, StartedOnce, AcceptorServes, StoppedOnce, StopLeaves,
           NEW p \in Caller, StartCall(p) \/ StartImpl(p) \/ StopCall(p) \/ StopImpl(p)
    PROVE  StopLeaves'
<1> USE DEF TypeOK, StoppedOnce, StopLeaves, Stopped, NobodyAt, Goto, Return, Work
<1>1. CASE StartCall(p)
  BY <1>1 DEF StartCall
<1>2. CASE StartOnce(p)
  BY <1>2 DEF StartOnce
<1>3. CASE ListenDone(p) \/ ListenFail(p)
  BY <1>3 DEF ListenDone, ListenFail
<1>4. CASE StartThread(p)
  BY <1>4 DEF StartThread, RunPool
<1>5. CASE SpawnAccept(p)
  BY <1>5 DEF SpawnAccept
<1>6. CASE AcceptFuture(p) \/ StartReturn(p)
  BY <1>6 DEF AcceptFuture, StartReturn
<1>7. CASE StopCall(p)
  BY <1>7 DEF StopCall
<1>8. CASE StopOnce(p)
  BY <1>8 DEF StopOnce
<1>9. CASE StopAcceptor(p)
  BY <1>9 DEF StopAcceptor, DispatchClose
<1>10. CASE StopConns(p)
  BY <1>10 DEF StopConns, PostClose, ClearConns
<1>11. CASE StopPool(p)
  BY <1>11 DEF StopPool, ClearWorks
<1>12. CASE Join(p)
  BY <1>12 DEF Join
<1> QED BY <1>1, <1>2, <1>3, <1>4, <1>5, <1>6, <1>7, <1>8, <1>9, <1>10, <1>11, <1>12
        DEF StartImpl, StopImpl

\* What runs on the io_contexts leaves what stop() relies on.
LEMMA StopLeavesIo ==
    ASSUME Overlap = {}, TypeOK, AcceptorServes, StoppedOnce, StopLeaves, IoStep
    PROVE  StopLeaves'
<1> USE DEF TypeOK, StoppedOnce, StopLeaves, Stopped, NobodyAt, Work
<1>1. CASE RunClose
  BY <1>1 DEF RunClose
<1>2. CASE AcceptBegin \/ AcceptEnd
  BY <1>2 DEF AcceptBegin, AcceptEnd
<1>3. ASSUME NEW c \in Conn, AcceptConn(c) \/ AcceptError(c) PROVE StopLeaves'
  BY <1>3 DEF AcceptConn, AcceptError, AfterError
<1>4. CASE AcceptRegister
  BY <1>4 DEF AcceptRegister
<1>5. ASSUME NEW c \in Conn, Connection(c) PROVE StopLeaves'
  BY <1>5 DEF Connection, ConnStart, ConnEnd, ConnBadMagic, ConnClose, ClientGone
<1>6. CASE Timer
  BY <1>6 DEF Timer, SetConnMaxAge, TimerStop, CheckTimeout, PostClose
<1>7. ASSUME NEW k \in Ctx, CtxStop(k) PROVE StopLeaves'
  BY <1>7 DEF CtxStop
<1>8. CASE PoolDone
  BY <1>8 DEF PoolDone
<1> QED BY <1>1, <1>2, <1>3, <1>4, <1>5, <1>6, <1>7, <1>8 DEF IoStep, Accept

(***************************************************************************)
(* stop() leaves nothing behind that could give an io_context work again,  *)
(* unless it coincides with a client that connects or with start().        *)
(***************************************************************************)
THEOREM StopInvHolds == ASSUME Overlap = {} PROVE Spec => []StopInv
<1>1. Init => StopInv
  BY DEF Init, StopInv, StoppedOnce, StopLeaves, Stopped, NobodyAt
<1>2. TypeOK /\ StartedOnce /\ AcceptorServes /\ StopInv /\ [Next]_vars => StopInv'
  <2> SUFFICES ASSUME TypeOK, StartedOnce, AcceptorServes, StopInv, [Next]_vars
               PROVE  StopLeaves'
    BY StoppedOnceStep DEF StopInv
  <2> USE DEF StopInv
  <2>1. CASE OtherStart
    BY <2>1 DEF OtherStart, StopLeaves, Stopped, NobodyAt, Work
  <2>2. CASE UNCHANGED vars
    BY <2>2 DEF vars, StopLeaves, Stopped, NobodyAt, Work
  <2> QED BY <2>1, <2>2, StopLeavesCaller, StopLeavesIo DEF Next, IoStep
<1> QED BY <1>1, <1>2, AcceptorServesHolds, PTL DEF Spec

(***************************************************************************)
(* Once stop() is back the acceptor is closed, the threads are joined, no  *)
(* connection is registered and every socket is closed.                    *)
(***************************************************************************)
THEOREM StoppedQuietHolds == ASSUME Overlap = {} PROVE Spec => []StoppedQuiet
<1>1. TypeOK /\ AcceptorServes /\ StopInv => StoppedQuiet
  <2> SUFFICES ASSUME TypeOK, AcceptorServes, StopInv, Stopped
               PROVE  /\ acceptor = "closed" /\ thd \in {"none", "joined"}
                      /\ conns = {}
                      /\ \A c \in Conn : sock[c] \in {"none", "closed"}
    BY DEF StoppedQuiet
  <2>1. has_stop /\ thd \in {"none", "joined"} /\ NobodyAt(Stopping)
    BY DEF StopInv, StoppedOnce, StopLeaves, Stopped, NobodyAt, TypeOK
  <2>2. conns = {} /\ accepted = NoConn /\ (close_posted \/ acceptor = "closed")
    BY <2>1 DEF StopInv, StopLeaves, NobodyAt
  <2>3. CASE thd = "none"
    <3>1. NobodyAt({"run"})
      BY <2>1 DEF StopInv, StoppedOnce, NobodyAt
    <3> QED BY <2>1, <2>2, <2>3, <3>1 DEF AcceptorServes, NobodyAt, TypeOK
  <2>4. CASE thd = "joined"
    <3>1. \A k \in Ctx : ~Work(k)
      BY <2>4 DEF AcceptorServes, StopInv, StopLeaves
    <3>2. ~close_posted /\ conn_close = {}
      BY <3>1 DEF Work, TypeOK
    <3> QED BY <2>1, <2>2, <3>2 DEF StopInv, StopLeaves, TypeOK
  <2> QED BY <2>1, <2>3, <2>4
<1> QED BY <1>1, AcceptorServesHolds, StopInvHolds, PTL
=============================================================================
