------------------------- MODULE RpcConnectionProofs -------------------------
(***************************************************************************)
(* Proofs about RpcConnection for every set of connections, threads,       *)
(* topics and publishers and every bound.                                  *)
(***************************************************************************)
EXTENDS RpcConnection, TLAPS

USE DEF Request, connVars, threadVars, netVars, regVars, pubVars

LEMMA InitType == Init => TypeOK
  BY ConstantsAssumption DEF Init, TypeOK, ThreadTypeOK, ThreadConn, PubTypeOK, Context

\* The parts of TypeOK that starting, finishing and failing a write disturb.
LEMMA StartWriteType ==
  ASSUME TypeOK, NEW c \in Conn, NEW f \in Frame, StartWrite(c, f)
  PROVE  /\ writes' \in [Conn -> SUBSET Frame]
         /\ wire' \in [Conn -> Seq(Segment)]
  <1>1. [frame |-> f, part |-> "head"] \in Segment
    BY DEF Segment
  <1>2. QED
    BY <1>1 DEF TypeOK, StartWrite

LEMMA WriteDoneType ==
  ASSUME TypeOK, NEW c \in Conn, NEW f, WriteDone(c, f)
  PROVE  /\ writes' \in [Conn -> SUBSET Frame]
         /\ wire' \in [Conn -> Seq(Segment)]
  <1>1. f \in Frame
    BY DEF TypeOK, WriteDone
  <1>2. [frame |-> f, part |-> "tail"] \in Segment
    BY <1>1 DEF Segment
  <1>3. QED
    BY <1>2 DEF TypeOK, WriteDone

LEMMA WriteFailType ==
  ASSUME TypeOK, NEW c \in Conn, NEW f, WriteFail(c, f)
  PROVE  /\ writes' \in [Conn -> SUBSET Frame]
         /\ wire' \in [Conn -> Seq(Segment)]
  BY DEF TypeOK, WriteFail

\* A step of the specification keeps every variable in its type.

\* Posting a close, dispatching a request and creating a context.
LEMMA PostCloseType ==
  ASSUME TypeOK, NEW S \in SUBSET Conn, NEW b \in BOOLEAN, PostClose(S, b)
  PROVE  posted' \subseteq Conn \X BOOLEAN
  BY DEF TypeOK, PostClose

LEMMA DispatchType ==
  ASSUME TypeOK, NEW c \in Conn, Dispatch(c)
  PROVE  TypeOK'
  <1>1. ThreadTypeOK'
    <2>1. ExecutorOf[c] \in Thread /\ c \in ThreadConn(ExecutorOf[c])
      BY ConstantsAssumption DEF ThreadConn
    <2>2. QED
      BY <2>1 DEF Dispatch, SetConnection, TypeOK, ThreadTypeOK, ThreadConn
  <1>2. QED
    BY <1>1 DEF TypeOK, PubTypeOK, Dispatch

LEMMA ContextType ==
  ASSUME NEW c \in Conn, NEW n \in Nat, NEW d \in Conn \cup {NoConn}
  PROVE  [owner |-> <<c, n>>, conn |-> d,
          has_response |-> FALSE, copy |-> FALSE] \in Context
  BY DEF Context

\* A step of the specification keeps every variable in its type.
LEMMA NextType == TypeOK /\ [Next]_vars => TypeOK'
  <1> SUFFICES ASSUME TypeOK, [Next]_vars
               PROVE  TypeOK'
    OBVIOUS
  <1> USE ConstantsAssumption
  <1>1. ASSUME NEW c \in Conn, HeaderError(c)
       PROVE  TypeOK'
    BY <1>1 DEF TypeOK, ThreadTypeOK, ThreadConn, PubTypeOK, HeaderError, CloseHere, QuitCallback
  <1>2. ASSUME NEW c \in Conn, HeaderBadMagic(c)
       PROVE  TypeOK'
    BY <1>2 DEF TypeOK, ThreadTypeOK, ThreadConn, PubTypeOK, HeaderBadMagic
  <1>3. ASSUME NEW c \in Conn, NEW topic \in Topic, HeaderSubscribe(c, topic)
       PROVE  TypeOK'
    BY <1>3 DEF TypeOK, ThreadTypeOK, ThreadConn, PubTypeOK, HeaderSubscribe, NextHeader
  <1>4. ASSUME NEW c \in Conn, HeaderEmptyCall(c)
       PROVE  TypeOK'
    BY <1>4, DispatchType DEF HeaderEmptyCall
  <1>5. ASSUME NEW c \in Conn, HeaderCall(c)
       PROVE  TypeOK'
    BY <1>5 DEF TypeOK, ThreadTypeOK, ThreadConn, PubTypeOK, HeaderCall
  <1>6. ASSUME NEW c \in Conn, BodyRead(c)
       PROVE  TypeOK'
    BY <1>6, DispatchType DEF BodyRead
  <1>7. ASSUME NEW c \in Conn, BodyError(c)
       PROVE  TypeOK'
    BY <1>7 DEF TypeOK, ThreadTypeOK, ThreadConn, PubTypeOK, BodyError, CloseHere, QuitCallback
  <1>8. ASSUME NEW c \in Conn, ReturnDelayed(c)
       PROVE  TypeOK'
    <2>1. ThreadTypeOK'
      BY <1>8 DEF ReturnDelayed, Leave, ResetDelay, TypeOK, ThreadTypeOK, ThreadConn
    <2>2. QED
      BY <1>8, <2>1 DEF TypeOK, PubTypeOK, ReturnDelayed, Leave, ResetDelay, NextHeader
  <1>8a. ASSUME NEW c \in Conn, ThrowDelayed(c)
       PROVE  TypeOK'
    <2>1. ThreadTypeOK'
      BY <1>8a DEF ThrowDelayed, Leave, ResetDelay, TypeOK, ThreadTypeOK, ThreadConn
    <2>2. contexts' \subseteq Context
      BY <1>8a DEF ThrowDelayed, TypeOK
    <2>3. QED
      BY <1>8a, <2>1, <2>2
      DEF TypeOK, PubTypeOK, ThrowDelayed, Leave, ResetDelay, NextHeader
  <1>9. ASSUME NEW c \in Conn, ReturnAnswered(c)
       PROVE  TypeOK'
    <2>1. c \in Conn /\ LoopFrame(c) \in Frame
      BY <1>9 DEF TypeOK, ReturnAnswered, LoopFrame, Current, Frame
    <2>2. /\ writes' \in [Conn -> SUBSET Frame]
          /\ wire' \in [Conn -> Seq(Segment)]
      BY <1>9, <2>1, StartWriteType DEF ReturnAnswered
    <2>3. ThreadTypeOK'
      BY <1>9 DEF ReturnAnswered, Leave, TypeOK, ThreadTypeOK, ThreadConn
    <2>4. QED
      BY <1>9, <2>2, <2>3 DEF TypeOK, PubTypeOK, ReturnAnswered, Leave
  <1>10. ASSUME NEW c \in Conn, LoopWriteDone(c)
       PROVE  TypeOK'
    <2>2. /\ writes' \in [Conn -> SUBSET Frame]
          /\ wire' \in [Conn -> Seq(Segment)]
      BY <1>10, WriteDoneType DEF LoopWriteDone
    <2>3. ThreadTypeOK'
      BY <1>10 DEF LoopWriteDone, TypeOK, ThreadTypeOK, ThreadConn
    <2>4. QED
      BY <1>10, <2>2, <2>3 DEF TypeOK, PubTypeOK, LoopWriteDone, NextHeader
  <1>11. ASSUME NEW c \in Conn, LoopWriteFail(c)
       PROVE  TypeOK'
    <2>2. /\ writes' \in [Conn -> SUBSET Frame]
          /\ wire' \in [Conn -> Seq(Segment)]
      BY <1>11, WriteFailType DEF LoopWriteFail
    <2>3. ThreadTypeOK'
      BY <1>11 DEF LoopWriteFail, TypeOK, ThreadTypeOK, ThreadConn
    <2>4. QED
      BY <1>11, <2>2, <2>3
      DEF TypeOK, PubTypeOK, LoopWriteFail, CloseHere, QuitCallback
  <1>12. ASSUME NEW c \in Conn, Suspend(c)
       PROVE  TypeOK'
    <2>1. ThreadTypeOK'
      BY <1>12 DEF Suspend, TypeOK, ThreadTypeOK, ThreadConn
    <2>2. QED
      BY <1>12, <2>1 DEF TypeOK, PubTypeOK, Suspend
  <1>13. ASSUME NEW c \in Conn, Resume(c)
       PROVE  TypeOK'
    <2>1. ThreadTypeOK'
      BY <1>13 DEF Resume, TypeOK, ThreadTypeOK, ThreadConn
    <2>2. QED
      BY <1>13, <2>1 DEF TypeOK, PubTypeOK, Resume
  <1>14. ASSUME NEW c \in Conn, NewContext(c)
       PROVE  TypeOK'
    <2>1. ThreadTypeOK'
      BY <1>14 DEF NewContext, TypeOK, ThreadTypeOK, ThreadConn
    <2> DEFINE d == tls_conn[ExecutorOf[c]]
    <2>a. d \in Conn \cup {NoConn} /\ req[c] \in Nat
      BY DEF TypeOK, ThreadTypeOK
    <2>b. contexts' = contexts \cup {[owner |-> <<c, req[c]>>, conn |-> d,
                         has_response |-> FALSE, copy |-> FALSE]}
      BY <1>14 DEF NewContext, Current
    <2> HIDE DEF d
    <2>2. contexts' \subseteq Context
      BY <2>a, <2>b, ContextType DEF TypeOK
    <2>3. QED
      BY <1>14, <2>1, <2>2 DEF TypeOK, PubTypeOK, NewContext
  <1>15. ASSUME NEW c \in Conn, ForeignContext(c)
       PROVE  TypeOK'
    <2>a. contexts' = contexts \cup {[owner |-> <<c, req[c]>>, conn |-> NoConn,
                         has_response |-> FALSE, copy |-> FALSE]}
      BY <1>15 DEF ForeignContext, Current
    <2>b. req[c] \in Nat
      BY DEF TypeOK
    <2>1. contexts' \subseteq Context
      BY <2>a, <2>b, ContextType DEF TypeOK
    <2>2. QED
      BY <1>15, <2>1 DEF TypeOK, ThreadTypeOK, ThreadConn, PubTypeOK, ForeignContext
  <1>16. ASSUME NEW x \in contexts, CopyContext(x)
       PROVE  TypeOK'
    BY <1>16 DEF TypeOK, ThreadTypeOK, ThreadConn, PubTypeOK, CopyContext, Context
  <1>17. ASSUME NEW x \in contexts, ContextResponse(x)
       PROVE  TypeOK'
    <2>1. x.conn \in Conn /\ [by |-> "ctx", owner |-> x.owner, copy |-> x.copy] \in Frame
      BY <1>17 DEF TypeOK, ContextResponse, Frame, Context
    <2>2. /\ writes' \in [Conn -> SUBSET Frame]
          /\ wire' \in [Conn -> Seq(Segment)]
      BY <1>17, <2>1, StartWriteType DEF ContextResponse
    <2>3. QED
      BY <1>17, <2>2 DEF TypeOK, ThreadTypeOK, ThreadConn, PubTypeOK, ContextResponse, SetHasResponse, Context
  <1>18. ASSUME NEW c \in Conn, NEW f \in writes[c], CtxWriteDone(c, f)
       PROVE  TypeOK'
    <2>2. /\ writes' \in [Conn -> SUBSET Frame]
          /\ wire' \in [Conn -> Seq(Segment)]
      BY <1>18, WriteDoneType DEF CtxWriteDone
    <2>3. QED
      BY <1>18, <2>2 DEF TypeOK, ThreadTypeOK, ThreadConn, PubTypeOK, CtxWriteDone
  <1>19. ASSUME NEW c \in Conn, NEW f \in writes[c], CtxWriteFail(c, f)
       PROVE  TypeOK'
    <2>2. /\ writes' \in [Conn -> SUBSET Frame]
          /\ wire' \in [Conn -> Seq(Segment)]
      BY <1>19, WriteFailType DEF CtxWriteFail
    <2>3. posted' \subseteq Conn \X BOOLEAN
      BY <1>19, PostCloseType DEF CtxWriteFail
    <2>4. QED
      BY <1>19, <2>2, <2>3 DEF TypeOK, ThreadTypeOK, ThreadConn, PubTypeOK, CtxWriteFail, Break
  <1>20. ASSUME NEW c \in Conn, NEW need_cb \in BOOLEAN, PostedClose(c, need_cb)
       PROVE  TypeOK'
    BY <1>20 DEF TypeOK, ThreadTypeOK, ThreadConn, PubTypeOK, PostedClose, QuitCallback
  <1>21. ASSUME NEW c \in Conn, Expire(c)
       PROVE  TypeOK'
    <2>1. posted' \subseteq Conn \X BOOLEAN
      BY <1>21, PostCloseType DEF Expire
    <2>2. QED
      BY <1>21, <2>1 DEF TypeOK, ThreadTypeOK, ThreadConn, PubTypeOK, Expire
  <1>22. ASSUME StopServer
       PROVE  TypeOK'
    <2>1. posted' \subseteq Conn \X BOOLEAN
      BY <1>22, PostCloseType DEF StopServer, TypeOK
    <2>2. QED
      BY <1>22, <2>1 DEF TypeOK, ThreadTypeOK, ThreadConn, PubTypeOK, StopServer
  <1>23. ASSUME NEW p \in Publisher, NEW topic \in Topic, PublishBegin(p, topic)
       PROVE  TypeOK'
    <2>1. PubTypeOK'
      BY <1>23 DEF PublishBegin, TypeOK, PubTypeOK
    <2>2. QED
      BY <1>23, <2>1 DEF TypeOK, ThreadTypeOK, ThreadConn, PublishBegin
  <1>24. ASSUME NEW p \in Publisher, NEW c \in Conn, PublishSkip(p, c)
       PROVE  TypeOK'
    <2>1. PubTypeOK'
      BY <1>24 DEF PublishSkip, Visit, TypeOK, PubTypeOK
    <2>2. QED
      BY <1>24, <2>1 DEF TypeOK, ThreadTypeOK, ThreadConn, PublishSkip
  <1>25. ASSUME NEW p \in Publisher, NEW c \in Conn, PublishSend(p, c)
       PROVE  TypeOK'
    <2>1. c \in Conn /\ PubFrame(p) \in Frame
      BY <1>25 DEF TypeOK, PublishSend, Visit, PubFrame, Frame, PubTypeOK
    <2>2. /\ writes' \in [Conn -> SUBSET Frame]
          /\ wire' \in [Conn -> Seq(Segment)]
      BY <1>25, <2>1, StartWriteType DEF PublishSend
    <2>3. PubTypeOK'
      BY <1>25 DEF PublishSend, Visit, TypeOK, PubTypeOK
    <2>4. QED
      BY <1>25, <2>2, <2>3 DEF TypeOK, ThreadTypeOK, ThreadConn, PublishSend
  <1>26. ASSUME NEW p \in Publisher, NEW c \in Conn, PubWriteDone(p, c)
       PROVE  TypeOK'
    <2>2. /\ writes' \in [Conn -> SUBSET Frame]
          /\ wire' \in [Conn -> Seq(Segment)]
      BY <1>26, WriteDoneType DEF PubWriteDone
    <2>3. PubTypeOK'
      BY <1>26 DEF PubWriteDone, TypeOK, PubTypeOK
    <2>4. QED
      BY <1>26, <2>2, <2>3 DEF TypeOK, ThreadTypeOK, ThreadConn, PubWriteDone
  <1>27. ASSUME NEW p \in Publisher, NEW c \in Conn, PubWriteFail(p, c)
       PROVE  TypeOK'
    <2>2. /\ writes' \in [Conn -> SUBSET Frame]
          /\ wire' \in [Conn -> Seq(Segment)]
      BY <1>27, WriteFailType DEF PubWriteFail
    <2>3. PubTypeOK'
      BY <1>27 DEF PubWriteFail, TypeOK, PubTypeOK
    <2>4. posted' \subseteq Conn \X BOOLEAN
      BY <1>27, PostCloseType DEF PubWriteFail
    <2>5. QED
      BY <1>27, <2>2, <2>3, <2>4 DEF TypeOK, ThreadTypeOK, ThreadConn, PubWriteFail, Break
  <1>28. ASSUME NEW p \in Publisher, PublishEnd(p)
       PROVE  TypeOK'
    <2>1. PubTypeOK'
      BY <1>28 DEF PublishEnd, TypeOK, PubTypeOK
    <2>2. QED
      BY <1>28, <2>1 DEF TypeOK, ThreadTypeOK, ThreadConn, PublishEnd
  <1>29. CASE UNCHANGED vars
    BY <1>29 DEF TypeOK, ThreadTypeOK, ThreadConn, PubTypeOK, vars
  <1>30. QED
    BY <1>1, <1>2, <1>3, <1>4, <1>5, <1>6, <1>7, <1>8, <1>8a, <1>9, <1>10, <1>11, <1>12, <1>13, <1>14, <1>15, <1>16, <1>17, <1>18, <1>19, <1>20, <1>21, <1>22, <1>23, <1>24, <1>25, <1>26, <1>27, <1>28, <1>29
    DEF Next, ReadLoop, Handler, DelayedResponse, Server, Publish

(***************************************************************************)
(* The type invariant holds of every behaviour, whatever clients, handlers *)
(* and publishers do: in particular no io thread's tls_data ever holds a   *)
(* connection of another io_context.                                       *)
(***************************************************************************)
THEOREM TypeCorrect == Spec => []TypeOK
  BY InitType, NextType, PTL DEF Spec
-----------------------------------------------------------------------------
(* The takeover invariant *)

LEMMA InitTakeover == Init => TakeoverInv
  BY ConstantsAssumption
  DEF Init, TakeoverInv, ThreadHeld, DelayMeansContext, TlsConnection,
      ContextsOwned, RespondedOnWire, WireOwned, AnsweredOnce, NoLostResponse,
      InHandler, HasContext, Finished

\* Where a connection stands, seen from the takeover: its handler is running,
\* suspended or not there.
Stage(c) == IF InHandler(c) THEN pc[c] ELSE "none"

(***************************************************************************)
(* Steps that change neither a handler's stage, the thread-local data, a   *)
(* context nor the stream, and that only ever take a socket away.          *)
(***************************************************************************)
LEMMA QuietStep ==
  ASSUME TypeOK, TypeOK', TakeoverInv,
         UNCHANGED <<req, suspends, running, tls_conn, tls_delay, contexts, wire>>,
         \A d \in Conn : Stage(d)' = Stage(d),
         \A d \in Conn : socket'[d] = "open" => socket[d] = "open"
  PROVE  TakeoverInv'
  <1>1. \A d \in Conn : /\ InHandler(d)' <=> InHandler(d)
                        /\ pc'[d] = "handler" <=> pc[d] = "handler"
                        /\ pc'[d] = "suspended" <=> pc[d] = "suspended"
    BY DEF Stage, InHandler
  <1>2. ThreadHeld'
    BY <1>1 DEF TakeoverInv, ThreadHeld
  <1>3. DelayMeansContext'
    BY <1>1 DEF TakeoverInv, DelayMeansContext, HasContext, Current
  <1>4. TlsConnection'
    BY <1>1 DEF TakeoverInv, TlsConnection
  <1>5. ContextsOwned'
    BY DEF TakeoverInv, ContextsOwned
  <1>6. RespondedOnWire'
    BY ConstantsAssumption DEF TakeoverInv, RespondedOnWire, IsHead, ContextsOwned, TypeOK, Context
  <1>7. WireOwned'
    BY <1>1 DEF TakeoverInv, WireOwned, Finished, HasContext
  <1>8. AnsweredOnce'
    BY DEF TakeoverInv, AnsweredOnce
  <1>9. NoLostResponse'
    <2> SUFFICES ASSUME NEW c \in Conn, NEW n \in 1 .. req[c], Finished(c, n)',
                        socket'[c] = "open"
                 PROVE  \/ \E i \in DOMAIN wire[c] : IsHead(c, i, <<c, n>>)
                        \/ \E x \in contexts :
                              x.owner = <<c, n>> /\ x.conn = c /\ ~x.has_response
      BY DEF NoLostResponse, IsHead
    <2>1. Finished(c, n) /\ socket[c] = "open"
      BY <1>1 DEF Finished
    <2>2. QED
      BY <2>1 DEF TakeoverInv, NoLostResponse
  <1>10. QED
    BY <1>2, <1>3, <1>4, <1>5, <1>6, <1>7, <1>8, <1>9 DEF TakeoverInv
\* One segment is appended to the stream of c.
Appended(c, s) ==
    /\ \A d \in Conn : d # c => wire'[d] = wire[d]
    /\ DOMAIN wire[c] \subseteq DOMAIN wire'[c]
    /\ \A i \in DOMAIN wire[c] : wire'[c][i] = wire[c][i]
    /\ \E k \in DOMAIN wire'[c] : /\ k \notin DOMAIN wire[c]
                                  /\ DOMAIN wire'[c] = DOMAIN wire[c] \cup {k}
                                  /\ wire'[c][k] = s

LEMMA AppendAppended ==
  ASSUME TypeOK, NEW c \in Conn, NEW s \in Segment,
         wire' = [wire EXCEPT ![c] = Append(@, s)]
  PROVE  Appended(c, s)
  <1> DEFINE w == wire[c]
  <1>1. w \in Seq(Segment) /\ wire'[c] = Append(w, s)
    BY DEF TypeOK
  <1>2. \A d \in Conn : d # c => wire'[d] = wire[d]
    BY DEF TypeOK
  <1> HIDE DEF w
  <1>3. /\ Len(w) \in Nat
        /\ DOMAIN w = 1 .. Len(w)
        /\ DOMAIN Append(w, s) = 1 .. Len(w) + 1
        /\ \A i \in 1 .. Len(w) : Append(w, s)[i] = w[i]
        /\ Append(w, s)[Len(w) + 1] = s
    BY <1>1
  <1>4. /\ Len(w) + 1 \in DOMAIN Append(w, s)
        /\ Len(w) + 1 \notin DOMAIN w
        /\ DOMAIN Append(w, s) = DOMAIN w \cup {Len(w) + 1}
    BY <1>3
  <1>5. QED
    BY <1>1, <1>2, <1>3, <1>4 DEF Appended, w

\* What was a head stays one.
LEMMA HeadsStay ==
  ASSUME NEW c \in Conn, NEW s, Appended(c, s), NEW d \in Conn,
         NEW i \in DOMAIN wire[d], NEW r, IsHead(d, i, r)
  PROVE  i \in DOMAIN wire'[d] /\ IsHead(d, i, r)'
  BY DEF Appended, IsHead

(***************************************************************************)
(* Steps that only append to a stream: the rest of a frame that was begun, *)
(* or a published frame.                                                   *)
(***************************************************************************)
LEMMA WireStep ==
  ASSUME TypeOK, TypeOK', TakeoverInv,
         UNCHANGED <<req, suspends, running, tls_conn, tls_delay, contexts, socket>>,
         \A d \in Conn : Stage(d)' = Stage(d),
         NEW c \in Conn, NEW s \in Segment, Appended(c, s),
         \/ s.frame.by = "pub"
         \/ s.part = "tail" /\ \E i \in DOMAIN wire[c] : wire[c][i].frame = s.frame
  PROVE  TakeoverInv'
  <1>1. \A d \in Conn : /\ InHandler(d)' <=> InHandler(d)
                        /\ pc'[d] = "handler" <=> pc[d] = "handler"
                        /\ pc'[d] = "suspended" <=> pc[d] = "suspended"
    BY DEF Stage, InHandler
  <1>2. ThreadHeld'
    BY <1>1 DEF TakeoverInv, ThreadHeld
  <1>3. DelayMeansContext'
    BY <1>1 DEF TakeoverInv, DelayMeansContext, HasContext, Current
  <1>4. TlsConnection'
    BY <1>1 DEF TakeoverInv, TlsConnection
  <1>5. ContextsOwned'
    BY DEF TakeoverInv, ContextsOwned
  <1>6. RespondedOnWire'
    <2> SUFFICES ASSUME NEW x \in contexts, x.has_response, socket[x.conn] = "open"
                 PROVE  \E i \in DOMAIN wire'[x.conn] : IsHead(x.conn, i, x.owner)'
      BY DEF RespondedOnWire, IsHead
    <2>1. x.conn \in Conn
      BY DEF TakeoverInv, ContextsOwned, TypeOK, Context
    <2>2. PICK i \in DOMAIN wire[x.conn] : IsHead(x.conn, i, x.owner)
      BY DEF TakeoverInv, RespondedOnWire
    <2>3. QED
      BY <2>1, <2>2, HeadsStay
  <1>7. WireOwned'
    <2> SUFFICES ASSUME NEW d \in Conn, NEW i \in DOMAIN wire'[d],
                        wire'[d][i].frame.by # "pub"
                 PROVE  LET f == wire'[d][i].frame IN
                        /\ f.owner[1] = d
                        /\ f.owner[2] \in 1 .. req[d]
                        /\ f.by = "loop" => /\ Finished(d, f.owner[2])
                                            /\ ~HasContext(f.owner)
                        /\ f.by = "ctx" =>
                             \E x \in contexts : x.owner = f.owner /\ x.has_response
      BY <1>1 DEF WireOwned, Finished, HasContext
    <2>1. PICK j \in DOMAIN wire[d] : wire[d][j].frame = wire'[d][i].frame
      BY DEF Appended
    <2>2. QED
      BY <2>1 DEF TakeoverInv, WireOwned
  <1>8. AnsweredOnce'
    <2>1. \A d \in Conn : \A i \in DOMAIN wire'[d] :
            wire'[d][i].part = "head" /\ wire'[d][i].frame.by # "pub"
            => i \in DOMAIN wire[d] /\ wire'[d][i] = wire[d][i]
      BY DEF Appended
    <2>2. QED
      BY <2>1 DEF TakeoverInv, AnsweredOnce
  <1>9. NoLostResponse'
    <2> SUFFICES ASSUME NEW d \in Conn, NEW n \in 1 .. req[d], Finished(d, n)',
                        socket[d] = "open"
                 PROVE  \/ \E i \in DOMAIN wire'[d] : IsHead(d, i, <<d, n>>)'
                        \/ \E x \in contexts :
                              x.owner = <<d, n>> /\ x.conn = d /\ ~x.has_response
      BY DEF NoLostResponse, IsHead
    <2>1. Finished(d, n)
      BY <1>1 DEF Finished
    <2>2. \/ \E i \in DOMAIN wire[d] : IsHead(d, i, <<d, n>>)
          \/ \E x \in contexts :
                x.owner = <<d, n>> /\ x.conn = d /\ ~x.has_response
      BY <2>1 DEF TakeoverInv, NoLostResponse
    <2>3. QED
      BY <2>2, HeadsStay
  <1>10. QED
    BY <1>2, <1>3, <1>4, <1>5, <1>6, <1>7, <1>8, <1>9 DEF TakeoverInv
\* On a thread, at most the handler that runs has a context it may read.
LEMMA OneContext ==
  ASSUME TypeOK, TakeoverInv, NEW c \in Conn, pc[c] = "handler",
         NEW d \in Conn, ExecutorOf[d] = ExecutorOf[c], InHandler(d),
         HasContext(Current(d))
  PROVE  d = c
  <1>1. CASE Isolated
    BY <1>1 DEF Isolated
  <1>2. CASE ~Isolated
    BY <1>2 DEF TakeoverInv, DelayMeansContext, ThreadHeld, InHandler
  <1>3. QED
    BY <1>1, <1>2

\* The flag start() reads when route() returns is about this very request.
LEMMA DelayIsOwn ==
  ASSUME TypeOK, TakeoverInv, NEW c \in Conn, pc[c] = "handler"
  PROVE  tls_delay[ExecutorOf[c]] <=> HasContext(Current(c))
  <1>1. ExecutorOf[c] \in Thread /\ InHandler(c)
    BY ConstantsAssumption DEF InHandler
  <1>2. QED
    BY <1>1, OneContext DEF TakeoverInv, DelayMeansContext

LEMMA SegmentType ==
  ASSUME TypeOK, NEW d \in Conn, NEW i \in DOMAIN wire[d]
  PROVE  wire[d][i] \in Segment /\ wire[d][i].frame \in Frame
  <1>1. wire[d] \in Seq(Segment)
    BY DEF TypeOK
  <1>2. wire[d][i] \in Segment
    BY <1>1
  <1>3. QED
    BY <1>2 DEF Segment

\* No answer to the request in a handler without a context is on a stream.
LEMMA NotYetAnswered ==
  ASSUME TypeOK, TakeoverInv, NEW c \in Conn, InHandler(c),
         ~HasContext(Current(c)), NEW d \in Conn, NEW i \in DOMAIN wire[d]
  PROVE  ~IsHead(d, i, Current(c))
  <1> SUFFICES ASSUME IsHead(d, i, Current(c)) PROVE FALSE
    OBVIOUS
  <1> DEFINE f == wire[d][i].frame
  <1>1. f \in Frame /\ f.by # "pub" /\ f.owner = Current(c)
    BY SegmentType DEF IsHead
  <1>2. f.owner[1] = d /\ f.owner[1] = c /\ f.owner[2] = req[c]
    BY <1>1 DEF Current, TakeoverInv, WireOwned
  <1>3. f.by = "loop" \/ f.by = "ctx"
    BY <1>1 DEF Frame
  <1>4. CASE f.by = "loop"
    BY <1>1, <1>2, <1>4 DEF TakeoverInv, WireOwned, Finished
  <1>5. CASE f.by = "ctx"
    BY <1>1, <1>2, <1>5 DEF TakeoverInv, WireOwned, ContextsOwned, HasContext
  <1>6. QED
    BY <1>3, <1>4, <1>5

LEMMA DispatchTakeover ==
  ASSUME TypeOK, TypeOK', TakeoverInv, NEW c \in Conn, Idle(c), ~InHandler(c),
         Dispatch(c)
  PROVE  TakeoverInv'
  <1>1. /\ \A d \in Conn : d # c => pc'[d] = pc[d] /\ req'[d] = req[d]
        /\ \A d \in Conn : d # c => suspends'[d] = suspends[d]
        /\ pc'[c] = "handler" /\ req'[c] = req[c] + 1 /\ suspends'[c] = 0
        /\ \A d \in Conn : req[d] \in Nat
        /\ ExecutorOf[c] \in Thread
    BY ConstantsAssumption DEF Dispatch, TypeOK
  <1>2. /\ running'[ExecutorOf[c]] = c /\ tls_conn'[ExecutorOf[c]] = c
        /\ \A t \in Thread : t # ExecutorOf[c] =>
             running'[t] = running[t] /\ tls_conn'[t] = tls_conn[t]
    BY <1>1 DEF Dispatch, SetConnection, TypeOK, ThreadTypeOK
  <1>3. UNCHANGED <<tls_delay, contexts, socket, wire>>
    BY DEF Dispatch
  <1>4. \A d \in Conn : ExecutorOf[d] = ExecutorOf[c] => pc[d] # "handler"
    BY ConstantsAssumption DEF Idle, TakeoverInv, ThreadHeld
  <1>5. \A d \in Conn : /\ d # c => Current(d)' = Current(d)
                        /\ d # c => InHandler(d)' = InHandler(d)
    BY <1>1 DEF Current, InHandler
  <1>6. ~HasContext(Current(c))' /\ \A r : HasContext(r)' <=> HasContext(r)
    BY <1>1, <1>3 DEF HasContext, Current, TakeoverInv, ContextsOwned
  <1>7. ThreadHeld'
    BY <1>1, <1>2, <1>4, <1>5, ConstantsAssumption
    DEF TakeoverInv, ThreadHeld, InHandler
  <1>8. DelayMeansContext'
    BY <1>1, <1>3, <1>5, <1>6 DEF TakeoverInv, DelayMeansContext, HasContext
  <1>9. TlsConnection'
    BY <1>1, <1>2, <1>4, <1>5, ConstantsAssumption
    DEF TakeoverInv, TlsConnection, Isolated
  <1>10. ContextsOwned'
    <2> SUFFICES ASSUME NEW x \in contexts
                 PROVE  x.owner[2] \in 1 .. req'[x.owner[1]]
      BY <1>3 DEF TakeoverInv, ContextsOwned
    <2>1. x.owner[2] \in 1 .. req[x.owner[1]] /\ x.owner[1] \in Conn
      BY DEF TakeoverInv, ContextsOwned, TypeOK, Context
    <2>2. QED
      BY <1>1, <2>1
  <1>11. RespondedOnWire'
    BY <1>3 DEF TakeoverInv, RespondedOnWire, IsHead
  <1>12. \A d \in Conn, n \in Nat : Finished(d, n) => Finished(d, n)'
    BY <1>1, <1>5 DEF Finished
  <1>13. WireOwned'
    <2> SUFFICES ASSUME NEW d \in Conn, NEW i \in DOMAIN wire[d],
                        wire[d][i].frame.by # "pub"
                 PROVE  LET f == wire[d][i].frame IN
                        /\ f.owner[1] = d
                        /\ f.owner[2] \in 1 .. req'[d]
                        /\ f.by = "loop" => /\ Finished(d, f.owner[2])'
                                            /\ ~HasContext(f.owner)
                        /\ f.by = "ctx" =>
                             \E x \in contexts : x.owner = f.owner /\ x.has_response
      BY <1>3 DEF WireOwned, HasContext, Finished
    <2>1. wire[d][i].frame.owner[2] \in 1 .. req[d]
      BY DEF TakeoverInv, WireOwned
    <2>2. wire[d][i].frame.owner[2] \in 1 .. req'[d]
      BY <1>1, <2>1
    <2>3. \A n \in 1 .. req[d] : Finished(d, n) => Finished(d, n)'
      BY <1>12
    <2>4. QED
      BY <1>3, <2>1, <2>2, <2>3 DEF TakeoverInv, WireOwned
  <1>14. AnsweredOnce'
    BY <1>3 DEF TakeoverInv, AnsweredOnce
  <1>15. NoLostResponse'
    <2> SUFFICES ASSUME NEW d \in Conn, NEW n \in 1 .. req'[d], Finished(d, n)'
                 PROVE  n \in 1 .. req[d] /\ Finished(d, n)
      BY <1>3 DEF TakeoverInv, NoLostResponse, IsHead
    <2>1. CASE d = c
      BY <1>1, <2>1 DEF Finished, InHandler
    <2>2. CASE d # c
      BY <1>1, <1>5, <2>2 DEF Finished
    <2>3. QED
      BY <2>1, <2>2
  <1>16. QED
    BY <1>7, <1>8, <1>9, <1>10, <1>11, <1>13, <1>14, <1>15 DEF TakeoverInv
\* What every way out of a handler keeps, the answer itself apart.
LEMMA LeaveTakeover ==
  ASSUME TypeOK, TypeOK', TakeoverInv, NEW c \in Conn, Leave(c),
         pc' = [pc EXCEPT ![c] = pc'[c]], ~InHandler(c)',
         UNCHANGED <<req, suspends, tls_conn, contexts, socket>>,
         tls_delay' = [tls_delay EXCEPT ![ExecutorOf[c]] = FALSE]
  PROVE  /\ ThreadHeld' /\ DelayMeansContext' /\ TlsConnection' /\ ContextsOwned'
         /\ \A d \in Conn, n \in Nat : Finished(d, n) => Finished(d, n)'
         /\ \A d \in Conn, n \in Nat :
              Finished(d, n)' => Finished(d, n) \/ (d = c /\ n = req[c])
  <1>1. /\ pc[c] = "handler"
        /\ \A d \in Conn : d # c => pc'[d] = pc[d]
        /\ \A d \in Conn : d # c => InHandler(d)' = InHandler(d)
        /\ ExecutorOf[c] \in Thread
        /\ pc'[c] # "handler" /\ pc'[c] # "suspended"
    BY ConstantsAssumption DEF Leave, TypeOK, InHandler
  <1>2. /\ running[ExecutorOf[c]] = c
        /\ running'[ExecutorOf[c]] = NoConn
        /\ \A t \in Thread : t # ExecutorOf[c] => running'[t] = running[t]
    BY <1>1 DEF Leave, TypeOK, ThreadTypeOK, TakeoverInv, ThreadHeld
  <1>3. \A r : HasContext(r)' <=> HasContext(r)
    BY DEF HasContext
  <1>4. \A d \in Conn : Current(d)' = Current(d)
    BY DEF Current
  <1>5. ThreadHeld'
    BY <1>1, <1>2, ConstantsAssumption DEF TakeoverInv, ThreadHeld, InHandler
  <1>6. DelayMeansContext'
    <2>1. \A t \in Thread : tls_delay'[t] <=> t # ExecutorOf[c] /\ tls_delay[t]
      BY DEF TypeOK, ThreadTypeOK
    <2>2. \A d \in Conn : ExecutorOf[d] = ExecutorOf[c] /\ InHandler(d)'
                          => ~HasContext(Current(d))
      BY <1>1, OneContext
    <2>3. \A t \in Thread :
            tls_delay'[t] <=> \E d \in Conn : /\ ExecutorOf[d] = t
                                              /\ InHandler(d)'
                                              /\ HasContext(Current(d))
      <3> SUFFICES ASSUME NEW t \in Thread
                   PROVE  tls_delay'[t] <=> \E d \in Conn : /\ ExecutorOf[d] = t
                                                            /\ InHandler(d)'
                                                            /\ HasContext(Current(d))
        OBVIOUS
      <3>1. CASE t = ExecutorOf[c]
        BY <2>1, <2>2, <3>1
      <3>2. CASE t # ExecutorOf[c]
        <4>1. tls_delay[t] <=> \E d \in Conn : /\ ExecutorOf[d] = t
                                               /\ InHandler(d)
                                               /\ HasContext(Current(d))
          BY DEF TakeoverInv, DelayMeansContext
        <4>2. QED
          BY <1>1, <2>1, <3>2, <4>1
      <3>3. QED
        BY <3>1, <3>2
    <2>4. ~Isolated => \A d \in Conn : pc'[d] = "suspended" => ~HasContext(Current(d))
      BY <1>1 DEF TakeoverInv, DelayMeansContext
    <2>5. QED
      BY <1>3, <1>4, <2>3, <2>4 DEF DelayMeansContext, HasContext
  <1>7. TlsConnection'
    BY <1>1 DEF TakeoverInv, TlsConnection
  <1>8. ContextsOwned'
    BY DEF TakeoverInv, ContextsOwned
  <1>9. \A d \in Conn, n \in Nat : Finished(d, n) => Finished(d, n)'
    BY <1>1 DEF Finished
  <1>10. \A d \in Conn, n \in Nat :
           Finished(d, n)' => Finished(d, n) \/ (d = c /\ n = req[c])
    BY <1>1 DEF Finished
  <1>11. QED
    BY <1>5, <1>6, <1>7, <1>8, <1>9, <1>10

LEMMA ReturnDelayedTakeover ==
  ASSUME TypeOK, TypeOK', TakeoverInv, NEW c \in Conn, ReturnDelayed(c)
  PROVE  TakeoverInv'
  <1>1. /\ Leave(c) /\ pc[c] = "handler" /\ HasContext(Current(c))
        /\ UNCHANGED <<req, suspends, tls_conn, contexts, socket, wire>>
        /\ req[c] \in Nat
    BY DelayIsOwn DEF ReturnDelayed, Leave, TypeOK
  <1>2. /\ pc' = [pc EXCEPT ![c] = pc'[c]] /\ ~InHandler(c)'
        /\ tls_delay' = [tls_delay EXCEPT ![ExecutorOf[c]] = FALSE]
    BY DEF ReturnDelayed, NextHeader, ResetDelay, InHandler, TypeOK
  <1>3. /\ ThreadHeld' /\ DelayMeansContext' /\ TlsConnection' /\ ContextsOwned'
        /\ \A d \in Conn, n \in Nat : Finished(d, n) => Finished(d, n)'
        /\ \A d \in Conn, n \in Nat :
             Finished(d, n)' => Finished(d, n) \/ (d = c /\ n = req[c])
    BY <1>1, <1>2, LeaveTakeover
  <1>4. RespondedOnWire' /\ AnsweredOnce'
    BY <1>1 DEF TakeoverInv, RespondedOnWire, AnsweredOnce, IsHead
  <1>5. WireOwned'
    <2>1. \A d \in Conn : \A n \in 1 .. req[d] : Finished(d, n) => Finished(d, n)'
      BY <1>3
    <2>2. QED
      BY <1>1, <2>1 DEF TakeoverInv, WireOwned, HasContext
  <1>6. NoLostResponse'
    <2> SUFFICES ASSUME NEW d \in Conn, NEW n \in 1 .. req[d], Finished(d, n)',
                        socket[d] = "open"
                 PROVE  \/ \E i \in DOMAIN wire[d] : IsHead(d, i, <<d, n>>)
                        \/ \E x \in contexts :
                              x.owner = <<d, n>> /\ x.conn = d /\ ~x.has_response
      BY <1>1 DEF NoLostResponse, IsHead
    <2>1. CASE Finished(d, n)
      BY <2>1 DEF TakeoverInv, NoLostResponse
    <2>2. CASE d = c /\ n = req[c]
      <3>1. PICK x \in contexts : x.owner = <<c, req[c]>> /\ x.conn # NoConn
        BY <1>1 DEF HasContext, Current
      <3>2. x.conn = c
        BY <3>1 DEF TakeoverInv, ContextsOwned
      <3>3. QED
        BY <2>2, <3>1, <3>2 DEF TakeoverInv, RespondedOnWire
    <2>3. QED
      BY <1>3, <2>1, <2>2
  <1>7. QED
    BY <1>3, <1>4, <1>5, <1>6 DEF TakeoverInv
(***************************************************************************)
(* The answer of request r of connection c, which nothing answered before, *)
(* is begun: either its head goes on the stream, or the socket is gone.    *)
(***************************************************************************)
LEMMA HeadWritten ==
  ASSUME TypeOK, NEW c \in Conn, NEW f \in Frame, StartWrite(c, f)
  PROVE  \/ socket[c] # "open" /\ wire' = wire
         \/ /\ socket[c] = "open"
            /\ Appended(c, [frame |-> f, part |-> "head"])
  <1>1. CASE socket[c] = "open"
    <2>1. [frame |-> f, part |-> "head"] \in Segment
      BY DEF Segment
    <2>2. wire' = [wire EXCEPT ![c] = Append(@, [frame |-> f, part |-> "head"])]
      BY <1>1 DEF StartWrite
    <2>3. QED
      BY <1>1, <2>1, <2>2, AppendAppended
  <1>2. CASE socket[c] # "open"
    BY <1>2 DEF StartWrite, TypeOK
  <1>3. QED
    BY <1>1, <1>2

LEMMA NewHeadOnce ==
  ASSUME AnsweredOnce, NEW c \in Conn, NEW f, f.by # "pub",
         Appended(c, [frame |-> f, part |-> "head"]),
         \A d \in Conn : \A i \in DOMAIN wire[d] : ~IsHead(d, i, f.owner)
  PROVE  AnsweredOnce'
  <1> SUFFICES ASSUME NEW d \in Conn, NEW e \in Conn,
                      NEW i \in DOMAIN wire'[d], NEW j \in DOMAIN wire'[e],
                      wire'[d][i].part = "head", wire'[d][i].frame.by # "pub",
                      wire'[e][j].part = "head", wire'[e][j].frame.by # "pub",
                      wire'[d][i].frame.owner = wire'[e][j].frame.owner
               PROVE  d = e /\ i = j
    BY DEF AnsweredOnce
  <1>1. \/ i \in DOMAIN wire[d] /\ wire'[d][i] = wire[d][i]
        \/ d = c /\ i \notin DOMAIN wire[d] /\ wire'[d][i].frame = f
    BY DEF Appended
  <1>2. \/ j \in DOMAIN wire[e] /\ wire'[e][j] = wire[e][j]
        \/ e = c /\ j \notin DOMAIN wire[e] /\ wire'[e][j].frame = f
    BY DEF Appended
  <1>3. CASE i \in DOMAIN wire[d] /\ j \in DOMAIN wire[e]
    BY <1>1, <1>2, <1>3 DEF AnsweredOnce
  <1>4. CASE i \in DOMAIN wire[d] /\ j \notin DOMAIN wire[e]
    BY <1>1, <1>2, <1>4 DEF IsHead
  <1>5. CASE i \notin DOMAIN wire[d] /\ j \in DOMAIN wire[e]
    BY <1>1, <1>2, <1>5 DEF IsHead
  <1>6. CASE i \notin DOMAIN wire[d] /\ j \notin DOMAIN wire[e]
    BY <1>1, <1>2, <1>6 DEF Appended
  <1>7. QED
    BY <1>3, <1>4, <1>5, <1>6

LEMMA ReturnAnsweredTakeover ==
  ASSUME TypeOK, TypeOK', TakeoverInv, NEW c \in Conn, ReturnAnswered(c)
  PROVE  TakeoverInv'
  <1> DEFINE f == LoopFrame(c)
  <1>1. /\ Leave(c) /\ pc[c] = "handler" /\ ~HasContext(Current(c))
        /\ UNCHANGED <<req, suspends, tls_conn, contexts, socket>>
        /\ req[c] \in Nat /\ req[c] > 0
        /\ InHandler(c)
    BY DelayIsOwn DEF ReturnAnswered, Leave, TypeOK, TakeoverInv, ThreadHeld, InHandler
  <1>2. /\ pc' = [pc EXCEPT ![c] = pc'[c]] /\ ~InHandler(c)'
        /\ tls_delay' = [tls_delay EXCEPT ![ExecutorOf[c]] = FALSE]
    BY DEF ReturnAnswered, InHandler, TypeOK, ThreadTypeOK
  <1>3. /\ ThreadHeld' /\ DelayMeansContext' /\ TlsConnection' /\ ContextsOwned'
        /\ \A d \in Conn, n \in Nat : Finished(d, n) => Finished(d, n)'
        /\ \A d \in Conn, n \in Nat :
             Finished(d, n)' => Finished(d, n) \/ (d = c /\ n = req[c])
    BY <1>1, <1>2, LeaveTakeover
  <1>4. f \in Frame /\ f.by = "loop" /\ f.owner = <<c, req[c]>>
    BY <1>1 DEF LoopFrame, Current, Frame
  <1> HIDE DEF f
  <1>5. \/ socket[c] # "open" /\ wire' = wire
        \/ socket[c] = "open" /\ Appended(c, [frame |-> f, part |-> "head"])
    BY <1>4, HeadWritten DEF ReturnAnswered, f
  <1>6. \A d \in Conn : \A i \in DOMAIN wire[d] :
          i \in DOMAIN wire'[d] /\ wire'[d][i] = wire[d][i]
    BY <1>5 DEF Appended
  <1>7. RespondedOnWire'
    <2> SUFFICES ASSUME NEW x \in contexts, x.has_response, socket[x.conn] = "open"
                 PROVE  \E i \in DOMAIN wire'[x.conn] : IsHead(x.conn, i, x.owner)'
      BY <1>1 DEF RespondedOnWire, IsHead
    <2>1. x.conn \in Conn
      BY DEF TakeoverInv, ContextsOwned, TypeOK, Context
    <2>2. PICK i \in DOMAIN wire[x.conn] : IsHead(x.conn, i, x.owner)
      BY DEF TakeoverInv, RespondedOnWire
    <2>3. QED
      BY <1>6, <2>1, <2>2 DEF IsHead
  <1>8. WireOwned'
    <2>1. \A d \in Conn : \A n \in 1 .. req[d] : Finished(d, n) => Finished(d, n)'
      BY <1>3
    <2>2. Finished(c, req[c])'
      BY <1>1, <1>2 DEF Finished
    <2>3. \A r : HasContext(r)' <=> HasContext(r)
      BY <1>1 DEF HasContext
    <2> SUFFICES ASSUME NEW d \in Conn, NEW i \in DOMAIN wire'[d], NEW g,
                        g = wire'[d][i].frame, g.by # "pub"
                 PROVE  /\ g.owner[1] = d
                        /\ g.owner[2] \in 1 .. req[d]
                        /\ g.by = "loop" => \A n : n = g.owner[2] =>
                             Finished(d, n)' /\ ~HasContext(g.owner)
                        /\ g.by = "ctx" =>
                             \E x \in contexts : x.owner = g.owner /\ x.has_response
      BY <1>1, <2>3 DEF WireOwned, HasContext
    <2>4. CASE i \in DOMAIN wire[d]
      BY <1>6, <2>1, <2>4 DEF TakeoverInv, WireOwned
    <2>5. CASE i \notin DOMAIN wire[d]
      <3>1. d = c /\ g = f
        BY <1>5, <2>5 DEF Appended
      <3>2. QED
        BY <1>1, <1>4, <2>2, <3>1 DEF Current
    <2>6. QED
      BY <2>4, <2>5
  <1>9. AnsweredOnce'
    <2>1. CASE wire' = wire
      BY <2>1 DEF TakeoverInv, AnsweredOnce
    <2>2. CASE Appended(c, [frame |-> f, part |-> "head"])
      BY <1>1, <1>4, <2>2, NotYetAnswered, NewHeadOnce DEF TakeoverInv, Current
    <2>3. QED
      BY <1>5, <2>1, <2>2
  <1>10. NoLostResponse'
    <2> SUFFICES ASSUME NEW d \in Conn, NEW n \in 1 .. req[d], Finished(d, n)',
                        socket[d] = "open"
                 PROVE  \/ \E i \in DOMAIN wire'[d] : IsHead(d, i, <<d, n>>)'
                        \/ \E x \in contexts :
                              x.owner = <<d, n>> /\ x.conn = d /\ ~x.has_response
      BY <1>1 DEF NoLostResponse, IsHead
    <2>1. CASE Finished(d, n)
      <3>1. \/ \E i \in DOMAIN wire[d] : IsHead(d, i, <<d, n>>)
            \/ \E x \in contexts :
                  x.owner = <<d, n>> /\ x.conn = d /\ ~x.has_response
        BY <2>1 DEF TakeoverInv, NoLostResponse
      <3>2. \A i \in DOMAIN wire[d] :
              IsHead(d, i, <<d, n>>) => i \in DOMAIN wire'[d] /\ IsHead(d, i, <<d, n>>)'
        BY <1>6 DEF IsHead
      <3>3. QED
        BY <3>1, <3>2
    <2>2. CASE d = c /\ n = req[c]
      BY <1>4, <1>5, <2>2 DEF Appended, IsHead
    <2>3. QED
      BY <1>3, <2>1, <2>2
  <1>11. QED
    BY <1>3, <1>7, <1>8, <1>9, <1>10 DEF TakeoverInv
\* A handler gives its thread up, or gets it back.
LEMMA SuspendResumeTakeover ==
  ASSUME Contract, TypeOK, TypeOK', TakeoverInv, NEW c \in Conn,
         Suspend(c) \/ Resume(c)
  PROVE  TakeoverInv'
  <1>1. /\ \A d \in Conn : d # c => pc'[d] = pc[d] /\ suspends'[d] = suspends[d]
        /\ \A d \in Conn : InHandler(d)' <=> InHandler(d)
        /\ \A t \in Thread : t # ExecutorOf[c] => running'[t] = running[t]
        /\ ExecutorOf[c] \in Thread
        /\ UNCHANGED <<req, tls_conn, tls_delay, contexts, socket, wire>>
        /\ \A d \in Conn : suspends[d] \in Nat
    BY ConstantsAssumption DEF Suspend, Resume, TypeOK, ThreadTypeOK, InHandler
  <1>2. \/ /\ pc[c] = "handler" /\ pc'[c] = "suspended"
           /\ suspends'[c] = suspends[c] + 1
           /\ running'[ExecutorOf[c]] = NoConn
           /\ running[ExecutorOf[c]] = c
           /\ "suspend" \in Usage \/ ~HasContext(Current(c))
        \/ /\ pc[c] = "suspended" /\ pc'[c] = "handler"
           /\ suspends'[c] = suspends[c]
           /\ running'[ExecutorOf[c]] = c
           /\ running[ExecutorOf[c]] = NoConn
    BY <1>1 DEF Suspend, Resume, Idle, TypeOK, ThreadTypeOK, TakeoverInv, ThreadHeld
  <1>3. ThreadHeld'
    BY <1>1, <1>2, ConstantsAssumption DEF TakeoverInv, ThreadHeld
  <1>4. DelayMeansContext'
    <2>1. ~Isolated => "suspend" \notin Usage
      BY DEF Contract
    <2>2. \A d \in Conn : /\ Current(d)' = Current(d)
                          /\ HasContext(Current(d))' <=> HasContext(Current(d))
      BY <1>1 DEF Current, HasContext
    <2>3. ~Isolated => \A d \in Conn : pc'[d] = "suspended" => ~HasContext(Current(d))
      BY <1>1, <1>2, <2>1 DEF TakeoverInv, DelayMeansContext
    <2>4. QED
      BY <1>1, <2>2, <2>3 DEF TakeoverInv, DelayMeansContext
  <1>5. TlsConnection'
    BY <1>1, <1>2 DEF TakeoverInv, TlsConnection, InHandler, ThreadHeld
  <1>6. ContextsOwned' /\ RespondedOnWire' /\ AnsweredOnce'
    BY <1>1 DEF TakeoverInv, ContextsOwned, RespondedOnWire, AnsweredOnce, IsHead
  <1>7. \A d \in Conn, n \in Nat : Finished(d, n)' <=> Finished(d, n)
    BY <1>1 DEF Finished
  <1>8. WireOwned'
    <2>1. \A d \in Conn : \A n \in 1 .. req[d] : Finished(d, n) => Finished(d, n)'
      BY <1>7
    <2>2. QED
      BY <1>1, <2>1 DEF TakeoverInv, WireOwned, HasContext
  <1>9. NoLostResponse'
    <2> SUFFICES ASSUME NEW d \in Conn, NEW n \in 1 .. req[d], Finished(d, n)'
                 PROVE  Finished(d, n)
      BY <1>1 DEF TakeoverInv, NoLostResponse, IsHead
    <2>1. QED
      BY <1>7
  <1>10. QED
    BY <1>3, <1>4, <1>5, <1>6, <1>8, <1>9 DEF TakeoverInv

\* A handler creates its context, on its io thread or on a foreign one.
LEMMA NewContextTakeover ==
  ASSUME Contract, TypeOK, TypeOK', TakeoverInv, NEW c \in Conn,
         NewContext(c) \/ ForeignContext(c)
  PROVE  TakeoverInv'
  <1>1. /\ pc[c] = "handler" /\ InHandler(c)
        /\ UNCHANGED <<pc, req, suspends, running, tls_conn, socket, wire>>
        /\ req[c] \in Nat /\ req[c] > 0
        /\ ExecutorOf[c] \in Thread
    BY ConstantsAssumption
    DEF NewContext, ForeignContext, InHandler, TypeOK, TakeoverInv, ThreadHeld
  <1>2. NewContext(c) => tls_conn[ExecutorOf[c]] = c
    BY <1>1 DEF NewContext, Contract, TakeoverInv, TlsConnection
  <1>3. PICK y : /\ contexts' = contexts \cup {y}
                 /\ y.owner = <<c, req[c]>> /\ ~y.copy /\ ~y.has_response
                 /\ \/ /\ y.conn = c /\ ~HasContext(Current(c))
                       /\ tls_delay' = [tls_delay EXCEPT ![ExecutorOf[c]] = TRUE]
                    \/ y.conn = NoConn /\ tls_delay' = tls_delay
    <2> DEFINE z(d) == [owner |-> <<c, req[c]>>, conn |-> d,
                        has_response |-> FALSE, copy |-> FALSE]
    <2>1. \A d : /\ z(d).owner = <<c, req[c]>> /\ z(d).conn = d
                 /\ ~z(d).copy /\ ~z(d).has_response
      OBVIOUS
    <2>2. CASE NewContext(c)
      <3>1. /\ contexts' = contexts \cup {z(c)} /\ ~HasContext(Current(c))
            /\ tls_delay' = [tls_delay EXCEPT ![ExecutorOf[c]] = TRUE]
        BY <1>2, <2>2 DEF NewContext, Current
      <3> HIDE DEF z
      <3>2. QED
        BY <2>1, <3>1
    <2>3. CASE ForeignContext(c)
      <3>1. contexts' = contexts \cup {z(NoConn)} /\ tls_delay' = tls_delay
        BY <2>3 DEF ForeignContext, Current
      <3> HIDE DEF z
      <3>2. QED
        BY <2>1, <3>1
    <2>4. QED
      BY <2>2, <2>3
  <1>4. \A r : r # <<c, req[c]>> => (HasContext(r)' <=> HasContext(r))
    BY <1>3 DEF HasContext
  <1>5. HasContext(Current(c))' <=> HasContext(Current(c)) \/ y.conn = c
    BY <1>1, <1>3, ConstantsAssumption DEF HasContext, Current
  <1>6. \A d \in Conn : d # c => (HasContext(Current(d))' <=> HasContext(Current(d)))
    BY <1>1, <1>4 DEF Current, HasContext
  <1>7. ThreadHeld' /\ TlsConnection'
    BY <1>1 DEF TakeoverInv, ThreadHeld, TlsConnection, InHandler
  <1>8. \A d \in Conn : InHandler(d)' <=> InHandler(d)
    BY <1>1 DEF InHandler
  <1>9. DelayMeansContext'
    <2>1. ~Isolated => \A d \in Conn : pc'[d] = "suspended" => ~HasContext(Current(d))'
      BY <1>1, <1>6 DEF TakeoverInv, DelayMeansContext
    <2>2. ASSUME NEW t \in Thread
          PROVE  tls_delay'[t] <=> \E d \in Conn : /\ ExecutorOf[d] = t
                                                   /\ InHandler(d)'
                                                   /\ HasContext(Current(d))'
      <3>1. tls_delay[t] <=> \E d \in Conn : /\ ExecutorOf[d] = t
                                             /\ InHandler(d)
                                             /\ HasContext(Current(d))
        BY DEF TakeoverInv, DelayMeansContext
      <3>2. CASE y.conn = c /\ t = ExecutorOf[c]
        <4>1. tls_delay'[t]
          BY <1>3, <3>2, ConstantsAssumption DEF TypeOK, ThreadTypeOK
        <4>2. QED
          BY <1>1, <1>5, <1>8, <3>2, <4>1
      <3>3. CASE ~(y.conn = c /\ t = ExecutorOf[c])
        <4>1. tls_delay'[t] = tls_delay[t]
          BY <1>3, <3>3, ConstantsAssumption DEF TypeOK, ThreadTypeOK
        <4>2. \A d \in Conn : ExecutorOf[d] = t =>
                (HasContext(Current(d))' <=> HasContext(Current(d)))
          BY <1>5, <1>6, <3>3
        <4>3. QED
          BY <1>8, <3>1, <4>1, <4>2
      <3>4. QED
        BY <3>2, <3>3
    <2>3. QED
      BY <2>1, <2>2 DEF DelayMeansContext
  <1>10. ContextsOwned'
    <2>1. \A x \in contexts : x.owner = y.owner /\ x.conn # NoConn => y.conn = NoConn
      BY <1>3 DEF HasContext, Current
    <2>2. QED
      BY <1>1, <1>3, <2>1 DEF TakeoverInv, ContextsOwned
  <1>11. RespondedOnWire' /\ AnsweredOnce'
    BY <1>1, <1>3 DEF TakeoverInv, RespondedOnWire, AnsweredOnce, IsHead
  <1>12. WireOwned'
    <2> SUFFICES ASSUME NEW d \in Conn, NEW i \in DOMAIN wire[d], NEW g,
                        g = wire[d][i].frame, g.by # "pub"
                 PROVE  /\ g.owner[1] = d
                        /\ g.owner[2] \in 1 .. req[d]
                        /\ g.by = "loop" =>
                             Finished(d, g.owner[2]) /\ ~HasContext(g.owner)'
                        /\ g.by = "ctx" =>
                             \E x \in contexts : x.owner = g.owner /\ x.has_response
      BY <1>1, <1>3 DEF WireOwned, Finished, InHandler, HasContext
    <2>1. g.by = "loop" => g.owner # <<c, req[c]>>
      BY <1>1 DEF TakeoverInv, WireOwned, Finished
    <2>2. QED
      BY <1>4, <2>1 DEF TakeoverInv, WireOwned
  <1>13. NoLostResponse'
    <2> SUFFICES ASSUME NEW d \in Conn, NEW n \in (1 .. req[d])', Finished(d, n)'
                 PROVE  \/ socket'[d] # "open"
                        \/ \E i \in DOMAIN wire'[d] : IsHead(d, i, <<d, n>>)'
                        \/ \E x \in contexts' :
                              x.owner = <<d, n>> /\ x.conn = d /\ ~x.has_response
      BY Zenon DEF NoLostResponse
    <2>1. n \in 1 .. req[d] /\ Finished(d, n)
      BY <1>1 DEF Finished, InHandler
    <2>2. \/ socket[d] # "open"
          \/ \E i \in DOMAIN wire[d] : IsHead(d, i, <<d, n>>)
          \/ \E x \in contexts :
                x.owner = <<d, n>> /\ x.conn = d /\ ~x.has_response
      BY <2>1, Zenon DEF TakeoverInv, NoLostResponse
    <2>3. contexts \subseteq contexts' /\ wire' = wire /\ socket' = socket
      BY <1>1, <1>3
    <2>4. \A i : IsHead(d, i, <<d, n>>)' <=> IsHead(d, i, <<d, n>>)
      BY <2>3 DEF IsHead
    <2>5. QED
      BY <2>2, <2>3, <2>4
  <1>14. QED
    BY <1>7, <1>9, <1>10, <1>11, <1>12, <1>13 DEF TakeoverInv
\* A context that has not responded sends the answer.
LEMMA ContextResponseTakeover ==
  ASSUME TypeOK, TypeOK', TakeoverInv, NEW x \in contexts, ContextResponse(x)
  PROVE  TakeoverInv'
  <1> DEFINE c == x.conn
             y == [x EXCEPT !.has_response = TRUE]
             f == [by |-> "ctx", owner |-> x.owner, copy |-> x.copy]
  <1>1. /\ x \in Context /\ c \in Conn /\ c = x.owner[1] /\ ~x.has_response
        /\ x.owner[2] \in 1 .. req[c] /\ ~x.copy
    BY ConstantsAssumption
    DEF ContextResponse, TypeOK, Context, TakeoverInv, ContextsOwned
  <1>2. /\ contexts' = (contexts \ {x}) \cup {y}
        /\ y.owner = x.owner /\ y.conn = x.conn /\ y.has_response /\ y.copy = x.copy
    BY <1>1 DEF ContextResponse, SetHasResponse, Context
  <1>3. UNCHANGED <<pc, req, suspends, running, tls_conn, tls_delay, socket>>
    BY DEF ContextResponse
  <1>4. f \in Frame /\ f.by = "ctx" /\ f.owner = x.owner /\ StartWrite(c, f)
    BY <1>1 DEF ContextResponse, Frame, Context
  <1> HIDE DEF c, y, f
  <1>5. \/ socket[c] # "open" /\ wire' = wire
        \/ socket[c] = "open" /\ Appended(c, [frame |-> f, part |-> "head"])
    BY <1>1, <1>4, HeadWritten
  <1>6. \A d \in Conn : \A i \in DOMAIN wire[d] :
          i \in DOMAIN wire'[d] /\ wire'[d][i] = wire[d][i]
    BY <1>5 DEF Appended
  <1>7. \A r : HasContext(r)' <=> HasContext(r)
    BY <1>2 DEF HasContext
  <1>8. \A d \in Conn : /\ InHandler(d)' <=> InHandler(d)
                        /\ Current(d)' = Current(d)
    BY <1>3 DEF InHandler, Current
  <1>9. ThreadHeld' /\ TlsConnection'
    BY <1>3, <1>8 DEF TakeoverInv, ThreadHeld, TlsConnection
  <1>10. DelayMeansContext'
    <2>1. \A d \in Conn : HasContext(Current(d))' <=> HasContext(Current(d))
      BY <1>7, <1>8 DEF HasContext
    <2>2. QED
      BY <1>3, <1>8, <2>1 DEF TakeoverInv, DelayMeansContext
  <1>11. ContextsOwned'
    BY <1>1, <1>2, <1>3, ConstantsAssumption DEF TakeoverInv, ContextsOwned, c
  <1>12. RespondedOnWire'
    <2> SUFFICES ASSUME NEW z \in contexts', z.has_response, socket[z.conn] = "open"
                 PROVE  \E i \in DOMAIN wire'[z.conn] : IsHead(z.conn, i, z.owner)'
      BY <1>3 DEF RespondedOnWire, IsHead
    <2>1. CASE z = y
      BY <1>2, <1>4, <1>5, <2>1 DEF Appended, IsHead, c
    <2>2. CASE z # y
      <3>1. z \in contexts /\ z.conn \in Conn
        BY <1>2, <2>2 DEF TakeoverInv, ContextsOwned, TypeOK, Context
      <3>2. PICK i \in DOMAIN wire[z.conn] : IsHead(z.conn, i, z.owner)
        BY <3>1 DEF TakeoverInv, RespondedOnWire
      <3>3. QED
        BY <1>6, <3>1, <3>2 DEF IsHead
    <2>3. QED
      BY <2>1, <2>2
  <1>13. \A r : (\E z \in contexts : z.owner = r /\ z.has_response)
                => \E z \in contexts' : z.owner = r /\ z.has_response
    BY <1>2
  <1>14. WireOwned'
    <2> SUFFICES ASSUME NEW d \in Conn, NEW i \in DOMAIN wire'[d], NEW g,
                        g = wire'[d][i].frame, g.by # "pub"
                 PROVE  /\ g.owner[1] = d
                        /\ g.owner[2] \in 1 .. req[d]
                        /\ g.by = "loop" =>
                             Finished(d, g.owner[2]) /\ ~HasContext(g.owner)
                        /\ g.by = "ctx" =>
                             \E z \in contexts' : z.owner = g.owner /\ z.has_response
      BY <1>3, <1>7, <1>8 DEF WireOwned, Finished, HasContext
    <2>1. CASE i \in DOMAIN wire[d]
      <3>1. /\ g.owner[1] = d
            /\ g.owner[2] \in 1 .. req[d]
            /\ g.by = "loop" => Finished(d, g.owner[2]) /\ ~HasContext(g.owner)
            /\ g.by = "ctx" =>
                 \E z \in contexts : z.owner = g.owner /\ z.has_response
        BY <1>6, <2>1 DEF TakeoverInv, WireOwned
      <3>2. QED
        BY <1>13, <3>1
    <2>2. CASE i \notin DOMAIN wire[d]
      <3>1. d = c /\ g = f
        BY <1>5, <2>2 DEF Appended
      <3>2. QED
        BY <1>1, <1>2, <1>4, <3>1
    <2>3. QED
      BY <2>1, <2>2
  <1>15. \A d \in Conn : \A i \in DOMAIN wire[d] : ~IsHead(d, i, x.owner)
    <2> SUFFICES ASSUME NEW d \in Conn, NEW i \in DOMAIN wire[d],
                        IsHead(d, i, x.owner), NEW g, g = wire[d][i].frame
                 PROVE  FALSE
      OBVIOUS
    <2>1. g \in Frame /\ g.by # "pub" /\ g.owner = x.owner
      BY SegmentType DEF IsHead
    <2>2. g.by = "loop" \/ g.by = "ctx"
      BY <2>1 DEF Frame
    <2>3. g.by = "loop" => ~HasContext(x.owner)
      BY <2>1 DEF TakeoverInv, WireOwned
    <2>4. HasContext(x.owner)
      BY <1>1, ConstantsAssumption DEF HasContext, c
    <2>5. g.by = "ctx" => \E z \in contexts : z.owner = x.owner /\ z.has_response
      BY <2>1 DEF TakeoverInv, WireOwned
    <2>6. \A z \in contexts : z.owner = x.owner /\ z.has_response => z = x
      BY <1>1, ConstantsAssumption DEF TakeoverInv, ContextsOwned, c
    <2>7. QED
      BY <1>1, <2>2, <2>3, <2>4, <2>5, <2>6
  <1>16. AnsweredOnce'
    <2>1. CASE wire' = wire
      BY <2>1 DEF TakeoverInv, AnsweredOnce
    <2>2. CASE Appended(c, [frame |-> f, part |-> "head"])
      BY <1>1, <1>4, <1>15, <2>2, NewHeadOnce DEF TakeoverInv
    <2>3. QED
      BY <1>5, <2>1, <2>2
  <1>17. NoLostResponse'
    <2> SUFFICES ASSUME NEW d \in Conn, NEW n \in 1 .. req[d], Finished(d, n),
                        socket[d] = "open"
                 PROVE  \/ \E i \in DOMAIN wire'[d] : IsHead(d, i, <<d, n>>)'
                        \/ \E z \in contexts' :
                              z.owner = <<d, n>> /\ z.conn = d /\ ~z.has_response
      BY <1>3, <1>8 DEF NoLostResponse, IsHead, Finished
    <2>1. \/ \E i \in DOMAIN wire[d] : IsHead(d, i, <<d, n>>)
          \/ \E z \in contexts :
                z.owner = <<d, n>> /\ z.conn = d /\ ~z.has_response
      BY DEF TakeoverInv, NoLostResponse
    <2>2. \A i \in DOMAIN wire[d] :
            IsHead(d, i, <<d, n>>) => i \in DOMAIN wire'[d] /\ IsHead(d, i, <<d, n>>)'
      BY <1>6 DEF IsHead
    <2>3. CASE x.owner = <<d, n>> /\ x.conn = d
      BY <1>4, <1>5, <2>3 DEF Appended, IsHead, c
    <2>4. CASE ~(x.owner = <<d, n>> /\ x.conn = d)
      BY <1>2, <2>1, <2>2, <2>4
    <2>5. QED
      BY <2>3, <2>4
  <1>18. QED
    BY <1>9, <1>10, <1>11, <1>12, <1>14, <1>16, <1>17 DEF TakeoverInv
\* Every step keeps the invariant, as long as the users keep to the contract.
LEMMA NextTakeover ==
  ASSUME Contract, TypeOK, TypeOK', TakeoverInv, [Next]_vars
  PROVE  TakeoverInv'
  <1>1. ASSUME NEW c \in Conn, HeaderError(c)
       PROVE  TakeoverInv'
    <2>1. UNCHANGED <<req, suspends, running, tls_conn, tls_delay, contexts, wire>>
      BY <1>1 DEF HeaderError, CloseHere
    <2>2. /\ \A d \in Conn : Stage(d)' = Stage(d)
          /\ \A d \in Conn : socket'[d] = "open" => socket[d] = "open"
      BY <1>1 DEF HeaderError, CloseHere, Stage, InHandler, TypeOK
    <2>3. QED
      BY <2>1, <2>2, QuietStep
  <1>2. ASSUME NEW c \in Conn, HeaderBadMagic(c)
       PROVE  TakeoverInv'
    <2>1. UNCHANGED <<req, suspends, running, tls_conn, tls_delay, contexts, wire>>
      BY <1>2 DEF HeaderBadMagic, HeaderRead
    <2>2. /\ \A d \in Conn : Stage(d)' = Stage(d)
          /\ \A d \in Conn : socket'[d] = "open" => socket[d] = "open"
      BY <1>2 DEF HeaderBadMagic, HeaderRead, Stage, InHandler, TypeOK
    <2>3. QED
      BY <2>1, <2>2, QuietStep
  <1>3. ASSUME NEW c \in Conn, NEW topic \in Topic, HeaderSubscribe(c, topic)
       PROVE  TakeoverInv'
    <2>1. UNCHANGED <<req, suspends, running, tls_conn, tls_delay, contexts, wire>>
      BY <1>3 DEF HeaderSubscribe, HeaderRead, NextHeader
    <2>2. /\ \A d \in Conn : Stage(d)' = Stage(d)
          /\ \A d \in Conn : socket'[d] = "open" => socket[d] = "open"
      BY <1>3 DEF HeaderSubscribe, HeaderRead, NextHeader, Stage, InHandler, TypeOK
    <2>3. QED
      BY <2>1, <2>2, QuietStep
  <1>4. ASSUME NEW c \in Conn, HeaderCall(c)
       PROVE  TakeoverInv'
    <2>1. UNCHANGED <<req, suspends, running, tls_conn, tls_delay, contexts, wire>>
      BY <1>4 DEF HeaderCall, MayRequest, HeaderRead
    <2>2. /\ \A d \in Conn : Stage(d)' = Stage(d)
          /\ \A d \in Conn : socket'[d] = "open" => socket[d] = "open"
      BY <1>4 DEF HeaderCall, MayRequest, HeaderRead, Stage, InHandler, TypeOK
    <2>3. QED
      BY <2>1, <2>2, QuietStep
  <1>5. ASSUME NEW c \in Conn, BodyError(c)
       PROVE  TakeoverInv'
    <2>1. UNCHANGED <<req, suspends, running, tls_conn, tls_delay, contexts, wire>>
      BY <1>5 DEF BodyError, CloseHere
    <2>2. /\ \A d \in Conn : Stage(d)' = Stage(d)
          /\ \A d \in Conn : socket'[d] = "open" => socket[d] = "open"
      BY <1>5 DEF BodyError, CloseHere, Stage, InHandler, TypeOK
    <2>3. QED
      BY <2>1, <2>2, QuietStep
  <1>6. ASSUME NEW c \in Conn, LoopWriteFail(c)
       PROVE  TakeoverInv'
    <2>1. UNCHANGED <<req, suspends, running, tls_conn, tls_delay, contexts, wire>>
      BY <1>6 DEF LoopWriteFail, CloseHere, WriteFail
    <2>2. /\ \A d \in Conn : Stage(d)' = Stage(d)
          /\ \A d \in Conn : socket'[d] = "open" => socket[d] = "open"
      BY <1>6 DEF LoopWriteFail, CloseHere, WriteFail, Stage, InHandler, TypeOK
    <2>3. QED
      BY <2>1, <2>2, QuietStep
  <1>7. ASSUME NEW c \in Conn, NEW f \in writes[c], CtxWriteFail(c, f)
       PROVE  TakeoverInv'
    <2>1. UNCHANGED <<req, suspends, running, tls_conn, tls_delay, contexts, wire>>
      BY <1>7 DEF CtxWriteFail, Break, WriteFail
    <2>2. /\ \A d \in Conn : Stage(d)' = Stage(d)
          /\ \A d \in Conn : socket'[d] = "open" => socket[d] = "open"
      BY <1>7 DEF CtxWriteFail, Break, WriteFail, Stage, InHandler, TypeOK
    <2>3. QED
      BY <2>1, <2>2, QuietStep
  <1>8. ASSUME NEW c \in Conn, NEW need_cb \in BOOLEAN, PostedClose(c, need_cb)
       PROVE  TakeoverInv'
    <2>1. UNCHANGED <<req, suspends, running, tls_conn, tls_delay, contexts, wire>>
      BY <1>8 DEF PostedClose
    <2>2. /\ \A d \in Conn : Stage(d)' = Stage(d)
          /\ \A d \in Conn : socket'[d] = "open" => socket[d] = "open"
      BY <1>8 DEF PostedClose, Stage, InHandler, TypeOK
    <2>3. QED
      BY <2>1, <2>2, QuietStep
  <1>9. ASSUME NEW c \in Conn, Expire(c)
       PROVE  TakeoverInv'
    <2>1. UNCHANGED <<req, suspends, running, tls_conn, tls_delay, contexts, wire>>
      BY <1>9 DEF Expire
    <2>2. /\ \A d \in Conn : Stage(d)' = Stage(d)
          /\ \A d \in Conn : socket'[d] = "open" => socket[d] = "open"
      BY <1>9 DEF Expire, Stage, InHandler, TypeOK
    <2>3. QED
      BY <2>1, <2>2, QuietStep
  <1>10. ASSUME StopServer
       PROVE  TakeoverInv'
    <2>1. UNCHANGED <<req, suspends, running, tls_conn, tls_delay, contexts, wire>>
      BY <1>10 DEF StopServer
    <2>2. /\ \A d \in Conn : Stage(d)' = Stage(d)
          /\ \A d \in Conn : socket'[d] = "open" => socket[d] = "open"
      BY <1>10 DEF StopServer, Stage, InHandler, TypeOK
    <2>3. QED
      BY <2>1, <2>2, QuietStep
  <1>11. ASSUME NEW p \in Publisher, NEW topic \in Topic, PublishBegin(p, topic)
       PROVE  TakeoverInv'
    <2>1. UNCHANGED <<req, suspends, running, tls_conn, tls_delay, contexts, wire>>
      BY <1>11 DEF PublishBegin
    <2>2. /\ \A d \in Conn : Stage(d)' = Stage(d)
          /\ \A d \in Conn : socket'[d] = "open" => socket[d] = "open"
      BY <1>11 DEF PublishBegin, Stage, InHandler, TypeOK
    <2>3. QED
      BY <2>1, <2>2, QuietStep
  <1>12. ASSUME NEW p \in Publisher, NEW c \in Conn, PublishSkip(p, c)
       PROVE  TakeoverInv'
    <2>1. UNCHANGED <<req, suspends, running, tls_conn, tls_delay, contexts, wire>>
      BY <1>12 DEF PublishSkip
    <2>2. /\ \A d \in Conn : Stage(d)' = Stage(d)
          /\ \A d \in Conn : socket'[d] = "open" => socket[d] = "open"
      BY <1>12 DEF PublishSkip, Stage, InHandler, TypeOK
    <2>3. QED
      BY <2>1, <2>2, QuietStep
  <1>13. ASSUME NEW p \in Publisher, NEW c \in Conn, PubWriteFail(p, c)
       PROVE  TakeoverInv'
    <2>1. UNCHANGED <<req, suspends, running, tls_conn, tls_delay, contexts, wire>>
      BY <1>13 DEF PubWriteFail, Break, WriteFail
    <2>2. /\ \A d \in Conn : Stage(d)' = Stage(d)
          /\ \A d \in Conn : socket'[d] = "open" => socket[d] = "open"
      BY <1>13 DEF PubWriteFail, Break, WriteFail, Stage, InHandler, TypeOK
    <2>3. QED
      BY <2>1, <2>2, QuietStep
  <1>14. ASSUME NEW p \in Publisher, PublishEnd(p)
       PROVE  TakeoverInv'
    <2>1. UNCHANGED <<req, suspends, running, tls_conn, tls_delay, contexts, wire>>
      BY <1>14 DEF PublishEnd
    <2>2. /\ \A d \in Conn : Stage(d)' = Stage(d)
          /\ \A d \in Conn : socket'[d] = "open" => socket[d] = "open"
      BY <1>14 DEF PublishEnd, Stage, InHandler, TypeOK
    <2>3. QED
      BY <2>1, <2>2, QuietStep
  <1>15. ASSUME NEW c \in Conn, LoopWriteDone(c)
       PROVE  TakeoverInv'
    <2> DEFINE s == [frame |-> LoopFrame(c), part |-> "tail"]
    <2>1. /\ s \in Segment /\ s.part = "tail" /\ s.frame = LoopFrame(c)
          /\ \E i \in DOMAIN wire[c] : wire[c][i].frame = s.frame
          /\ wire' = [wire EXCEPT ![c] = Append(@, s)]
      BY <1>15 DEF LoopWriteDone, WriteDone, TypeOK, Segment
    <2>2. /\ UNCHANGED <<req, suspends, running, tls_conn, tls_delay, contexts, socket>>
          /\ \A d \in Conn : Stage(d)' = Stage(d)
      BY <1>15 DEF LoopWriteDone, NextHeader, Stage, InHandler, TypeOK
    <2> HIDE DEF s
    <2>3. QED
      BY <2>1, <2>2, AppendAppended, WireStep
  <1>16. ASSUME NEW c \in Conn, NEW f \in writes[c], CtxWriteDone(c, f)
       PROVE  TakeoverInv'
    <2> DEFINE s == [frame |-> f, part |-> "tail"]
    <2>1. /\ s \in Segment /\ s.part = "tail" /\ s.frame = f
          /\ \E i \in DOMAIN wire[c] : wire[c][i].frame = s.frame
          /\ wire' = [wire EXCEPT ![c] = Append(@, s)]
      BY <1>16 DEF CtxWriteDone, WriteDone, TypeOK, Segment
    <2>2. /\ UNCHANGED <<req, suspends, running, tls_conn, tls_delay, contexts, socket>>
          /\ \A d \in Conn : Stage(d)' = Stage(d)
      BY <1>16 DEF CtxWriteDone, Stage, InHandler, TypeOK
    <2> HIDE DEF s
    <2>3. QED
      BY <2>1, <2>2, AppendAppended, WireStep
  <1>17. ASSUME NEW p \in Publisher, NEW c \in Conn, PubWriteDone(p, c)
       PROVE  TakeoverInv'
    <2> DEFINE s == [frame |-> PubFrame(p), part |-> "tail"]
    <2>1. /\ s \in Segment /\ s.part = "tail" /\ s.frame = PubFrame(p)
          /\ \E i \in DOMAIN wire[c] : wire[c][i].frame = s.frame
          /\ wire' = [wire EXCEPT ![c] = Append(@, s)]
      BY <1>17 DEF PubWriteDone, WriteDone, TypeOK, Segment
    <2>2. /\ UNCHANGED <<req, suspends, running, tls_conn, tls_delay, contexts, socket>>
          /\ \A d \in Conn : Stage(d)' = Stage(d)
      BY <1>17 DEF PubWriteDone, Stage, InHandler, TypeOK
    <2> HIDE DEF s
    <2>3. QED
      BY <2>1, <2>2, AppendAppended, WireStep
  <1>18. ASSUME NEW p \in Publisher, NEW c \in Conn, PublishSend(p, c)
       PROVE  TakeoverInv'
    <2> DEFINE s == [frame |-> PubFrame(p), part |-> "head"]
    <2>1. PubFrame(p) \in Frame /\ PubFrame(p).by = "pub"
      BY DEF PubFrame, Frame, TypeOK, PubTypeOK
    <2>2. s \in Segment /\ s.frame.by = "pub"
      BY <2>1 DEF Segment
    <2>3. wire' = wire \/ Appended(c, s)
      BY <1>18, <2>1, HeadWritten DEF PublishSend
    <2>4. /\ UNCHANGED <<req, suspends, running, tls_conn, tls_delay, contexts, socket>>
          /\ \A d \in Conn : Stage(d)' = Stage(d)
      BY <1>18 DEF PublishSend, Stage, InHandler
    <2> HIDE DEF s
    <2>5. QED
      BY <2>2, <2>3, <2>4, QuietStep, WireStep
  <1>19. ASSUME NEW c \in Conn, HeaderEmptyCall(c) \/ BodyRead(c)
       PROVE  TakeoverInv'
    <2>1. Idle(c) /\ ~InHandler(c) /\ Dispatch(c)
      BY <1>19 DEF HeaderEmptyCall, MayRequest, HeaderRead, BodyRead, InHandler
    <2>2. QED
      BY <2>1, DispatchTakeover
  <1>20. ASSUME NEW x \in contexts, CopyContext(x)
       PROVE  TakeoverInv'
    BY <1>20 DEF CopyContext, Contract
  <1>20a. ASSUME NEW c \in Conn, ThrowDelayed(c)
       PROVE  TakeoverInv'
    BY <1>20a DEF ThrowDelayed, Contract
  <1>21. CASE UNCHANGED vars
    <2>1. UNCHANGED <<req, suspends, running, tls_conn, tls_delay, contexts, wire>>
      BY <1>21 DEF vars
    <2>2. /\ \A d \in Conn : Stage(d)' = Stage(d)
          /\ \A d \in Conn : socket'[d] = "open" => socket[d] = "open"
      BY <1>21 DEF vars, Stage, InHandler
    <2>3. QED
      BY <2>1, <2>2, QuietStep
  <1>22. QED
    BY <1>1, <1>2, <1>3, <1>4, <1>5, <1>6, <1>7, <1>8, <1>9, <1>10,
       <1>11, <1>12, <1>13, <1>14, <1>15, <1>16, <1>17, <1>18, <1>19, <1>20,
       <1>20a, <1>21,
       ReturnDelayedTakeover, ReturnAnsweredTakeover, SuspendResumeTakeover,
       NewContextTakeover, ContextResponseTakeover
    DEF Next, ReadLoop, Handler, DelayedResponse, Server, Publish

LEMMA TakeoverHolds == Contract => (Spec => [](TypeOK /\ TakeoverInv))
  <1> SUFFICES ASSUME Contract PROVE Spec => [](TypeOK /\ TakeoverInv)
    OBVIOUS
  <1>1. Init => TypeOK /\ TakeoverInv
    BY InitType, InitTakeover
  <1>2. TypeOK /\ TakeoverInv /\ [Next]_vars => (TypeOK /\ TakeoverInv)'
    BY NextType, NextTakeover
  <1>3. QED
    BY <1>1, <1>2, PTL DEF Spec

(***************************************************************************)
(* Under the Contract the flag, the contexts, tls_data and the frames      *)
(* always tell the same story about who answers a request, for any number  *)
(* of connections and threads: the invariant behind the three below.       *)
(***************************************************************************)
THEOREM TakeoverInvHolds == Contract => (Spec => []TakeoverInv)
  <1>1. TypeOK /\ TakeoverInv => TakeoverInv
    OBVIOUS
  <1>2. QED
    BY <1>1, TakeoverHolds, PTL

(***************************************************************************)
(* With contexts that are not copied, and either one connection per io     *)
(* thread or handlers that create their context before they first suspend  *)
(* and then return, the read loop and rpc_context::response() never both   *)
(* answer a request, for any number of connections and threads.            *)
(***************************************************************************)
THEOREM AnsweredOnceHolds == Contract => (Spec => []AnsweredOnce)
  <1>1. TypeOK /\ TakeoverInv => AnsweredOnce
    BY DEF TakeoverInv
  <1>2. QED
    BY <1>1, TakeoverHolds, PTL

(***************************************************************************)
(* Under the same contract an answer never leaves on another connection    *)
(* than its request came in on, although every connection of a thread      *)
(* overwrites the tls_data that rpc_context reads.                         *)
(***************************************************************************)
THEOREM RightConnectionHolds == Contract => (Spec => []RightConnection)
  <1>1. TypeOK /\ TakeoverInv => RightConnection
    BY DEF TakeoverInv, WireOwned, RightConnection
  <1>2. QED
    BY <1>1, TakeoverHolds, PTL

(***************************************************************************)
(* Under the same contract no delay flag swallows the response of a        *)
(* request that did not set it.                                            *)
(***************************************************************************)
THEOREM NoLostResponseHolds == Contract => (Spec => []NoLostResponse)
  <1>1. TypeOK /\ TakeoverInv => NoLostResponse
    BY DEF TakeoverInv
  <1>2. QED
    BY <1>1, TakeoverHolds, PTL
-----------------------------------------------------------------------------
(* The connection registry *)

\* RegistryExact is not inductive alone: a lambda posted by stop() or
\* check_timeout(), which runs no callback, belongs to an erased connection.
RegistryInv ==
    /\ RegistryExact
    /\ \A c \in Conn : <<c, FALSE>> \in posted => c \notin conns

LEMMA CloseHereRegistry ==
  ASSUME TypeOK, RegistryInv, NEW c \in Conn, CloseHere(c), UNCHANGED posted,
         pc' = [pc EXCEPT ![c] = "ended"]
  PROVE  RegistryInv'
  <1>1. socket'[c] = "closed" /\ conns' = conns \ {c}
    BY DEF CloseHere, QuitCallback, TypeOK, RegistryInv, RegistryExact
  <1>2. \A d \in Conn : d # c => socket'[d] = socket[d] /\ pc'[d] = pc[d]
    BY DEF CloseHere, TypeOK
  <1>3. QED
    BY <1>1, <1>2 DEF RegistryInv, RegistryExact

\* A write failed outside the read loop: close() is posted with its callback.
LEMMA PostCloseRegistry ==
  ASSUME TypeOK, RegistryInv, NEW c \in Conn, Break(c), PostClose({c}, TRUE),
         UNCHANGED <<pc, conns>>
  PROVE  RegistryInv'
  <1>1. \A d \in Conn : socket'[d] = "closed" <=> socket[d] = "closed"
    BY DEF Break, TypeOK
  <1>2. posted \subseteq posted' /\ \A d \in Conn : <<d, FALSE>> \in posted' => <<d, FALSE>> \in posted
    BY DEF PostClose
  <1>3. QED
    BY <1>1, <1>2 DEF RegistryInv, RegistryExact

\* stop() and check_timeout() erase connections and post their close().
LEMMA EraseRegistry ==
  ASSUME TypeOK, RegistryInv, NEW S \in SUBSET conns, conns' = conns \ S,
         PostClose(S, FALSE), UNCHANGED <<pc, socket>>
  PROVE  RegistryInv'
  <1>1. posted \subseteq posted' /\ \A d \in Conn :
          <<d, FALSE>> \in posted' <=>
            <<d, FALSE>> \in posted \/ (d \in S /\ socket[d] # "closed")
    BY DEF PostClose
  <1>2. S \subseteq Conn
    BY DEF TypeOK
  <1>3. QED
    BY <1>1, <1>2 DEF RegistryInv, RegistryExact

LEMMA NextRegistry ==
  ASSUME TypeOK, RegistryInv, [Next]_vars
  PROVE  RegistryInv'
  <1>1. ASSUME NEW c \in Conn,
               HeaderError(c) \/ BodyError(c) \/ LoopWriteFail(c)
        PROVE  RegistryInv'
    BY <1>1, CloseHereRegistry DEF HeaderError, BodyError, LoopWriteFail
  <1>2. ASSUME NEW c \in Conn, NEW f \in writes[c], CtxWriteFail(c, f)
        PROVE  RegistryInv'
    BY <1>2, PostCloseRegistry DEF CtxWriteFail
  <1>3. ASSUME NEW p \in Publisher, NEW c \in Conn, PubWriteFail(p, c)
        PROVE  RegistryInv'
    BY <1>3, PostCloseRegistry DEF PubWriteFail
  <1>4. ASSUME NEW c \in Conn, NEW need_cb \in BOOLEAN, PostedClose(c, need_cb)
        PROVE  RegistryInv'
    <2>1. c \notin conns' /\ socket'[c] = "closed"
      BY <1>4 DEF PostedClose, QuitCallback, RegistryInv, TypeOK
    <2>2. /\ \A d \in Conn : d # c =>
               /\ socket'[d] = socket[d]
               /\ d \in conns' <=> d \in conns
               /\ \A b \in BOOLEAN : <<d, b>> \in posted' <=> <<d, b>> \in posted
          /\ UNCHANGED pc
      BY <1>4 DEF PostedClose, QuitCallback, TypeOK
    <2>3. QED
      BY <2>1, <2>2 DEF RegistryInv, RegistryExact
  <1>5. ASSUME NEW c \in Conn, Expire(c)
        PROVE  RegistryInv'
    BY <1>5, EraseRegistry DEF Expire, netVars
  <1>6. ASSUME StopServer
        PROVE  RegistryInv'
    BY <1>6, EraseRegistry DEF StopServer, netVars
  <1>7. ASSUME UNCHANGED <<socket, conns, posted>>,
               \A c \in Conn : pc'[c] = "ended" => pc[c] = "ended"
        PROVE  RegistryInv'
    BY <1>7 DEF RegistryInv, RegistryExact
  <1>8. ASSUME NEW c \in Conn,
               \/ HeaderBadMagic(c) \/ HeaderEmptyCall(c) \/ HeaderCall(c)
               \/ BodyRead(c) \/ ReturnDelayed(c) \/ ThrowDelayed(c) \/ ReturnAnswered(c)
               \/ LoopWriteDone(c) \/ Handler(c)
               \/ \E topic \in Topic : HeaderSubscribe(c, topic)
        PROVE  RegistryInv'
    <2>1. UNCHANGED <<socket, conns, posted>>
      BY <1>8
      DEF HeaderBadMagic, HeaderEmptyCall, HeaderCall, BodyRead, ReturnDelayed,
          ThrowDelayed, ReturnAnswered, LoopWriteDone, HeaderSubscribe, Dispatch, Handler,
          Suspend, Resume, NewContext, ForeignContext
    <2>2. \A d \in Conn : pc'[d] = "ended" => pc[d] = "ended"
      BY <1>8
      DEF HeaderBadMagic, HeaderEmptyCall, HeaderCall, BodyRead, ReturnDelayed,
          ThrowDelayed, ReturnAnswered, LoopWriteDone, HeaderSubscribe, Dispatch, NextHeader,
          Handler, Suspend, Resume, NewContext, ForeignContext, TypeOK
    <2>3. QED
      BY <1>7, <2>1, <2>2
  <1>9. ASSUME \/ \E x \in contexts : CopyContext(x) \/ ContextResponse(x)
               \/ \E c \in Conn : \E f \in writes[c] : CtxWriteDone(c, f)
               \/ \E p \in Publisher :
                    \/ \E topic \in Topic : PublishBegin(p, topic)
                    \/ \E c \in Conn : \/ PublishSkip(p, c) \/ PublishSend(p, c)
                                       \/ PubWriteDone(p, c)
                    \/ PublishEnd(p)
               \/ UNCHANGED vars
        PROVE  RegistryInv'
    <2>1. UNCHANGED <<pc, socket, conns, posted>>
      BY <1>9
      DEF CopyContext, ContextResponse, CtxWriteDone, PublishBegin, PublishSkip,
          PublishSend, PubWriteDone, PublishEnd, vars
    <2>2. QED
      BY <1>7, <2>1
  <1>10. QED
    BY <1>1, <1>2, <1>3, <1>4, <1>5, <1>6, <1>8, <1>9
    DEF Next, ReadLoop, DelayedResponse, Server, Publish

(***************************************************************************)
(* Whatever races to close a connection (its read loop, a context, a       *)
(* publisher, check_timeout() or stop()), conns_ and the sockets agree:    *)
(* no closed connection stays registered and none is dropped unclosed.     *)
(***************************************************************************)
THEOREM RegistryExactHolds == Spec => []RegistryExact
  <1>1. Init => RegistryInv
    BY DEF Init, RegistryInv, RegistryExact
  <1>2. TypeOK /\ RegistryInv /\ [Next]_vars => RegistryInv'
    BY NextRegistry
  <1>3. RegistryInv => RegistryExact
    BY DEF RegistryInv
  <1>4. QED
    BY <1>1, <1>2, <1>3, TypeCorrect, PTL DEF Spec
=============================================================================
