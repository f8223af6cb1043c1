--------------------------- MODULE RpcClientProofs ---------------------------
(***************************************************************************)
(* Proofs about one rpc_client, for any number of operations, connects,    *)
(* publications and topics.                                                *)
(***************************************************************************)
EXTENDS RpcClient, TLAPS

USE ClientAssumption

UpFrame == [op : Op, kind : {"call"} \cup Topic]

-----------------------------------------------------------------------------
(* Frames on a link *)

\* The first frame is read.
LEMMA TailFacts ==
    ASSUME NEW S, NEW q \in Seq(S), q # <<>>
    PROVE  /\ Head(q) = q[1] /\ 1 \in DOMAIN q /\ Head(q) \in S
           /\ Tail(q) \in Seq(S) /\ Len(Tail(q)) = Len(q) - 1
           /\ \A i \in DOMAIN Tail(q) :
                i + 1 \in DOMAIN q /\ i + 1 # 1 /\ Tail(q)[i] = q[i + 1]
  OBVIOUS

\* A frame is sent.
LEMMA AppendFacts ==
    ASSUME NEW S, NEW q \in Seq(S), NEW e \in S
    PROVE  /\ Append(q, e) \in Seq(S) /\ Len(Append(q, e)) = Len(q) + 1
           /\ \A i \in DOMAIN q : i \in DOMAIN Append(q, e) /\ Append(q, e)[i] = q[i]
           /\ Len(q) + 1 \in DOMAIN Append(q, e)
           /\ Append(q, e)[Len(q) + 1] = e
           /\ \A i \in DOMAIN Append(q, e) : i \in DOMAIN q \/ i = Len(q) + 1
  OBVIOUS

\* Nothing is on an empty link.
LEMMA EmptyFacts ==
    ASSUME NEW S, NEW q \in Seq(S)
    PROVE  /\ Len(q) \in Nat /\ DOMAIN q = 1 .. Len(q)
           /\ \A i \in DOMAIN q : i \in Nat /\ q[i] \in S /\ q # <<>>
           /\ q # <<>> => Len(q) >= 1
           /\ <<>> \in Seq(S) /\ Len(<<>>) = 0 /\ DOMAIN <<>> = {}
  OBVIOUS

-----------------------------------------------------------------------------
(* Types *)

LEMMA InitType == Init => TypeOK
<1> SUFFICES ASSUME Init PROVE TypeOK
  OBVIOUS
<1> USE DEF Init
<1>1. /\ role \in Roles /\ connect_pc \in {"idle", "resolve", "connect"}
      /\ connects \in 0 .. MaxConnect
      /\ impl \in {"open", "closed"}
      /\ sub_ops \in [Topic -> {"absent", "armed", "fired"}]
      /\ ops \in 0 .. MaxOps /\ returned \subseteq 1 .. ops
  OBVIOUS
<1>2. /\ should_reset \in BOOLEAN /\ has_closed \in BOOLEAN /\ double \in BOOLEAN
  BY Zenon
<1>3. /\ kind \in [Op -> {"none", "call"} \cup Topic]
      /\ io \in [Op -> {"idle", "write", "header", "body", "threw", "done"}]
      /\ timer \in [Op -> {"off", "on", "fired", "late"}]
  OBVIOUS
<1>4. result \in [Op -> [ec : Errc, frame : Frame \cup {NoFrame}]]
  BY DEF Errc
<1>5. /\ uplink \in Seq(UpFrame) /\ downlink \in Seq(Frame)
      /\ peer \in {"rpc", "foreign", "gone"} /\ topic_id \in Topic \cup {NoTopic}
      /\ pubs \in 0 .. MaxPub /\ executed \in [Op -> 0 .. 1] /\ orphans \subseteq Op
  BY EmptyFacts
<1> QED BY <1>1, <1>2, <1>3, <1>4, <1>5 DEF TypeOK, UpFrame

\* What is known of the frames on the uplink.
LEMMA UplinkFacts ==
    ASSUME TypeOK
    PROVE  /\ uplink \in Seq(UpFrame) /\ Len(uplink) \in Nat
           /\ DOMAIN uplink = 1 .. Len(uplink)
           /\ \A i \in DOMAIN uplink :
                i \in Nat /\ uplink[i].op \in Op /\ uplink[i].kind \in {"call"} \cup Topic
<1>1. uplink \in Seq(UpFrame)
  BY DEF TypeOK, UpFrame
<1>2. \A i \in DOMAIN uplink : i \in Nat /\ uplink[i] \in UpFrame
  BY <1>1, EmptyFacts
<1>3. \A m \in UpFrame : m.op \in Op /\ m.kind \in {"call"} \cup Topic
  BY DEF UpFrame
<1> QED BY <1>1, <1>2, <1>3, EmptyFacts

\* connect() and close() keep the types.
LEMMA ConnectType == ASSUME TypeOK, Connecting PROVE TypeOK'
<1> USE DEF TypeOK, connVars, sockVars, opVars, serverVars, netVars, subVars
<1>1. CASE ConnectBegin
  <2>1. should_reset' \in BOOLEAN
    BY <1>1, Zenon DEF ConnectBegin
  <2>2. CASE should_reset
    <3>1. CallsIn(uplink) \subseteq Op
      BY UplinkFacts DEF CallsIn
    <3>2. has_closed' \in BOOLEAN
      BY <1>1, <2>2, Zenon DEF ConnectBegin, reset
    <3> QED BY <1>1, <2>1, <2>2, <3>1, <3>2 DEF ConnectBegin, MayConnect, AppIdle, reset
  <2>3. CASE ~should_reset
    BY <1>1, <2>1, <2>3 DEF ConnectBegin, MayConnect, AppIdle
  <2> QED BY <2>2, <2>3
<1>2. CASE ResolveDone \/ ConnectFail
  BY <1>2 DEF ResolveDone, ConnectFail
<1>3. CASE ConnectTimeout \/ Close
  <2>1. has_closed' \in BOOLEAN
    BY <1>3, Zenon DEF ConnectTimeout, Close, CloseSocket
  <2> QED BY <1>3, <2>1 DEF ConnectTimeout, Close, CloseSocket
<1>4. CASE ConnectDone \/ ConnectDoneLate
  <2>1. has_closed' \in BOOLEAN
    BY <1>4, Zenon DEF ConnectDone, ConnectDoneLate
  <2> QED BY <1>4, <2>1 DEF ConnectDone, ConnectDoneLate
<1> QED BY <1>1, <1>2, <1>3, <1>4 DEF Connecting

\* Starting an operation keeps the types.
LEMMA StartType ==
    ASSUME TypeOK, StartCall \/ \E t \in Topic : StartSubscribe(t) PROVE TypeOK'
<1> USE DEF TypeOK, connVars, sockVars, opVars, serverVars, netVars, subVars
<1>1. AppIdle /\ ops < MaxOps => ops + 1 \in Op /\ 1 .. ops \subseteq 1 .. (ops + 1)
  BY DEF Op
<1>2. CASE StartCall
  BY <1>1, <1>2 DEF StartCall, Issue, StartWatchdog
<1>3. ASSUME NEW t \in Topic, StartSubscribe(t) PROVE TypeOK'
  BY <1>1, <1>3 DEF StartSubscribe, Issue, Arm, FirstStep
<1> QED BY <1>2, <1>3

\* complete() and FinishIo() keep the types.
LEMMA CompleteType ==
    ASSUME TypeOK, NEW S \in SUBSET Topic, Complete(S)
    PROVE  /\ sub_ops' \in [Topic -> {"absent", "armed", "fired"}]
           /\ double' \in BOOLEAN
<1>1. sub_ops' \in [Topic -> {"absent", "armed", "fired"}]
  BY DEF Complete, TypeOK
<1>2. double' \in BOOLEAN
  BY Zenon DEF Complete
<1> QED BY <1>1, <1>2

LEMMA FinishType ==
    ASSUME TypeOK, NEW o \in Op, NEW ec \in Errc, NEW f \in Frame \cup {NoFrame},
           FinishIo(o, ec, f)
    PROVE  /\ io' \in [Op -> {"idle", "write", "header", "body", "threw", "done"}]
           /\ result' \in [Op -> [ec : Errc, frame : Frame \cup {NoFrame}]]
  BY DEF FinishIo, TypeOK

\* A body that follows a checked header is a publication or a response.
LEMMA BodyEc ==
    ASSUME TypeOK, BodyFollows, NEW o \in Op, io[o] = "body"
    PROVE  /\ Head(downlink) \in Frame /\ downlink # <<>>
           /\ Head(downlink).type # "pub" =>
                /\ Head(downlink).type = "resp" /\ Head(downlink).op \in Op
                /\ Head(downlink).ec \in RouteErrc
           /\ Head(downlink).type = "pub" => Head(downlink).topic \in Topic
<1>1. downlink # <<>> /\ Head(downlink).type # "garbage"
  BY DEF BodyFollows
<1>2. Head(downlink) \in Frame
  BY <1>1, TailFacts DEF TypeOK
<1> QED BY <1>1, <1>2 DEF Frame, Response, Publication, Garbage

\* The steps of an operation keep the types.
LEMMA OperationType ==
    ASSUME TypeOK, OneAtATime, BodyFollows, NEW o \in Op, Operation(o) PROVE TypeOK'
<1> USE DEF TypeOK, connVars, sockVars, opVars, serverVars, netVars, subVars
<1>0. Present \subseteq Topic
  BY DEF Present
<1>1. CASE WriteDone(o)
  <2>1. kind[o] # "none"
    BY <1>1 DEF WriteDone, OneAtATime, Op
  <2>2. [op |-> o, kind |-> kind[o]] \in UpFrame
    BY <2>1 DEF UpFrame
  <2>3. uplink' \in Seq(UpFrame)
    BY <1>1, <2>2, AppendFacts DEF WriteDone, UpFrame
  <2> QED BY <1>1, <2>3 DEF WriteDone, UpFrame
<1>2. CASE WriteError(o)
  <2>1. has_closed' \in BOOLEAN
    BY <1>2, Zenon DEF WriteError, CloseSocket
  <2> QED BY <1>2, <2>1, FinishType DEF WriteError, CloseSocket, Errc
<1>3. CASE ReadError(o)
  <2>1. has_closed' \in BOOLEAN
    BY <1>3, Zenon DEF ReadError, CloseSocket
  <2> QED BY <1>0, <1>3, <2>1, FinishType, CompleteType
          DEF ReadError, CloseSocket, comple_all, Errc
<1>4. CASE ReadHeader(o)
  <2>1. downlink # <<>> /\ Tail(downlink) \in Seq(Frame)
    BY <1>4, TailFacts DEF ReadHeader
  <2>2. CASE Head(downlink).type = "garbage"
    BY <1>0, <1>4, <2>1, <2>2, FinishType, CompleteType DEF ReadHeader, comple_all, Errc
  <2>3. CASE Head(downlink).type # "garbage"
    BY <1>4, <2>3 DEF ReadHeader
  <2> QED BY <2>2, <2>3
<1>5. CASE ReadBody(o)
  <2>1. downlink # <<>> /\ Tail(downlink) \in Seq(Frame) /\ Head(downlink) \in Frame
    BY <1>5, TailFacts DEF ReadBody
  <2>2. CASE Head(downlink).type = "pub"
    BY <1>0, <1>5, <2>1, <2>2, FinishType, CompleteType DEF ReadBody, Errc, RouteErrc
  <2>3. CASE Head(downlink).type # "pub"
    <3>1. Head(downlink).ec \in Errc
      BY <1>5, <2>3, BodyEc DEF ReadBody, Errc
    <3> QED BY <1>5, <2>1, <2>3, <3>1, FinishType DEF ReadBody
  <2> QED BY <2>2, <2>3
<1>6. CASE UnpackThrows(o)
  <2>1. downlink # <<>> /\ Tail(downlink) \in Seq(Frame)
    BY <1>6, TailFacts DEF UnpackThrows
  <2> QED BY <1>6, <2>1 DEF UnpackThrows
<1>7. CASE WatchdogFires(o)
  <2>1. has_closed' \in BOOLEAN
    BY <1>7, Zenon DEF WatchdogFires, CloseSocket
  <2>2. result' \in [Op -> [ec : Errc, frame : Frame \cup {NoFrame}]]
    BY <1>7 DEF WatchdogFires, Errc
  <2> QED BY <1>7, <2>1, <2>2 DEF WatchdogFires, CloseSocket
<1>8. CASE WatchdogLate(o)
  <2>1. has_closed' \in BOOLEAN
    BY <1>8, Zenon DEF WatchdogLate, CloseSocket
  <2> QED BY <1>8, <2>1 DEF WatchdogLate, CloseSocket
<1>9. CASE CallReturn(o) \/ SubscribeReturn(o)
  BY <1>9 DEF CallReturn, SubscribeReturn, InFlight
<1> QED BY <1>1, <1>2, <1>3, <1>4, <1>5, <1>6, <1>7, <1>8, <1>9 DEF Operation

\* The first frame of the uplink has not been run before.
LEMMA HeadUplink ==
    ASSUME TypeOK, SentOnce, uplink # <<>>
    PROVE  /\ Head(uplink) \in UpFrame /\ Head(uplink).op \in Op
           /\ executed[Head(uplink).op] = 0
<1>1. Head(uplink) = uplink[1] /\ 1 \in DOMAIN uplink /\ Head(uplink) \in UpFrame
  BY TailFacts DEF TypeOK, UpFrame
<1>2. Head(uplink).op \in Op
  BY <1>1 DEF UpFrame
<1>3. executed[uplink[1].op] = 0
  BY <1>1 DEF SentOnce
<1> QED BY <1>1, <1>2, <1>3

\* A function that has not run may run once.
LEMMA RunOnce ==
    ASSUME NEW e \in [Op -> 0 .. 1], NEW o \in Op, e[o] = 0
    PROVE  [e EXCEPT ![o] = @ + 1] \in [Op -> 0 .. 1]
<1>1. e[o] + 1 \in 0 .. 1
  OBVIOUS
<1> QED BY <1>1

\* What happens at the other end keeps the types.
LEMMA NetworkType ==
    ASSUME TypeOK, SentOnce, Network PROVE TypeOK'
<1> USE DEF TypeOK, connVars, sockVars, opVars, serverVars, netVars, subVars
<1>1. CASE ServerReads
  <2>1. uplink # <<>> /\ uplink' \in Seq(UpFrame)
    BY <1>1, TailFacts DEF ServerReads, TakeFrame, UpFrame
  <2>2. topic_id' \in Topic \cup {NoTopic}
    BY <1>1, <2>1, HeadUplink DEF ServerReads, RecordTopic, UpFrame
  <2>3. CASE Head(uplink).kind # "call"
    BY <1>1, <2>1, <2>2, <2>3 DEF ServerReads, UpFrame
  <2>4. CASE Head(uplink).kind = "call"
    <3>1. executed' \in [Op -> 0 .. 1]
      <4>1. \/ UNCHANGED executed
            \/ executed' = [executed EXCEPT ![Head(uplink).op] = @ + 1]
        BY <1>1, <2>4 DEF ServerReads, Route, Run
      <4>2. Head(uplink).op \in Op /\ executed[Head(uplink).op] = 0
        BY <2>1, HeadUplink
      <4>3. executed \in [Op -> 0 .. 1]
        OBVIOUS
      <4>4. [executed EXCEPT ![Head(uplink).op] = @ + 1] \in [Op -> 0 .. 1]
        BY <4>2, <4>3, RunOnce
      <4> HIDE DEF TypeOK
      <4> QED BY <4>1, <4>3, <4>4
    <3>2. PICK ec \in RouteErrc :
            downlink' = Append(downlink, [type |-> "resp", op |-> Head(uplink).op, ec |-> ec])
      BY <1>1, <2>4 DEF ServerReads
    <3>3. [type |-> "resp", op |-> Head(uplink).op, ec |-> ec] \in Frame
      BY <2>1, HeadUplink DEF Frame, Response
    <3>4. downlink' \in Seq(Frame)
      BY <3>2, <3>3, AppendFacts
    <3> QED BY <1>1, <2>1, <2>2, <3>1, <3>4 DEF ServerReads, UpFrame
  <2> QED BY <2>3, <2>4
<1>2. ASSUME NEW o \in Op, OldServerReads(o) PROVE TypeOK'
  <2>1. o \in Op /\ executed[o] = 0 /\ executed \in [Op -> 0 .. 1]
    BY <1>2 DEF OldServerReads, SentOnce
  <2>2. executed' = executed \/ executed' = [executed EXCEPT ![o] = @ + 1]
    BY <1>2 DEF OldServerReads, Route, Run
  <2>3. [executed EXCEPT ![o] = @ + 1] \in [Op -> 0 .. 1]
    BY <2>1, RunOnce
  <2>4. executed' \in [Op -> 0 .. 1]
    <3> HIDE DEF TypeOK
    <3> QED BY <2>1, <2>2, <2>3
  <2> QED BY <1>2, <2>4 DEF OldServerReads
<1>3. ASSUME NEW t \in Topic, ServerPublishes(t) PROVE TypeOK'
  <2>1. [type |-> "pub", topic |-> t, n |-> pubs + 1] \in Frame
    BY <1>3 DEF ServerPublishes, Frame, Publication
  <2>2. downlink' \in Seq(Frame)
    BY <1>3, <2>1, AppendFacts DEF ServerPublishes
  <2> QED BY <1>3, <2>2 DEF ServerPublishes
<1>4. CASE ForeignPeerSends
  <2>1. uplink' \in Seq(UpFrame)
    BY <1>4, TailFacts DEF ForeignPeerSends, UpFrame
  <2>2. downlink' \in Seq(Frame)
    BY <1>4 DEF ForeignPeerSends, Frame, Garbage
  <2> QED BY <1>4, <2>1, <2>2 DEF ForeignPeerSends, UpFrame
<1>5. CASE PeerGoes
  BY <1>5 DEF PeerGoes
<1> QED BY <1>1, <1>2, <1>3, <1>4, <1>5 DEF Network

LEMMA NextType ==
    TypeOK /\ OneAtATime /\ SentOnce /\ BodyFollows /\ [Next]_vars => TypeOK'
<1> SUFFICES ASSUME TypeOK, OneAtATime, SentOnce, BodyFollows, [Next]_vars PROVE TypeOK'
  OBVIOUS
<1>1. CASE UNCHANGED vars
  BY <1>1 DEF vars, connVars, sockVars, opVars, serverVars, netVars, subVars, TypeOK
<1> QED BY <1>1, ConnectType, StartType, OperationType, NetworkType DEF Next

-----------------------------------------------------------------------------
(* One operation at a time *)

\* An operation that is not done is the last one, and in flight.
LEMMA ActiveFacts ==
    ASSUME TypeOK, OneAtATime, NEW o \in Op, io[o] # "idle",
           io[o] # "done" \/ InFlight(o)
    PROVE  /\ o = ops /\ InFlight(o) /\ connect_pc = "idle"
           /\ returned = 1 .. (ops - 1)
  BY DEF TypeOK, OneAtATime, InFlight, Op

\* FinishIo() leaves a result.
LEMMA FinishFacts ==
    ASSUME TypeOK, NEW o \in Op, NEW ec \in Errc \ {"none"},
           NEW f \in Frame \cup {NoFrame}, FinishIo(o, ec, f)
    PROVE  /\ io' = [io EXCEPT ![o] = "done"]
           /\ \A q \in Op : q # o => result'[q] = result[q]
           /\ ~Cancelled(o) => result'[o].ec = ec /\ result'[o].frame = f
           /\ Cancelled(o) => result'[o] = result[o]
<1> USE DEF FinishIo, TypeOK
<1>1. CASE Cancelled(o)
  BY <1>1
<1>2. CASE ~Cancelled(o)
  BY <1>2
<1> QED BY <1>1, <1>2

LEMMA OneAtATimeConnect ==
    ASSUME TypeOK, OneAtATime, Connecting PROVE OneAtATime'
<1> USE DEF TypeOK, OneAtATime, InFlight, Cancelled, connVars, sockVars, opVars,
            serverVars, netVars, subVars
<1>1. CASE ConnectBegin
  BY <1>1 DEF ConnectBegin, MayConnect, AppIdle, reset
<1>2. CASE ResolveDone \/ ConnectFail
  BY <1>2 DEF ResolveDone, ConnectFail
<1>3. CASE ConnectTimeout \/ Close
  BY <1>3 DEF ConnectTimeout, Close, CloseSocket
<1>4. CASE ConnectDone \/ ConnectDoneLate
  BY <1>4 DEF ConnectDone, ConnectDoneLate
<1> QED BY <1>1, <1>2, <1>3, <1>4 DEF Connecting

LEMMA OneAtATimeStart ==
    ASSUME TypeOK, OneAtATime, StartCall \/ \E t \in Topic : StartSubscribe(t)
    PROVE  OneAtATime'
<1> USE DEF TypeOK, OneAtATime, InFlight, Cancelled, connVars, sockVars, opVars,
            serverVars, netVars, subVars, Op
<1>1. CASE StartCall
  BY <1>1 DEF StartCall, Issue, StartWatchdog, AppIdle
<1>2. ASSUME NEW t \in Topic, StartSubscribe(t) PROVE OneAtATime'
  BY <1>2 DEF StartSubscribe, Issue, Arm, FirstStep, AppIdle
<1> QED BY <1>1, <1>2

LEMMA OneAtATimeOperation ==
    ASSUME TypeOK, OneAtATime, BodyFollows, NEW o \in Op, Operation(o)
    PROVE  OneAtATime'
<1> USE DEF connVars, sockVars, opVars, serverVars, netVars, subVars
<1>1. CASE WriteDone(o)
  BY <1>1 DEF WriteDone, TypeOK, OneAtATime, InFlight, Cancelled
<1>2. ASSUME NEW ec \in Errc \ {"none"}, NEW f \in Frame \cup {NoFrame},
             FinishIo(o, ec, f), io[o] \in {"write", "header", "body"},
             impl' = "closed" \/ impl' = impl,
             UNCHANGED <<connect_pc, opVars, timer, returned>>
      PROVE  OneAtATime'
  <2>1. o = ops /\ InFlight(o)
    BY <1>2, ActiveFacts
  <2>2. Cancelled(o) => result[o].ec = "request_timeout"
    BY DEF OneAtATime
  <2> QED BY <1>2, <2>1, <2>2, FinishFacts DEF TypeOK, OneAtATime, InFlight, Cancelled
<1>3. CASE WriteError(o)
  BY <1>2, <1>3 DEF WriteError, CloseSocket, Errc
<1>4. CASE ReadError(o)
  BY <1>2, <1>4 DEF ReadError, CloseSocket, Errc
<1>5. CASE ReadHeader(o)
  <2>1. CASE Head(downlink).type = "garbage"
    BY <1>2, <1>5, <2>1 DEF ReadHeader, Errc
  <2>2. CASE Head(downlink).type # "garbage"
    BY <1>5, <2>2 DEF ReadHeader, TypeOK, OneAtATime, InFlight, Cancelled
  <2> QED BY <2>1, <2>2
<1>6. CASE ReadBody(o)
  BY <1>2, <1>6, BodyEc DEF ReadBody, Errc, RouteErrc
<1>7. CASE UnpackThrows(o)
  BY <1>7 DEF UnpackThrows, TypeOK, OneAtATime, InFlight, Cancelled
<1>8. CASE WatchdogFires(o) \/ WatchdogLate(o)
  BY <1>8 DEF WatchdogFires, WatchdogLate, CloseSocket, TypeOK, OneAtATime, InFlight,
              Cancelled
<1>9. CASE CallReturn(o) \/ SubscribeReturn(o)
  <2>1. o = ops /\ returned = 1 .. (ops - 1)
    BY <1>9, ActiveFacts DEF CallReturn, SubscribeReturn
  <2>2. returned' = 1 .. ops
    <3>1. returned' = returned \cup {o}
      BY <1>9 DEF CallReturn, SubscribeReturn
    <3>2. ops \in Nat /\ ops >= 1
      BY <2>1 DEF TypeOK, Op
    <3> QED BY <2>1, <3>1, <3>2
  <2> QED BY <1>9, <2>1, <2>2 DEF CallReturn, SubscribeReturn, TypeOK, OneAtATime,
                                  InFlight, Cancelled, Op
<1> QED BY <1>1, <1>3, <1>4, <1>5, <1>6, <1>7, <1>8, <1>9 DEF Operation

LEMMA OneAtATimeStep ==
    ASSUME TypeOK, OneAtATime, BodyFollows, [Next]_vars PROVE OneAtATime'
<1>1. CASE Network \/ UNCHANGED vars
  <2>1. UNCHANGED <<connect_pc, impl, opVars, io, timer, result, returned>>
    BY <1>1 DEF Network, ServerReads, OldServerReads, ServerPublishes, ForeignPeerSends,
                PeerGoes, vars, connVars, sockVars
  <2> QED BY <2>1 DEF OneAtATime, InFlight, Cancelled, opVars
<1> QED BY <1>1, OneAtATimeConnect, OneAtATimeStart, OneAtATimeOperation DEF Next

-----------------------------------------------------------------------------
(* Requests are sent once, and a new connection starts empty *)

\* CallsIn() has the calls of the uplink.
LEMMA OrphansFacts ==
    ASSUME TypeOK, NEW o \in CallsIn(uplink)
    PROVE  \E i \in DOMAIN uplink : uplink[i].op = o /\ uplink[i].kind = "call"
  BY DEF CallsIn

LEMMA FreshStartStep ==
    ASSUME TypeOK, OneAtATime, FreshStart, [Next]_vars PROVE FreshStart'
<1> USE DEF TypeOK, FreshStart, connVars, sockVars, opVars, serverVars, netVars, subVars
<1>1. CASE ConnectBegin
  BY <1>1 DEF ConnectBegin, reset
<1>2. CASE ResolveDone \/ ConnectFail \/ ConnectTimeout \/ Close
  BY <1>2 DEF ResolveDone, ConnectFail, ConnectTimeout, Close, CloseSocket
<1>3. CASE ConnectDone \/ ConnectDoneLate
  BY <1>3 DEF ConnectDone, ConnectDoneLate
<1>4. CASE StartCall \/ \E t \in Topic : StartSubscribe(t)
  BY <1>4 DEF StartCall, StartSubscribe
<1>5. ASSUME NEW o \in Op, Operation(o) PROVE FreshStart'
  BY <1>5 DEF Operation, WriteDone, WriteError, ReadError, ReadHeader, ReadBody,
      UnpackThrows, WatchdogFires, WatchdogLate, CallReturn, SubscribeReturn, CloseSocket
<1>6. CASE Network
  BY <1>6 DEF Network, ServerReads, OldServerReads, ServerPublishes, ForeignPeerSends,
              PeerGoes
<1>7. CASE UNCHANGED vars
  BY <1>7 DEF vars
<1> QED BY <1>1, <1>2, <1>3, <1>4, <1>5, <1>6, <1>7 DEF Next, Connecting

LEMMA BodyFollowsStep ==
    ASSUME TypeOK, OneAtATime, BodyFollows, [Next]_vars PROVE BodyFollows'
<1> SUFFICES ASSUME NEW o \in Op, io'[o] = "body"
             PROVE  downlink' # <<>> /\ Head(downlink').type # "garbage"
  BY DEF BodyFollows
<1> USE DEF TypeOK, connVars, sockVars, opVars, serverVars, netVars, subVars
<1>1. ASSUME io[o] = "body", UNCHANGED downlink
      PROVE  downlink' # <<>> /\ Head(downlink').type # "garbage"
  BY <1>1 DEF BodyFollows
<1>2. CASE Connecting
  <2>1. io[o] = "body"
    BY <1>2 DEF Connecting, ConnectBegin, ResolveDone, ConnectFail, ConnectTimeout,
                ConnectDone, ConnectDoneLate, Close
  <2>2. returned # 1 .. ops
    BY <2>1, ActiveFacts DEF InFlight
  <2>3. UNCHANGED downlink
    BY <1>2, <2>2 DEF Connecting, ConnectBegin, ResolveDone, ConnectFail,
        ConnectTimeout, ConnectDone, ConnectDoneLate, Close, MayConnect, AppIdle
  <2> QED BY <1>1, <2>1, <2>3
<1>3. CASE StartCall \/ \E t \in Topic : StartSubscribe(t)
  BY <1>1, <1>3 DEF StartCall, StartSubscribe, FirstStep
<1>4. ASSUME NEW q \in Op, Operation(q)
      PROVE  downlink' # <<>> /\ Head(downlink').type # "garbage"
  <2>1. CASE WriteDone(q) \/ WriteError(q) \/ ReadError(q) \/ WatchdogFires(q)
             \/ WatchdogLate(q) \/ CallReturn(q) \/ SubscribeReturn(q)
    BY <1>1, <2>1 DEF WriteDone, WriteError, ReadError, WatchdogFires, WatchdogLate,
        CallReturn, SubscribeReturn, FinishIo
  <2>2. CASE ReadHeader(q)
    <3>1. CASE io[o] = "body"
      BY <2>2, <3>1, ActiveFacts DEF ReadHeader
    <3>2. CASE io[o] # "body"
      BY <2>2, <3>2 DEF ReadHeader, FinishIo
    <3> QED BY <3>1, <3>2
  <2>3. CASE ReadBody(q) \/ UnpackThrows(q)
    <3>1. io[o] = "body" /\ o # q /\ io[q] = "body"
      BY <2>3 DEF ReadBody, UnpackThrows, FinishIo
    <3> QED BY <3>1, ActiveFacts
  <2> QED BY <1>4, <2>1, <2>2, <2>3 DEF Operation
<1>5. CASE Network
  <2>1. io[o] = "body" /\ downlink # <<>> /\ Head(downlink).type # "garbage"
    BY <1>5 DEF Network, ServerReads, OldServerReads, ServerPublishes, ForeignPeerSends,
                PeerGoes, BodyFollows
  <2>2. UNCHANGED downlink \/ \E f : downlink' = Append(downlink, f)
    BY <1>5, <2>1 DEF Network, ServerReads, OldServerReads, ServerPublishes,
        ForeignPeerSends, PeerGoes
  <2>3. ASSUME NEW f, downlink' = Append(downlink, f)
        PROVE  downlink' # <<>> /\ Head(downlink') = Head(downlink)
    BY <2>1, <2>3
  <2> QED BY <2>1, <2>2, <2>3
<1>6. CASE UNCHANGED vars
  BY <1>1, <1>6 DEF vars
<1> QED BY <1>2, <1>3, <1>4, <1>5, <1>6 DEF Next

\* The other end takes the first frame of the uplink.
LEMMA SentOnceTail ==
    ASSUME TypeOK, SentOnce, uplink # <<>>, uplink' = Tail(uplink),
           UNCHANGED <<ops, kind, io, result, orphans, returned>>,
           \/ UNCHANGED executed
           \/ /\ kind[Head(uplink).op] = "call"
              /\ executed' = [executed EXCEPT ![Head(uplink).op] = @ + 1]
    PROVE  SentOnce'
<1> DEFINE h == Head(uplink).op
<1>1. Head(uplink) = uplink[1] /\ 1 \in DOMAIN uplink /\ h \in Op
  BY TailFacts, HeadUplink DEF UpFrame, TypeOK
<1>2. \A i \in DOMAIN uplink' :
        i + 1 \in DOMAIN uplink /\ i + 1 # 1 /\ uplink'[i] = uplink[i + 1]
  BY TailFacts DEF TypeOK
<1>3. \A i \in DOMAIN uplink' : uplink'[i].op # h /\ executed'[uplink'[i].op] = 0
  BY <1>1, <1>2, UplinkFacts DEF SentOnce, TypeOK
<1>4. \A i \in DOMAIN uplink' :
        LET o == uplink'[i].op IN
          /\ o <= ops /\ io[o] # "write" /\ result[o].ec # "write_error"
          /\ uplink'[i].kind = kind[o] /\ o \notin orphans
          /\ \A j \in DOMAIN uplink' : uplink'[j].op = o => j = i
  <2> SUFFICES ASSUME NEW i \in DOMAIN uplink'
               PROVE  LET o == uplink'[i].op IN
                        /\ o <= ops /\ io[o] # "write" /\ result[o].ec # "write_error"
                        /\ uplink'[i].kind = kind[o] /\ o \notin orphans
                        /\ \A j \in DOMAIN uplink' : uplink'[j].op = o => j = i
    OBVIOUS
  <2>1. i \in Nat /\ \A j \in DOMAIN uplink' : j \in Nat
    BY TailFacts, EmptyFacts DEF TypeOK
  <2> QED BY <1>2, <2>1 DEF SentOnce
<1>5. \A o \in orphans : o \in Op /\ executed'[o] = 0
  BY <1>1 DEF SentOnce, TypeOK
<1>6. \A o \in Op : executed'[o] = 1 => executed[o] = 1 \/ o = h
  BY <1>1 DEF TypeOK
<1>7. UNCHANGED executed \/ (kind[h] = "call" /\ h <= ops /\ io[h] # "write"
                              /\ result[h].ec # "write_error")
  BY <1>1 DEF SentOnce
<1>8. h = uplink[1].op /\ h <= ops /\ io[h] # "write" /\ result[h].ec # "write_error"
  BY <1>1 DEF SentOnce
<1> QED BY <1>3, <1>4, <1>5, <1>6, <1>7 DEF SentOnce

LEMMA SentOnceConnect ==
    ASSUME TypeOK, OneAtATime, SentOnce, Connecting PROVE SentOnce'
<1> USE DEF connVars, sockVars, opVars, serverVars, netVars, subVars
<1>1. CASE ConnectBegin /\ should_reset
  <2>1. /\ uplink' = <<>> /\ UNCHANGED <<ops, kind, io, result, returned, executed>>
        /\ \A o \in orphans' : o \in orphans \/ o \in CallsIn(uplink)
        /\ returned = 1 .. ops
    BY <1>1 DEF ConnectBegin, reset, MayConnect, AppIdle
  <2>2. \A o \in CallsIn(uplink) :
          /\ o \in returned /\ kind[o] = "call"
          /\ executed[o] = 0 /\ result[o].ec # "write_error"
    <3> SUFFICES ASSUME NEW o \in CallsIn(uplink)
                 PROVE  /\ o \in returned /\ kind[o] = "call"
                        /\ executed[o] = 0 /\ result[o].ec # "write_error"
      OBVIOUS
    <3>1. PICK i \in DOMAIN uplink : uplink[i].op = o /\ uplink[i].kind = "call"
      BY OrphansFacts
    <3>2. o \in Op /\ o <= ops
      BY <3>1, UplinkFacts DEF SentOnce
    <3>3. o \in returned
      BY <2>1, <3>2 DEF Op, TypeOK
    <3> QED BY <3>1, <3>3 DEF SentOnce
  <2> QED BY <2>1, <2>2, EmptyFacts DEF SentOnce
<1>2. CASE ~(ConnectBegin /\ should_reset)
  <2>1. UNCHANGED <<uplink, orphans, executed, ops, kind, io, result, returned>>
    BY <1>2 DEF Connecting, ConnectBegin, ResolveDone, ConnectFail, ConnectTimeout,
                ConnectDone, ConnectDoneLate, Close
  <2> QED BY <2>1 DEF SentOnce
<1> QED BY <1>1, <1>2

LEMMA SentOnceStart ==
    ASSUME TypeOK, OneAtATime, SentOnce, StartCall \/ \E t \in Topic : StartSubscribe(t)
    PROVE  SentOnce'
<1> USE DEF connVars, sockVars, opVars, serverVars, netVars, subVars
<1>1. /\ UNCHANGED <<uplink, orphans, executed, result, returned>>
      /\ ops' = ops + 1 /\ ops + 1 \in Op
      /\ \A o \in Op : o <= ops => kind'[o] = kind[o] /\ io'[o] = io[o]
  BY DEF StartCall, StartSubscribe, Issue, TypeOK, Op
<1>2. \A i \in DOMAIN uplink : uplink[i].op \in Op /\ uplink[i].op <= ops
  BY UplinkFacts DEF SentOnce
<1>3. \A o \in Op : o <= ops => o <= ops'
  BY <1>1 DEF TypeOK, Op
<1>4. \A o \in orphans : o \in Op /\ o <= ops
  <2>1. orphans \subseteq returned /\ returned \subseteq 1 .. ops
    BY DEF SentOnce, TypeOK
  <2> QED BY <2>1 DEF TypeOK
<1> QED BY <1>1, <1>2, <1>3, <1>4 DEF SentOnce

\* An operation that has finished was not sent with a write_error.
LEMMA SentOnceOperation ==
    ASSUME TypeOK, OneAtATime, SentOnce, BodyFollows, NEW o \in Op, Operation(o)
    PROVE  SentOnce'
<1> USE DEF connVars, sockVars, opVars, serverVars, netVars, subVars
<1>1. CASE WriteDone(o)
  <2>1. o = ops /\ kind[o] \in {"call"} \cup Topic /\ o \notin returned
    BY <1>1, ActiveFacts DEF WriteDone, OneAtATime, TypeOK, InFlight, Op
  <2>2. /\ executed[o] # 1 /\ o \notin orphans
        /\ \A i \in DOMAIN uplink : uplink[i].op # o
    BY <1>1, <2>1 DEF WriteDone, SentOnce
  <2>3. executed[o] = 0
    BY <2>2 DEF TypeOK
  <2>4. [op |-> o, kind |-> kind[o]] \in UpFrame
    BY <2>1 DEF UpFrame
  <2>5. result[o].ec # "write_error"
    BY <1>1, <2>1 DEF OneAtATime, WriteDone
  <2>6. \A i \in DOMAIN uplink' :
          \/ i \in DOMAIN uplink /\ uplink'[i] = uplink[i]
          \/ i = Len(uplink) + 1 /\ uplink'[i] = [op |-> o, kind |-> kind[o]]
    BY <1>1, <2>4, UplinkFacts, AppendFacts DEF WriteDone
  <2>7. Len(uplink) + 1 \notin DOMAIN uplink
    BY UplinkFacts
  <2>8. \A q \in Op : io'[q] = "write" => io[q] = "write"
    BY <1>1 DEF WriteDone, TypeOK
  <2>9. io'[o] = "header" /\ \A q \in Op : q # o => io'[q] = io[q]
    BY <1>1 DEF WriteDone, TypeOK
  <2>10. UNCHANGED <<ops, kind, result, orphans, executed, returned>>
    BY <1>1 DEF WriteDone
  <2>11. \A i \in DOMAIN uplink' :
           LET q == uplink'[i].op IN
             /\ q <= ops /\ io'[q] # "write" /\ result[q].ec # "write_error"
             /\ uplink'[i].kind = kind[q]
             /\ executed[q] = 0 /\ q \notin orphans
             /\ \A j \in DOMAIN uplink' : uplink'[j].op = q => j = i
    <3> SUFFICES ASSUME NEW i \in DOMAIN uplink'
                 PROVE  LET q == uplink'[i].op IN
                          /\ q <= ops /\ io'[q] # "write" /\ result[q].ec # "write_error"
                          /\ uplink'[i].kind = kind[q]
                          /\ executed[q] = 0 /\ q \notin orphans
                          /\ \A j \in DOMAIN uplink' : uplink'[j].op = q => j = i
      OBVIOUS
    <3>1. CASE i \in DOMAIN uplink /\ uplink'[i] = uplink[i]
      BY <2>2, <2>6, <2>8, <3>1, UplinkFacts DEF SentOnce
    <3>2. CASE i = Len(uplink) + 1 /\ uplink'[i] = [op |-> o, kind |-> kind[o]]
      BY <2>1, <2>2, <2>3, <2>5, <2>6, <2>7, <2>9, <3>2 DEF TypeOK
    <3> QED BY <2>6, <3>1, <3>2
  <2>12. \A q \in Op : executed[q] = 1 => io'[q] # "write"
    BY <2>8 DEF SentOnce
  <2> QED BY <2>10, <2>11, <2>12 DEF SentOnce
<1> DEFINE Written == \A q \in Op : io'[q] = "write" => io[q] = "write"
           Failed == \A q \in Op : result'[q].ec = "write_error" =>
                       \/ result[q].ec = "write_error"
                       \/ io[q] = "write" /\ q \notin returned
           Rest == /\ uplink' = uplink /\ orphans' = orphans /\ executed' = executed
                   /\ ops' = ops /\ kind' = kind /\ returned \subseteq returned'
<1>2. ASSUME Written, Failed, Rest PROVE SentOnce'
  <2>1. \A i \in DOMAIN uplink :
          io'[uplink[i].op] # "write" /\ result'[uplink[i].op].ec # "write_error"
    BY <1>2, UplinkFacts DEF SentOnce
  <2>2. \A q \in orphans : q \in Op /\ q \in returned /\ result'[q].ec # "write_error"
    BY <1>2 DEF SentOnce, TypeOK
  <2>3. \A q \in Op : executed[q] = 1 => io'[q] # "write" /\ result'[q].ec # "write_error"
    BY <1>2 DEF SentOnce
  <2> QED BY <1>2, <2>1, <2>2, <2>3 DEF SentOnce
<1> HIDE DEF Written, Failed, Rest
<1>3. CASE WriteError(o)
  <2>1. o \notin returned
    BY <1>3, ActiveFacts DEF WriteError, InFlight
  <2>2. FinishIo(o, "write_error", NoFrame) /\ io[o] = "write"
    BY <1>3 DEF WriteError
  <2>3. Written
    BY <2>2 DEF FinishIo, TypeOK, Written
  <2>4. Failed
    <3>1. \A q \in Op : q # o => result'[q] = result[q]
      BY <2>2 DEF FinishIo, TypeOK
    <3> QED BY <2>1, <2>2, <3>1 DEF Failed
  <2>5. Rest
    BY <1>3 DEF WriteError, Rest
  <2> QED BY <1>2, <2>3, <2>4, <2>5
<1>4. ASSUME NEW ec \in Errc \ {"none", "write_error"}, NEW f \in Frame \cup {NoFrame},
             FinishIo(o, ec, f), Rest
      PROVE  SentOnce'
  <2>1. Written
    BY <1>4 DEF FinishIo, TypeOK, Written
  <2>2. Failed
    BY <1>4 DEF FinishIo, TypeOK, Failed
  <2> QED BY <1>2, <1>4, <2>1, <2>2
<1>5. CASE ReadError(o)
  BY <1>4, <1>5 DEF ReadError, Errc, Rest
<1>6. CASE ReadHeader(o)
  <2>1. Rest
    BY <1>6 DEF ReadHeader, Rest
  <2>2. CASE Head(downlink).type = "garbage"
    BY <1>4, <1>6, <2>1, <2>2 DEF ReadHeader, Errc
  <2>3. CASE Head(downlink).type # "garbage"
    <3>1. Written /\ Failed
      BY <1>6, <2>3 DEF ReadHeader, TypeOK, Written, Failed
    <3> QED BY <1>2, <2>1, <3>1
  <2> QED BY <2>2, <2>3
<1>7. CASE ReadBody(o)
  <2>1. Rest
    BY <1>7 DEF ReadBody, Rest
  <2> QED BY <1>4, <1>7, <2>1, BodyEc DEF ReadBody, Errc, RouteErrc
<1>8. CASE UnpackThrows(o) \/ WatchdogLate(o) \/ CallReturn(o) \/ SubscribeReturn(o)
  <2>1. Written /\ Failed
    BY <1>8 DEF UnpackThrows, WatchdogLate, CallReturn, SubscribeReturn, TypeOK, Written,
                Failed
  <2>2. Rest
    BY <1>8 DEF UnpackThrows, WatchdogLate, CallReturn, SubscribeReturn, Rest
  <2> QED BY <1>2, <2>1, <2>2
<1>9. CASE WatchdogFires(o)
  <2>1. Written /\ Failed /\ Rest
    BY <1>9 DEF WatchdogFires, TypeOK, Written, Failed, Rest
  <2> QED BY <1>2, <2>1
<1> QED BY <1>1, <1>3, <1>5, <1>6, <1>7, <1>8, <1>9 DEF Operation

LEMMA SentOnceStep ==
    ASSUME TypeOK, OneAtATime, SentOnce, BodyFollows, [Next]_vars PROVE SentOnce'
<1> USE DEF connVars, sockVars, opVars, serverVars, netVars, subVars
<1>1. CASE ServerReads
  <2>1. Head(uplink) = uplink[1] /\ 1 \in DOMAIN uplink
    BY <1>1, TailFacts DEF ServerReads, TypeOK
  <2>2. kind[Head(uplink).op] = Head(uplink).kind
    BY <2>1 DEF SentOnce
  <2> QED BY <1>1, <2>2, SentOnceTail DEF ServerReads, TakeFrame, Route, Run
<1>2. CASE ForeignPeerSends
  BY <1>2, SentOnceTail DEF ForeignPeerSends
<1>3. ASSUME NEW o \in Op, OldServerReads(o) PROVE SentOnce'
  <2>1. o <= ops /\ io[o] = "done" /\ kind[o] = "call" /\ executed[o] = 0
        /\ result[o].ec # "write_error"
    BY <1>3 DEF OldServerReads, SentOnce, OneAtATime, TypeOK
  <2>2. \A q \in Op : executed'[q] = 1 => executed[q] = 1 \/ q = o
    BY <1>3 DEF OldServerReads, Route, Run, TypeOK
  <2>3. \A q \in Op : q # o => executed'[q] = executed[q]
    BY <1>3 DEF OldServerReads, Route, Run, TypeOK
  <2>4. \A i \in DOMAIN uplink : uplink[i].op # o /\ executed'[uplink[i].op] = 0
    BY <1>3, <2>3, UplinkFacts DEF OldServerReads, SentOnce
  <2> QED BY <1>3, <2>1, <2>2, <2>3, <2>4 DEF OldServerReads, SentOnce, TypeOK
<1>4. CASE PeerGoes \/ (\E t \in Topic : ServerPublishes(t)) \/ UNCHANGED vars
  <2>1. UNCHANGED <<ops, io, kind, result, returned, uplink, orphans, executed>>
    BY <1>4 DEF PeerGoes, ServerPublishes, vars
  <2> QED BY <2>1 DEF SentOnce
<1> QED BY <1>1, <1>2, <1>3, <1>4, SentOnceConnect, SentOnceStart, SentOnceOperation
        DEF Next, Network

-----------------------------------------------------------------------------
(* A client that calls *)

\* What is known of the frames on the downlink.
LEMMA DownlinkFacts ==
    ASSUME TypeOK
    PROVE  /\ downlink \in Seq(Frame) /\ Len(downlink) \in Nat
           /\ DOMAIN downlink = 1 .. Len(downlink)
           /\ \A i \in DOMAIN downlink : i \in Nat /\ downlink[i] \in Frame
           /\ \A f \in Frame : f.type = "resp" => f.op \in Op
           /\ \A f \in Frame : f.type = "pub" => f.topic \in Topic
<1>1. downlink \in Seq(Frame)
  BY DEF TypeOK
<1>2. \A f \in Frame : f.type = "resp" => f.op \in Op
  BY DEF Frame, Response, Publication, Garbage
<1>3. \A f \in Frame : f.type = "pub" => f.topic \in Topic
  BY DEF Frame, Response, Publication, Garbage
<1> QED BY <1>1, <1>2, <1>3, EmptyFacts

\* The frame at the head of the uplink is that of its operation.
LEMMA HeadKind ==
    ASSUME TypeOK, SentOnce, uplink # <<>>
    PROVE  /\ Head(uplink) = uplink[1] /\ 1 \in DOMAIN uplink
           /\ Head(uplink).kind = kind[Head(uplink).op]
           /\ Head(uplink).op \in Op /\ Head(uplink).kind \in {"call"} \cup Topic
<1>1. Head(uplink) = uplink[1] /\ 1 \in DOMAIN uplink
  BY TailFacts DEF TypeOK
<1> QED BY <1>1, UplinkFacts DEF SentOnce

\* complete() of nothing.
LEMMA CompleteNothing ==
    ASSUME TypeOK, NoTopics, NEW S, S \subseteq Present, Complete(S)
    PROVE  Present' = {} /\ ~double'
<1>1. S = {}
  BY DEF NoTopics
<1>2. sub_ops' = sub_ops
  BY <1>1 DEF Complete, TypeOK
<1>3. ~double'
  BY <1>1 DEF Complete, NoTopics
<1> QED BY <1>2, <1>3 DEF Present, NoTopics

LEMMA NoTopicsStep ==
    ASSUME TypeOK, SentOnce, role = "caller", NoTopics, [Next]_vars PROVE NoTopics'
<1> USE DEF connVars, sockVars, opVars, serverVars, netVars, subVars
<1>1. ASSUME UNCHANGED <<topic_id, sub_ops, double, kind>> PROVE NoTopics'
  BY <1>1 DEF NoTopics, Present
<1>2. CASE Connecting
  <2>1. topic_id' = NoTopic
    BY <1>2 DEF Connecting, ConnectBegin, ResolveDone, ConnectFail, ConnectTimeout,
                ConnectDone, ConnectDoneLate, Close, reset, NoTopics
  <2>2. UNCHANGED <<sub_ops, double, kind>>
    BY <1>2 DEF Connecting, ConnectBegin, ResolveDone, ConnectFail, ConnectTimeout,
                ConnectDone, ConnectDoneLate, Close
  <2> QED BY <2>1, <2>2 DEF NoTopics, Present
<1>3. CASE StartCall
  <2>1. \A o \in Op : kind'[o] \in {"none", "call"}
    BY <1>3 DEF StartCall, Issue, NoTopics, TypeOK
  <2> QED BY <1>3, <2>1 DEF StartCall, NoTopics, Present
<1>4. ~ \E t \in Topic : StartSubscribe(t)
  BY DEF StartSubscribe
<1>5. ASSUME NEW o \in Op, Operation(o) PROVE NoTopics'
  <2>1. UNCHANGED <<topic_id, kind>>
    BY <1>5 DEF Operation, WriteDone, WriteError, ReadError, ReadHeader, ReadBody,
                UnpackThrows, WatchdogFires, WatchdogLate, CallReturn, SubscribeReturn
  <2>2. \/ UNCHANGED <<sub_ops, double>>
        \/ \E S \in SUBSET Present : Complete(S)
    BY <1>5 DEF Operation, WriteDone, WriteError, ReadError, ReadHeader, ReadBody,
                UnpackThrows, WatchdogFires, WatchdogLate, CallReturn, SubscribeReturn,
                comple_all
  <2>3. ASSUME NEW S \in SUBSET Present, Complete(S) PROVE NoTopics'
    BY <2>1, <2>3, CompleteNothing DEF NoTopics
  <2> QED BY <1>1, <2>1, <2>2, <2>3
<1>6. CASE Network
  <2>1. UNCHANGED <<sub_ops, double, kind>>
    BY <1>6 DEF Network, ServerReads, OldServerReads, ServerPublishes, ForeignPeerSends,
                PeerGoes
  <2>2. uplink # <<>> => Head(uplink).kind = "call"
    BY HeadKind DEF NoTopics
  <2>3. topic_id' = topic_id
    BY <1>6, <2>2 DEF Network, ServerReads, OldServerReads, ServerPublishes,
        ForeignPeerSends, PeerGoes, RecordTopic
  <2> QED BY <1>1, <2>1, <2>3
<1>7. CASE UNCHANGED vars
  BY <1>1, <1>7 DEF vars
<1> QED BY <1>2, <1>3, <1>4, <1>5, <1>6, <1>7 DEF Next

LEMMA OneFrameStep ==
    ASSUME TypeOK, OneAtATime, SentOnce, FreshStart, BodyFollows, role = "caller",
           NoTopics, OneFrame, [Next]_vars
    PROVE  OneFrame'
<1> USE DEF connVars, sockVars, opVars, serverVars, netVars, subVars
<1>1. ASSUME UNCHANGED <<uplink, downlink>>, impl' = "closed" PROVE OneFrame'
  BY <1>1 DEF OneFrame
<1>2. ASSUME uplink' = <<>>, downlink' = <<>> PROVE OneFrame'
  BY <1>2, EmptyFacts DEF OneFrame
<1>3. ASSUME UNCHANGED <<uplink, downlink, impl, ops, returned, io>> PROVE OneFrame'
  BY <1>3 DEF OneFrame, InFlight
<1>4. CASE Connecting
  <2>1. CASE ConnectBegin
    BY <1>2, <2>1 DEF ConnectBegin, reset, FreshStart
  <2>2. CASE ConnectTimeout \/ Close
    BY <1>1, <2>2 DEF ConnectTimeout, Close, CloseSocket
  <2>3. CASE ResolveDone \/ ConnectFail
    BY <1>3, <2>3 DEF ResolveDone, ConnectFail
  <2>4. CASE ConnectDone \/ ConnectDoneLate
    BY <1>2, <2>4 DEF ConnectDone, ConnectDoneLate, FreshStart
  <2> QED BY <1>4, <2>1, <2>2, <2>3, <2>4 DEF Connecting
<1>5. CASE StartCall
  <2>1. ~InFlight(ops) /\ UNCHANGED <<uplink, downlink, impl>>
    BY <1>5 DEF StartCall, Issue, AppIdle, InFlight
  <2>2. CASE impl = "open"
    BY <1>2, <2>1, <2>2 DEF OneFrame
  <2>3. CASE impl # "open"
    BY <1>1, <2>1, <2>3 DEF TypeOK
  <2> QED BY <2>2, <2>3
<1>6. ~ \E t \in Topic : StartSubscribe(t)
  BY DEF StartSubscribe
<1>7. ASSUME NEW o \in Op, Operation(o) PROVE OneFrame'
  <2>1. CASE WriteDone(o)
    <3>1. o = ops /\ InFlight(o)
      BY <2>1, ActiveFacts DEF WriteDone
    <3>2. uplink = <<>> /\ downlink = <<>> /\ impl = "open"
      BY <2>1, <3>1 DEF WriteDone, OneFrame
    <3>3. uplink' = <<[op |-> o, kind |-> kind[o]]>> /\ downlink' = <<>>
      BY <2>1, <3>2 DEF WriteDone
    <3>4. io'[ops'] = "header" /\ InFlight(ops)'
      BY <2>1, <3>1 DEF WriteDone, InFlight, TypeOK
    <3>5. ops' = o
      BY <2>1, <3>1 DEF WriteDone
    <3> QED BY <3>3, <3>4, <3>5 DEF OneFrame
  <2>2. CASE WriteError(o) \/ ReadError(o) \/ WatchdogFires(o) \/ WatchdogLate(o)
    BY <1>1, <2>2 DEF WriteError, ReadError, WatchdogFires, WatchdogLate, CloseSocket
  <2>3. ASSUME downlink # <<>>, downlink' = Tail(downlink), UNCHANGED uplink
        PROVE  OneFrame'
    <3>1. Len(downlink) = 1 /\ Len(uplink) = 0
      BY <2>3, EmptyFacts, UplinkFacts, DownlinkFacts DEF OneFrame
    <3>2. uplink = <<>> /\ Tail(downlink) = <<>>
      <4>1. Tail(downlink) \in Seq(Frame) /\ Len(Tail(downlink)) = 0
        BY <2>3, <3>1, TailFacts, DownlinkFacts
      <4>2. Tail(downlink) = <<>>
        BY <4>1, EmptyFacts
      <4> QED BY <3>1, <4>2, UplinkFacts, EmptyFacts
    <3> QED BY <1>2, <2>3, <3>2
  <2>4. CASE ReadHeader(o)
    <3>1. CASE Head(downlink).type = "garbage"
      BY <2>3, <2>4, <3>1 DEF ReadHeader
    <3>2. CASE Head(downlink).type # "garbage"
      <4>1. o = ops
        BY <2>4, ActiveFacts DEF ReadHeader
      <4> QED BY <2>4, <3>2, <4>1 DEF ReadHeader, OneFrame, InFlight, TypeOK
    <3> QED BY <3>1, <3>2
  <2>5. CASE ReadBody(o) \/ UnpackThrows(o)
    BY <2>3, <2>5 DEF ReadBody, UnpackThrows
  <2>6. CASE CallReturn(o) \/ SubscribeReturn(o)
    <3>1. o = ops /\ io[o] = "done" /\ UNCHANGED <<uplink, downlink, impl>>
      BY <2>6, ActiveFacts DEF CallReturn, SubscribeReturn
    <3>2. CASE impl = "open"
      BY <1>2, <3>1, <3>2 DEF OneFrame
    <3>3. CASE impl # "open"
      BY <1>1, <3>1, <3>3 DEF TypeOK
    <3> QED BY <3>2, <3>3
  <2> QED BY <1>7, <2>1, <2>2, <2>4, <2>5, <2>6 DEF Operation
<1>8. CASE Network
  <2>1. UNCHANGED <<impl, ops, returned, io>>
    BY <1>8 DEF Network, ServerReads, OldServerReads, ServerPublishes, ForeignPeerSends,
                PeerGoes
  <2>2. ASSUME NEW f \in Frame, uplink # <<>>, uplink' = Tail(uplink),
               downlink' = Append(downlink, f),
               f.type = "resp" => f.op = Head(uplink).op
        PROVE  OneFrame'
    <3>1. Len(uplink) = 1 /\ Len(downlink) = 0
      BY <2>2, EmptyFacts, UplinkFacts, DownlinkFacts DEF OneFrame
    <3>2. uplink' = <<>> /\ downlink' = <<f>>
      BY <2>2, <3>1, UplinkFacts, DownlinkFacts
    <3>3. impl = "open" => /\ InFlight(ops) /\ io[ops] \in {"header", "body"}
                           /\ Head(uplink).op = ops
      BY <2>2, HeadKind DEF OneFrame
    <3>4. Len(uplink') + Len(downlink') = 1
      BY <3>2
    <3>5. \A i \in DOMAIN downlink' : downlink'[i] = f
      BY <3>2
    <3>6. \A i \in DOMAIN uplink' : FALSE
      BY <3>2
    <3> QED BY <2>1, <2>2, <3>3, <3>4, <3>5, <3>6 DEF OneFrame, InFlight
  <2>3. CASE ServerReads
    <3>1. uplink # <<>> /\ uplink' = Tail(uplink) /\ Head(uplink).kind = "call"
      BY <2>3, HeadKind DEF ServerReads, TakeFrame, NoTopics
    <3>2. PICK ec \in RouteErrc :
            downlink' = Append(downlink, [type |-> "resp", op |-> Head(uplink).op, ec |-> ec])
      BY <2>3, <3>1 DEF ServerReads
    <3>3. [type |-> "resp", op |-> Head(uplink).op, ec |-> ec] \in Frame
      BY <3>1, HeadUplink DEF Frame, Response
    <3> QED BY <2>2, <3>1, <3>2, <3>3
  <2>4. CASE ForeignPeerSends
    <3>1. [type |-> "garbage"] \in Frame
      BY DEF Frame, Garbage
    <3>2. downlink' = Append(downlink, [type |-> "garbage"])
      BY <2>4 DEF ForeignPeerSends
    <3> QED BY <2>2, <2>4, <3>1, <3>2 DEF ForeignPeerSends
  <2>5. ASSUME NEW t \in Topic, ServerPublishes(t) PROVE FALSE
    BY <2>5 DEF ServerPublishes, NoTopics
  <2>6. CASE PeerGoes \/ \E o \in Op : OldServerReads(o)
    BY <1>3, <2>1, <2>6 DEF PeerGoes, OldServerReads
  <2> QED BY <1>8, <2>3, <2>4, <2>5, <2>6 DEF Network
<1>9. CASE UNCHANGED vars
  BY <1>3, <1>9 DEF vars
<1> QED BY <1>4, <1>5, <1>6, <1>7, <1>8, <1>9 DEF Next

\* Settled() after the step.
SettledAfter(o, ec) ==
    /\ o \notin orphans'
    /\ \A i \in DOMAIN uplink' : uplink'[i].op # o
    /\ ec = "ok" => executed'[o] = 1
    /\ ec = "no_such_function" => executed'[o] = 0

\* What no server gets to any more stays as it is.
LEMMA SettledStays ==
    ASSUME TypeOK, SentOnce, [Next]_vars, NEW o \in Op, NEW ec, Settled(o, ec),
           io[o] # "write" \/ impl # "open"
    PROVE  SettledAfter(o, ec)
<1> USE DEF connVars, sockVars, opVars, serverVars, netVars, subVars
<1>1. ASSUME o \notin orphans', \A i \in DOMAIN uplink' : uplink'[i].op # o,
             executed'[o] = executed[o]
      PROVE  SettledAfter(o, ec)
  BY <1>1 DEF Settled, SettledAfter
<1>2. o \notin orphans /\ \A i \in DOMAIN uplink : uplink[i].op # o
  BY DEF Settled
<1>3. ASSUME uplink # <<>>, uplink' = Tail(uplink)
      PROVE  Head(uplink).op # o /\ \A i \in DOMAIN uplink' : uplink'[i].op # o
  BY <1>2, <1>3, TailFacts, UplinkFacts
<1>4. CASE ServerReads
  <2>1. uplink # <<>> /\ uplink' = Tail(uplink) /\ orphans' = orphans
    BY <1>4 DEF ServerReads, TakeFrame
  <2>2. executed'[o] = executed[o]
    BY <1>3, <1>4, <2>1, HeadUplink DEF ServerReads, Route, Run, TypeOK
  <2> QED BY <1>1, <1>2, <1>3, <2>1, <2>2
<1>5. ASSUME NEW p \in Op, OldServerReads(p) PROVE SettledAfter(o, ec)
  <2>1. p # o /\ orphans' \subseteq orphans /\ uplink' = uplink
    BY <1>2, <1>5 DEF OldServerReads
  <2>2. executed'[o] = executed[o]
    BY <1>5, <2>1 DEF OldServerReads, Route, Run, TypeOK
  <2> QED BY <1>1, <1>2, <2>1, <2>2
<1>6. CASE Connecting
  <2>1. /\ uplink' = uplink \/ uplink' = <<>>
        /\ \A q \in orphans' : q \in orphans \/ q \in CallsIn(uplink)
    BY <1>6 DEF Connecting, ConnectBegin, ResolveDone, ConnectFail, ConnectTimeout,
                ConnectDone, ConnectDoneLate, Close, reset
  <2>2. UNCHANGED executed
    BY <1>6 DEF Connecting, ConnectBegin, ResolveDone, ConnectFail, ConnectTimeout,
                ConnectDone, ConnectDoneLate, Close, reset
  <2>3. o \notin CallsIn(uplink)
    BY <1>2, OrphansFacts
  <2> QED BY <1>1, <1>2, <2>1, <2>2, <2>3, EmptyFacts
<1>7. ASSUME NEW p \in Op, WriteDone(p) PROVE SettledAfter(o, ec)
  <2>1. p # o /\ uplink' = Append(uplink, [op |-> p, kind |-> kind[p]])
        /\ UNCHANGED <<orphans, executed>>
    BY <1>7 DEF WriteDone
  <2>2. \A i \in DOMAIN uplink' : uplink'[i].op # o
    BY <1>2, <2>1, UplinkFacts
  <2> QED BY <1>1, <1>2, <2>1, <2>2
<1>8. ASSUME NEW p \in Op, Operation(p), ~WriteDone(p)
      PROVE  UNCHANGED <<uplink, orphans, executed>>
  BY <1>8 DEF Operation, WriteError, ReadError, ReadHeader, ReadBody,
              UnpackThrows, WatchdogFires, WatchdogLate, CallReturn, SubscribeReturn
<1>9. CASE StartCall \/ (\E t \in Topic : StartSubscribe(t)) \/ PeerGoes
           \/ (\E t \in Topic : ServerPublishes(t)) \/ UNCHANGED vars
  BY <1>1, <1>2, <1>9 DEF StartCall, StartSubscribe, PeerGoes, ServerPublishes, vars
<1>10. CASE ForeignPeerSends
  BY <1>1, <1>2, <1>3, <1>10 DEF ForeignPeerSends
<1> QED BY <1>1, <1>2, <1>4, <1>5, <1>6, <1>7, <1>8, <1>9, <1>10 DEF Next, Network

LEMMA AnsweredStep ==
    ASSUME TypeOK, OneAtATime, SentOnce, BodyFollows, role = "caller",
           NoTopics, OneFrame, Answered, [Next]_vars
    PROVE  Answered'
<1> USE DEF connVars, sockVars, opVars, serverVars, netVars, subVars
<1> DEFINE Fine(f) == f.type = "garbage" \/ (f.type = "resp" /\ SettledAfter(f.op, f.ec))
           Frames == \A i \in DOMAIN downlink' : Fine(downlink'[i])
           Results == \A o \in Op : result'[o].ec \in RouteErrc =>
                        /\ SettledAfter(o, result'[o].ec)
                        /\ result'[o].frame.type = "resp" /\ result'[o].frame.op = o
<1>1. SUFFICES Frames /\ Results
  BY DEF Answered, Settled, SettledAfter
<1>2. \A i \in DOMAIN downlink : Fine(downlink[i])
  <2> SUFFICES ASSUME NEW i \in DOMAIN downlink, downlink[i].type # "garbage"
               PROVE  downlink[i].type = "resp" /\ SettledAfter(downlink[i].op, downlink[i].ec)
    OBVIOUS
  <2>1. downlink[i].type = "resp" /\ Settled(downlink[i].op, downlink[i].ec)
    BY DEF Answered
  <2>2. downlink[i].op \in Op /\ downlink # <<>>
    BY <2>1, DownlinkFacts, EmptyFacts
  <2>3. io[downlink[i].op] # "write" \/ impl # "open"
    BY <2>2, ActiveFacts DEF OneFrame
  <2> QED BY <2>1, <2>2, <2>3, SettledStays
<1>3. \A o \in Op : result'[o] = result[o] \/ result'[o].ec \notin RouteErrc
        => (result'[o].ec \in RouteErrc =>
             /\ SettledAfter(o, result'[o].ec)
             /\ result'[o].frame.type = "resp" /\ result'[o].frame.op = o)
  <2> SUFFICES ASSUME NEW o \in Op, result[o].ec \in RouteErrc
               PROVE  /\ SettledAfter(o, result[o].ec)
                      /\ result[o].frame.type = "resp" /\ result[o].frame.op = o
    OBVIOUS
  <2>1. io[o] = "done"
    BY DEF OneAtATime, RouteErrc
  <2> QED BY <2>1, SettledStays DEF Answered
<1> HIDE DEF Fine
<1>4. ASSUME UNCHANGED downlink PROVE Frames
  BY <1>2, <1>4
<1>5. ASSUME downlink # <<>>, downlink' = Tail(downlink) PROVE Frames
  BY <1>2, <1>5, TailFacts, DownlinkFacts
<1>6. ASSUME UNCHANGED result PROVE Results
  BY <1>3, <1>6
<1>7. CASE Connecting
  <2>1. UNCHANGED result
    BY <1>7 DEF Connecting, ConnectBegin, ResolveDone, ConnectFail, ConnectTimeout,
                ConnectDone, ConnectDoneLate, Close
  <2>2. UNCHANGED downlink \/ downlink' = <<>>
    BY <1>7 DEF Connecting, ConnectBegin, ResolveDone, ConnectFail, ConnectTimeout,
                ConnectDone, ConnectDoneLate, Close, reset
  <2> QED BY <1>4, <1>6, <2>1, <2>2, EmptyFacts
<1>8. CASE StartCall \/ \E t \in Topic : StartSubscribe(t)
  BY <1>4, <1>6, <1>8 DEF StartCall, StartSubscribe
<1>9. ASSUME NEW o \in Op, Operation(o) PROVE Frames /\ Results
  <2>1. ASSUME NEW ec \in Errc \ (RouteErrc \cup {"none"}),
               FinishIo(o, ec, NoFrame)
        PROVE  Results
    <3>1. \A q \in Op : result'[q] = result[q] \/ result'[q].ec \notin RouteErrc
      BY <2>1, FinishFacts
    <3> QED BY <1>3, <3>1
  <2>2. CASE WriteError(o) \/ ReadError(o)
    BY <1>4, <2>1, <2>2 DEF WriteError, ReadError, Errc, RouteErrc
  <2>3. CASE ReadHeader(o)
    <3>1. CASE Head(downlink).type = "garbage"
      BY <1>5, <2>1, <2>3, <3>1 DEF ReadHeader, Errc, RouteErrc
    <3>2. CASE Head(downlink).type # "garbage"
      BY <1>4, <1>6, <2>3, <3>2 DEF ReadHeader
    <3> QED BY <3>1, <3>2
  <2>4. CASE ReadBody(o)
    <3> DEFINE f == Head(downlink)
    <3>1. o = ops /\ impl = "open" /\ downlink # <<>>
      BY <2>4, ActiveFacts DEF ReadBody
    <3>2. f = downlink[1] /\ 1 \in DOMAIN downlink
      BY <3>1, TailFacts DEF TypeOK
    <3>3. f.type = "resp" /\ f.op \in Op /\ f.ec \in RouteErrc /\ f \in Frame
      BY <2>4, <3>2, BodyEc DEF ReadBody, Answered, BodyFollows
    <3>4. f.op = o /\ SettledAfter(o, f.ec)
      <4>1. f.op = o /\ Settled(o, f.ec)
        BY <3>1, <3>2, <3>3 DEF OneFrame, Answered
      <4> QED BY <2>4, <4>1, SettledStays DEF ReadBody
    <3>5. FinishIo(o, f.ec, f)
      BY <2>4, <3>3 DEF ReadBody
    <3>6. /\ \A q \in Op : q # o => result'[q] = result[q]
          /\ result'[o] = result[o] \/ (result'[o].ec = f.ec /\ result'[o].frame = f)
      BY <3>3, <3>5, FinishFacts DEF Errc, RouteErrc
    <3>7. Results
      BY <1>3, <3>3, <3>4, <3>6
    <3> QED BY <1>5, <2>4, <3>1, <3>7 DEF ReadBody
  <2>5. CASE UnpackThrows(o)
    BY <1>5, <1>6, <2>5 DEF UnpackThrows
  <2>6. CASE WatchdogFires(o)
    <3>1. \A q \in Op : result'[q] = result[q] \/ result'[q].ec \notin RouteErrc
      BY <2>6 DEF WatchdogFires, TypeOK, RouteErrc
    <3> QED BY <1>3, <1>4, <2>6, <3>1 DEF WatchdogFires
  <2>7. CASE WriteDone(o) \/ WatchdogLate(o) \/ CallReturn(o) \/ SubscribeReturn(o)
    BY <1>4, <1>6, <2>7 DEF WriteDone, WatchdogLate, CallReturn, SubscribeReturn
  <2> QED BY <1>9, <2>2, <2>3, <2>4, <2>5, <2>6, <2>7 DEF Operation
<1>10. CASE Network
  <2>1. UNCHANGED result
    BY <1>10 DEF Network, ServerReads, OldServerReads, ServerPublishes,
        ForeignPeerSends, PeerGoes
  <2>2. CASE ServerReads
    <3>1. uplink # <<>> /\ Head(uplink).kind = "call"
      BY <2>2, HeadKind DEF ServerReads, NoTopics
    <3>2. PICK ec \in RouteErrc :
            /\ Route(Head(uplink).op, ec)
            /\ downlink' = Append(downlink, [type |-> "resp", op |-> Head(uplink).op, ec |-> ec])
      BY <2>2, <3>1 DEF ServerReads
    <3>3. [type |-> "resp", op |-> Head(uplink).op, ec |-> ec] \in Frame
      BY <3>1, HeadUplink DEF Frame, Response
    <3>4. SettledAfter(Head(uplink).op, ec)
      <4>1. uplink' = Tail(uplink) /\ orphans' = orphans
        BY <2>2 DEF ServerReads, TakeFrame
      <4>2. Head(uplink).op \notin orphans
        BY <3>1, HeadKind DEF SentOnce
      <4>3. \A i \in DOMAIN uplink' : uplink'[i].op # Head(uplink).op
        BY <3>1, <4>1, HeadKind, TailFacts, UplinkFacts DEF SentOnce
      <4>4. /\ ec = "ok" => executed'[Head(uplink).op] = 1
            /\ ec = "no_such_function" => executed'[Head(uplink).op] = 0
        BY <3>1, <3>2, HeadUplink DEF Route, Run, TypeOK
      <4> QED BY <4>1, <4>2, <4>3, <4>4 DEF SettledAfter
    <3>5. Fine([type |-> "resp", op |-> Head(uplink).op, ec |-> ec])
      BY <3>4 DEF Fine
    <3>6. Frames
      BY <1>2, <3>2, <3>3, <3>5, AppendFacts, DownlinkFacts
    <3> QED BY <1>6, <2>1, <3>6
  <2>3. CASE ForeignPeerSends
    <3>1. \A i \in DOMAIN downlink' : downlink'[i] = [type |-> "garbage"]
      BY <2>3 DEF ForeignPeerSends
    <3>2. Frames
      BY <3>1 DEF Fine
    <3> QED BY <1>6, <2>1, <3>2
  <2>4. ASSUME NEW t \in Topic, ServerPublishes(t) PROVE FALSE
    BY <2>4 DEF ServerPublishes, NoTopics
  <2>5. CASE PeerGoes \/ \E o \in Op : OldServerReads(o)
    BY <1>4, <1>6, <2>1, <2>5 DEF PeerGoes, OldServerReads
  <2> QED BY <1>10, <2>2, <2>3, <2>4, <2>5 DEF Network
<1>11. CASE UNCHANGED vars
  BY <1>4, <1>6, <1>11 DEF vars
<1> QED BY <1>7, <1>8, <1>9, <1>10, <1>11 DEF Next

-----------------------------------------------------------------------------
(* A client that subscribes *)

\* complete() of topics that are present makes none present or absent.
LEMMA CompletePresent ==
    ASSUME TypeOK, NEW S \in SUBSET Present, Complete(S) PROVE Present' = Present
<1>1. \A t \in Topic : sub_ops'[t] = IF t \in S THEN "fired" ELSE sub_ops[t]
  BY DEF Complete, TypeOK
<1> QED BY <1>1 DEF Present

\* The steps of an operation complete topics that are present, if any.
LEMMA OperationCompletes ==
    ASSUME NEW o \in Op, Operation(o)
    PROVE  /\ \/ UNCHANGED <<sub_ops, double>>
              \/ /\ \E S \in SUBSET Present : Complete(S)
                 /\ io[o] \in {"header", "body"} /\ io' = [io EXCEPT ![o] = "done"]
                 /\ UNCHANGED <<ops, kind, returned>>
           /\ UNCHANGED <<topic_id, kind, ops>>
  BY DEF Operation, WriteDone, WriteError, ReadError, ReadHeader, ReadBody, UnpackThrows,
         WatchdogFires, WatchdogLate, CallReturn, SubscribeReturn, comple_all, FinishIo,
         connVars, sockVars, opVars, serverVars, netVars, subVars

\* subscribe() makes its topic the only one that is present.
LEMMA StartSubscribeFacts ==
    ASSUME TypeOK, role = "subscriber", NEW t \in Topic, StartSubscribe(t)
    PROVE  /\ Present' = {t} /\ Present \subseteq {t}
           /\ sub_ops'[t] = "armed"
           /\ ops' = ops + 1 /\ ops + 1 \in Op
           /\ kind' = [kind EXCEPT ![ops + 1] = t]
           /\ returned = 1 .. ops
           /\ UNCHANGED <<connect_pc, impl, peer, uplink, downlink, topic_id, result,
                          returned, double>>
<1>1. /\ Present \subseteq {t} /\ sub_ops' = [sub_ops EXCEPT ![t] = "armed"]
      /\ ops' = ops + 1 /\ ops < MaxOps /\ returned = 1 .. ops
      /\ kind' = [kind EXCEPT ![ops + 1] = t]
      /\ UNCHANGED <<connect_pc, impl, peer, uplink, downlink, topic_id, result,
                     returned, double>>
  BY DEF StartSubscribe, Arm, Issue, AppIdle, connVars, sockVars, netVars, serverVars
<1>2. ops + 1 \in Op
  BY <1>1 DEF TypeOK, Op
<1>3. \A s \in Topic : sub_ops'[s] = IF s = t THEN "armed" ELSE sub_ops[s]
  BY <1>1 DEF TypeOK
<1>4. Present' = {t}
  BY <1>1, <1>3 DEF Present
<1> QED BY <1>1, <1>2, <1>3, <1>4

LEMMA OneTopicStep ==
    ASSUME TypeOK, OneAtATime, SentOnce, BodyFollows, role = "subscriber",
           OneTopic, [Next]_vars
    PROVE  OneTopic'
<1> USE DEF connVars, sockVars, opVars, serverVars, netVars, subVars
<1> DEFINE Up == \A i \in DOMAIN uplink' : uplink'[i].kind \in Present'
           Fine(f) == f.type = "garbage" \/ (f.type = "pub" /\ f.topic \in Present')
           Down == \A i \in DOMAIN downlink' : Fine(downlink'[i])
           Got(o) == result'[o].ec = "ok" => /\ result'[o].frame.type = "pub"
                                             /\ result'[o].frame.topic \in Present'
           Topics == /\ \A s, t \in Present' : s = t
                     /\ topic_id' \in Present' \cup {NoTopic}
                     /\ \A o \in Op : kind'[o] \in Present' \cup {"none"}
<1>1. SUFFICES Topics /\ Up /\ Down /\ \A o \in Op : Got(o)
  BY DEF OneTopic
<1>2. ASSUME NEW t \in Topic, StartSubscribe(t)
      PROVE  Topics /\ Up /\ Down /\ \A o \in Op : Got(o)
  <2>1. Present \subseteq Present'
    BY <1>2, StartSubscribeFacts
  <2>2. Topics
    <3>1. \A o \in Op : kind'[o] \in Present' \cup {"none"}
      BY <1>2, <2>1, StartSubscribeFacts DEF OneTopic, TypeOK
    <3> QED BY <1>2, <2>1, <3>1, StartSubscribeFacts DEF OneTopic
  <2> QED BY <1>2, <2>1, <2>2, StartSubscribeFacts DEF OneTopic
<1>3. ~StartCall
  BY DEF StartCall
<1>4. ASSUME Present' = Present, UNCHANGED kind, topic_id' \in Present \cup {NoTopic}
      PROVE  Topics
  BY <1>4 DEF OneTopic
<1>5. ASSUME Present' = Present
      PROVE  /\ uplink' = uplink => Up
             /\ uplink' = <<>> => Up
             /\ uplink # <<>> /\ uplink' = Tail(uplink) => Up
             /\ downlink' = downlink => Down
             /\ downlink' = <<>> => Down
             /\ downlink # <<>> /\ downlink' = Tail(downlink) => Down
             /\ \A o \in Op : result'[o] = result[o] => Got(o)
  <2>1. (uplink' = uplink => Up) /\ (downlink' = downlink => Down)
    BY <1>5 DEF OneTopic
  <2>2. (uplink' = <<>> => Up) /\ (downlink' = <<>> => Down)
    BY EmptyFacts
  <2>3. ASSUME uplink # <<>>, uplink' = Tail(uplink) PROVE Up
    BY <1>5, <2>3, TailFacts, UplinkFacts DEF OneTopic
  <2>4. ASSUME downlink # <<>>, downlink' = Tail(downlink) PROVE Down
    BY <1>5, <2>4, TailFacts, DownlinkFacts DEF OneTopic
  <2>5. \A o \in Op : result'[o] = result[o] => Got(o)
    BY <1>5 DEF OneTopic
  <2> QED BY <2>1, <2>2, <2>3, <2>4, <2>5
<1>6. CASE Connecting
  <2>1. /\ UNCHANGED <<sub_ops, kind, result>>
        /\ uplink' = uplink \/ uplink' = <<>>
        /\ downlink' = downlink \/ downlink' = <<>>
        /\ topic_id' = topic_id \/ topic_id' = NoTopic
    BY <1>6 DEF Connecting, ConnectBegin, ResolveDone, ConnectFail, ConnectTimeout,
                ConnectDone, ConnectDoneLate, Close, reset
  <2>2. Present' = Present
    BY <2>1 DEF Present
  <2>3. Topics
    BY <1>4, <2>1, <2>2 DEF OneTopic
  <2> HIDE DEF Up, Down, Got, Topics
  <2> QED BY <1>5, <2>1, <2>2, <2>3
<1>7. ASSUME NEW o \in Op, Operation(o)
      PROVE  Topics /\ Up /\ Down /\ \A q \in Op : Got(q)
  <2>1. Present' = Present
    BY <1>7, OperationCompletes, CompletePresent DEF Present
  <2>2. Topics
    BY <1>4, <1>7, <2>1, OperationCompletes DEF OneTopic
  <2>3. Up
    <3>1. CASE WriteDone(o)
      <4>1. kind[o] \in Present
        BY <3>1 DEF WriteDone, OneAtATime, OneTopic, TypeOK, Op
      <4>2. [op |-> o, kind |-> kind[o]] \in UpFrame
        BY <4>1 DEF UpFrame, Present
      <4> QED BY <2>1, <3>1, <4>1, <4>2, AppendFacts, UplinkFacts DEF WriteDone, OneTopic
    <3>2. CASE ~WriteDone(o)
      BY <1>5, <1>7, <2>1, <3>2 DEF Operation, WriteError, ReadError, ReadHeader, ReadBody,
          UnpackThrows, WatchdogFires, WatchdogLate, CallReturn, SubscribeReturn
    <3> QED BY <3>1, <3>2
  <2>4. Down
    <3>1. UNCHANGED downlink \/ (downlink # <<>> /\ downlink' = Tail(downlink))
      BY <1>7 DEF Operation, WriteDone, WriteError, ReadError, ReadHeader, ReadBody,
          UnpackThrows, WatchdogFires, WatchdogLate, CallReturn, SubscribeReturn
    <3> QED BY <1>5, <2>1, <3>1
  <2>5. \A q \in Op : Got(q)
    <3>1. ASSUME NEW ec \in Errc \ {"none"}, NEW f \in Frame \cup {NoFrame},
                 FinishIo(o, ec, f), ec = "ok" => f.type = "pub" /\ f.topic \in Present
          PROVE  \A q \in Op : Got(q)
      <4>1. \A q \in Op : q # o => Got(q)
        BY <1>5, <2>1, <3>1, FinishFacts
      <4>2. Got(o)
        BY <1>5, <2>1, <3>1, FinishFacts
      <4> QED BY <4>1, <4>2
    <3> HIDE DEF Got
    <3>2. CASE WriteError(o) \/ ReadError(o)
      BY <3>1, <3>2 DEF WriteError, ReadError, Errc
    <3>3. CASE ReadHeader(o)
      <4>1. CASE Head(downlink).type = "garbage"
        BY <3>1, <3>3, <4>1 DEF ReadHeader, Errc
      <4>2. CASE Head(downlink).type # "garbage"
        BY <1>5, <2>1, <3>3, <4>2 DEF ReadHeader
      <4> QED BY <4>1, <4>2
    <3>4. CASE ReadBody(o)
      <4>1. /\ downlink # <<>> /\ Head(downlink) = downlink[1] /\ 1 \in DOMAIN downlink
            /\ Head(downlink) \in Frame
        BY <3>4, TailFacts DEF ReadBody, TypeOK
      <4>2. Head(downlink).type = "pub" /\ Head(downlink).topic \in Present
        BY <3>4, <4>1 DEF ReadBody, BodyFollows, OneTopic
      <4> QED BY <3>1, <3>4, <4>1, <4>2 DEF ReadBody, Errc, RouteErrc
    <3>5. CASE WatchdogFires(o)
      <4>1. \A q \in Op : result'[q] = result[q] \/ result'[q].ec # "ok"
        BY <3>5 DEF WatchdogFires, TypeOK
      <4> QED BY <1>5, <2>1, <4>1 DEF Got
    <3>6. CASE WriteDone(o) \/ UnpackThrows(o) \/ WatchdogLate(o) \/ CallReturn(o)
               \/ SubscribeReturn(o)
      BY <1>5, <2>1, <3>6 DEF WriteDone, UnpackThrows, WatchdogLate, CallReturn,
                              SubscribeReturn
    <3> QED BY <1>7, <3>2, <3>3, <3>4, <3>5, <3>6 DEF Operation
  <2> QED BY <2>2, <2>3, <2>4, <2>5
<1>8. CASE Network
  <2>1. UNCHANGED <<sub_ops, kind, result>>
    BY <1>8 DEF Network, ServerReads, OldServerReads, ServerPublishes, ForeignPeerSends,
                PeerGoes
  <2>2. Present' = Present /\ \A o \in Op : Got(o)
    BY <1>5, <2>1 DEF Present
  <2>3. CASE ServerReads
    <3>1. uplink # <<>> /\ uplink' = Tail(uplink) /\ Head(uplink).kind \in Present
      BY <2>3, HeadKind DEF ServerReads, TakeFrame, OneTopic
    <3>2. Head(uplink).kind # "call"
      BY <3>1 DEF Present
    <3>3. downlink' = downlink /\ topic_id' \in Present \cup {NoTopic}
      BY <2>3, <3>1, <3>2 DEF ServerReads, RecordTopic
    <3>4. Topics
      BY <1>4, <2>1, <2>2, <3>3
    <3> QED BY <1>5, <2>2, <3>1, <3>3, <3>4
  <2>4. ASSUME NEW t \in Topic, ServerPublishes(t)
        PROVE  Topics /\ Up /\ Down /\ \A o \in Op : Got(o)
    <3>1. [type |-> "pub", topic |-> t, n |-> pubs + 1] \in Frame /\ t \in Present
      BY <2>4 DEF ServerPublishes, Frame, Publication, OneTopic, TypeOK
    <3>2. Fine([type |-> "pub", topic |-> t, n |-> pubs + 1])
      BY <2>2, <3>1
    <3>3. \A i \in DOMAIN downlink : Fine(downlink[i])
      BY <2>2 DEF OneTopic
    <3>4. downlink' = Append(downlink, [type |-> "pub", topic |-> t, n |-> pubs + 1])
      BY <2>4 DEF ServerPublishes
    <3>5. Down
      <4> HIDE DEF Fine
      <4> QED BY <3>1, <3>2, <3>3, <3>4, AppendFacts, DownlinkFacts
    <3>6. Topics
      BY <1>4, <2>1, <2>2, <2>4 DEF OneTopic, ServerPublishes
    <3> QED BY <1>5, <2>2, <2>4, <3>5, <3>6 DEF ServerPublishes
  <2>5. CASE ForeignPeerSends
    <3>1. Down
      BY <2>5 DEF ForeignPeerSends
    <3>2. Topics
      BY <1>4, <2>1, <2>2, <2>5 DEF OneTopic, ForeignPeerSends
    <3> QED BY <1>5, <2>2, <2>5, <3>1, <3>2 DEF ForeignPeerSends
  <2>6. CASE PeerGoes \/ \E o \in Op : OldServerReads(o)
    <3>1. Topics
      BY <1>4, <2>1, <2>2, <2>6 DEF OneTopic, PeerGoes, OldServerReads
    <3> QED BY <1>5, <2>2, <2>6, <3>1 DEF PeerGoes, OldServerReads
  <2> QED BY <1>8, <2>3, <2>4, <2>5, <2>6 DEF Network
<1>9. CASE UNCHANGED vars
  <2>1. Present' = Present
    BY <1>9 DEF vars, Present
  <2>2. Topics
    BY <1>4, <1>9, <2>1 DEF vars, OneTopic
  <2> QED BY <1>5, <1>9, <2>1, <2>2 DEF vars
<1> QED BY <1>2, <1>3, <1>6, <1>7, <1>8, <1>9 DEF Next

LEMMA SubWaitsStep ==
    ASSUME TypeOK, OneAtATime, role = "subscriber", OneTopic, SubWaits, [Next]_vars
    PROVE  SubWaits'
<1> USE DEF connVars, sockVars, opVars, serverVars, netVars, subVars
<1>1. ASSUME UNCHANGED <<sub_ops, double, ops, kind>>, returned \subseteq returned',
             \A o \in Op : io[o] = "done" => io'[o] = "done"
      PROVE  SubWaits'
  BY <1>1 DEF SubWaits, InFlight
<1>2. ASSUME NEW t \in Topic, StartSubscribe(t) PROVE SubWaits'
  <2>1. \A o \in Op : InFlight(o)' => o = ops + 1
    BY <1>2, StartSubscribeFacts DEF InFlight, TypeOK
  <2>2. kind'[ops + 1] = t /\ sub_ops'[t] = "armed" /\ double' = double
    BY <1>2, StartSubscribeFacts DEF TypeOK
  <2> QED BY <2>1, <2>2 DEF SubWaits
<1>3. ~StartCall
  BY DEF StartCall
<1>4. ASSUME NEW o \in Op, Operation(o) PROVE SubWaits'
  <2>1. CASE UNCHANGED <<sub_ops, double>>
    <3>1. /\ returned \subseteq returned' /\ UNCHANGED <<ops, kind>>
          /\ \A q \in Op : io[q] = "done" => io'[q] = "done"
      BY <1>4 DEF Operation, WriteDone, WriteError, ReadError, ReadHeader, ReadBody,
          UnpackThrows, WatchdogFires, WatchdogLate, CallReturn, SubscribeReturn,
          FinishIo, TypeOK
    <3> QED BY <1>1, <2>1, <3>1
  <2>2. CASE ~UNCHANGED <<sub_ops, double>>
    <3>1. PICK S \in SUBSET Present : Complete(S)
      BY <1>4, <2>2, OperationCompletes
    <3>2. /\ io[o] \in {"header", "body"} /\ io' = [io EXCEPT ![o] = "done"]
          /\ UNCHANGED <<ops, kind, returned>>
      BY <1>4, <2>2, OperationCompletes
    <3>3. o = ops /\ InFlight(o) /\ returned = 1 .. (ops - 1)
      BY <3>2, ActiveFacts
    <3>4. kind[o] \in Present /\ sub_ops[kind[o]] = "armed"
      <4>1. kind[o] # "none"
        BY <3>3 DEF OneAtATime, InFlight, Op
      <4>2. sub_ops[kind[o]] = "armed"
        BY <3>2, <3>3 DEF SubWaits
      <4> QED BY <4>1, <4>2 DEF OneTopic
    <3>5. \A t \in S : sub_ops[t] # "fired"
      BY <3>4 DEF OneTopic
    <3>6. ~double'
      BY <3>1, <3>5 DEF Complete, SubWaits
    <3>7. \A q \in Op : InFlight(q)' => io'[q] = "done"
      BY <3>2, <3>3 DEF InFlight, TypeOK, Op
    <3> QED BY <3>6, <3>7 DEF SubWaits
  <2> QED BY <2>1, <2>2
<1>5. CASE Connecting \/ Network \/ UNCHANGED vars
  <2>1. UNCHANGED <<sub_ops, double, ops, kind, returned, io>>
    BY <1>5 DEF Connecting, ConnectBegin, ResolveDone, ConnectFail, ConnectTimeout,
        ConnectDone, ConnectDoneLate, Close, Network, ServerReads, OldServerReads,
        ServerPublishes, ForeignPeerSends, PeerGoes, vars
  <2> QED BY <1>1, <2>1
<1> QED BY <1>2, <1>3, <1>4, <1>5 DEF Next

LEMMA ServerKnowsStep ==
    ASSUME TypeOK, OneAtATime, SentOnce, FreshStart, role = "subscriber", ~Resubscribe,
           OneTopic, ServerKnows, [Next]_vars
    PROVE  ServerKnows'
<1> USE DEF connVars, sockVars, opVars, serverVars, netVars, subVars
<1> DEFINE Sent(t) == \E i \in DOMAIN uplink : uplink[i].kind = t
           Writing == InFlight(ops) /\ io[ops] = "write"
           Known == impl = "open" /\ peer = "rpc" =>
                      \A t \in Present : topic_id = t \/ Sent(t) \/ Writing
<1>1. SUFFICES (ops' > 0 => connect_pc' = "idle") /\ (Present' # {} => ops' > 0) /\ Known'
  BY DEF ServerKnows
<1>2. ASSUME NEW t \in Topic, StartSubscribe(t)
      PROVE  (ops' > 0 => connect_pc' = "idle") /\ (Present' # {} => ops' > 0) /\ Known'
  <2>1. connect_pc' = "idle" /\ ops' > 0
    BY <1>2, StartSubscribeFacts DEF StartSubscribe, Issue, AppIdle, TypeOK
  <2>2. CASE sub_ops[t] = "absent"
    <3>1. io'[ops + 1] = "write"
      BY <1>2, <2>2, StartSubscribeFacts DEF StartSubscribe, FirstStep, TypeOK
    <3>2. InFlight(ops)'
      BY <1>2, StartSubscribeFacts DEF InFlight, TypeOK
    <3>3. Writing'
      BY <1>2, <3>1, <3>2, StartSubscribeFacts
    <3> QED BY <2>1, <3>3
  <2>3. CASE sub_ops[t] # "absent"
    <3>1. t \in Present /\ ~Writing
      BY <1>2, <2>3, StartSubscribeFacts DEF Present, InFlight
    <3>2. impl = "open" /\ peer = "rpc" => topic_id = t \/ Sent(t)
      BY <3>1 DEF ServerKnows
    <3> QED BY <1>2, <2>1, <3>2, StartSubscribeFacts
  <2> QED BY <2>2, <2>3
<1>3. ~StartCall
  BY DEF StartCall
<1>4. CASE Connecting
  <2>1. UNCHANGED <<sub_ops, ops, returned, io>>
    BY <1>4 DEF Connecting, ConnectBegin, ResolveDone, ConnectFail, ConnectTimeout,
        ConnectDone, ConnectDoneLate, Close
  <2>2. CASE ops = 0
    BY <2>1, <2>2 DEF ServerKnows, Present
  <2>3. CASE ops # 0
    <3>1. connect_pc = "idle" /\ Close
      BY <1>4, <2>3 DEF ServerKnows, Connecting, ConnectBegin, ResolveDone, ConnectFail,
          ConnectTimeout, ConnectDone, ConnectDoneLate, MayConnect, TypeOK
    <3>2. impl' = "closed" /\ connect_pc' = "idle"
      BY <3>1 DEF Close, CloseSocket
    <3> QED BY <2>1, <2>3, <3>2 DEF TypeOK
  <2> QED BY <2>2, <2>3
<1>5. ASSUME NEW o \in Op, Operation(o)
      PROVE  (ops' > 0 => connect_pc' = "idle") /\ (Present' # {} => ops' > 0) /\ Known'
  <2>1. Present' = Present
    BY <1>5, OperationCompletes, CompletePresent DEF Present
  <2>2. UNCHANGED <<connect_pc, ops, peer, topic_id>>
    BY <1>5 DEF Operation, WriteDone, WriteError, ReadError, ReadHeader, ReadBody,
        UnpackThrows, WatchdogFires, WatchdogLate, CallReturn, SubscribeReturn
  <2>3. Known'
    <3>1. CASE WriteDone(o)
      <4>1. kind[o] \in Present
        BY <3>1 DEF WriteDone, OneAtATime, OneTopic, TypeOK, Op
      <4>2. [op |-> o, kind |-> kind[o]] \in UpFrame
        BY <4>1 DEF UpFrame, Present
      <4>3. Len(uplink) + 1 \in DOMAIN uplink' /\ uplink'[Len(uplink) + 1].kind = kind[o]
        BY <3>1, <4>2, AppendFacts, UplinkFacts DEF WriteDone
      <4> QED BY <2>1, <4>1, <4>3 DEF OneTopic
    <3>2. CASE WriteError(o) \/ ReadError(o) \/ WatchdogFires(o) \/ WatchdogLate(o)
      BY <3>2 DEF WriteError, ReadError, WatchdogFires, WatchdogLate, CloseSocket
    <3>3. CASE ReadHeader(o) \/ ReadBody(o) \/ UnpackThrows(o) \/ CallReturn(o)
               \/ SubscribeReturn(o)
      <4>1. o = ops /\ io[o] # "write" /\ UNCHANGED <<impl, uplink>>
        BY <3>3, ActiveFacts DEF ReadHeader, ReadBody, UnpackThrows, CallReturn,
            SubscribeReturn
      <4> QED BY <2>1, <2>2, <4>1 DEF ServerKnows
    <3> QED BY <1>5, <3>1, <3>2, <3>3 DEF Operation
  <2> QED BY <2>1, <2>2, <2>3 DEF ServerKnows
<1>6. CASE Network \/ UNCHANGED vars
  <2>1. UNCHANGED <<sub_ops, ops, returned, io, impl, connect_pc>>
    BY <1>6 DEF Network, ServerReads, OldServerReads, ServerPublishes, ForeignPeerSends,
                PeerGoes, vars
  <2>2. Present' = Present /\ (Writing => Writing')
    BY <2>1 DEF Present, InFlight
  <2>3. Known'
    <3>1. CASE ServerReads
      <4>1. uplink # <<>> /\ Head(uplink).kind \in Present
        BY <3>1, HeadKind DEF ServerReads, OneTopic
      <4>2. topic_id' = Head(uplink).kind
        BY <3>1, <4>1 DEF ServerReads, RecordTopic, Present
      <4> QED BY <2>2, <4>1, <4>2 DEF OneTopic
    <3>2. CASE ForeignPeerSends \/ PeerGoes
      BY <3>2 DEF ForeignPeerSends, PeerGoes
    <3>3. CASE (\E t \in Topic : ServerPublishes(t)) \/ (\E o \in Op : OldServerReads(o))
               \/ UNCHANGED vars
      <4>1. UNCHANGED <<uplink, peer, topic_id>>
        BY <3>3 DEF ServerPublishes, OldServerReads, vars
      <4> QED BY <2>1, <2>2, <4>1 DEF ServerKnows
    <3> QED BY <1>6, <3>1, <3>2, <3>3 DEF Network
  <2> QED BY <2>1, <2>2, <2>3 DEF ServerKnows
<1> QED BY <1>2, <1>3, <1>4, <1>5, <1>6 DEF Next

-----------------------------------------------------------------------------
(* The invariant, and what it says *)

\* Initially nothing has been issued.
LEMMA InitClient == Init => ClientInv
<1> SUFFICES ASSUME Init PROVE ClientInv
  OBVIOUS
<1> USE DEF Init
<1>1. OneAtATime
  BY DEF OneAtATime, Cancelled, InFlight, Op
<1>2. SentOnce /\ BodyFollows /\ FreshStart
  BY EmptyFacts DEF SentOnce, BodyFollows, FreshStart
<1>3. Present = {}
  BY DEF Present
<1>4. NoTopics /\ OneFrame /\ Answered
  BY <1>3, EmptyFacts DEF NoTopics, OneFrame, Answered, RouteErrc
<1>5. OneTopic /\ SubWaits /\ ServerKnows
  BY <1>3, EmptyFacts DEF OneTopic, SubWaits, ServerKnows, InFlight
<1> QED BY <1>1, <1>2, <1>4, <1>5 DEF ClientInv

\* The use of a client does not change.
LEMMA RoleStays == [Next]_vars => role' = role
  BY DEF Next, vars, Connecting, ConnectBegin, ResolveDone, ConnectFail, ConnectTimeout,
         ConnectDone, ConnectDoneLate, Close, StartCall, StartSubscribe, Operation,
         WriteDone, WriteError, ReadError, ReadHeader, ReadBody, UnpackThrows,
         WatchdogFires, WatchdogLate, CallReturn, SubscribeReturn, Network, ServerReads,
         OldServerReads, ServerPublishes, ForeignPeerSends, PeerGoes

LEMMA NextClient == TypeOK /\ ClientInv /\ [Next]_vars => ClientInv'
<1> SUFFICES ASSUME TypeOK, ClientInv, [Next]_vars PROVE ClientInv'
  OBVIOUS
<1>1. OneAtATime /\ SentOnce /\ FreshStart /\ BodyFollows
  BY DEF ClientInv
<1>2. (OneAtATime /\ SentOnce /\ FreshStart /\ BodyFollows)'
  BY <1>1, OneAtATimeStep, SentOnceStep, FreshStartStep, BodyFollowsStep
<1>3. ASSUME role = "caller" PROVE (NoTopics /\ OneFrame /\ Answered)'
  BY <1>1, <1>3, NoTopicsStep, OneFrameStep, AnsweredStep DEF ClientInv
<1>4. ASSUME role = "subscriber" PROVE (OneTopic /\ SubWaits)'
  BY <1>1, <1>4, OneTopicStep, SubWaitsStep DEF ClientInv
<1>5. ASSUME role = "subscriber", ~Resubscribe PROVE ServerKnows'
  BY <1>1, <1>5, ServerKnowsStep DEF ClientInv
<1> QED BY <1>2, <1>3, <1>4, <1>5, RoleStays DEF ClientInv

LEMMA InvHolds == Spec => [](TypeOK /\ ClientInv)
<1>1. TypeOK /\ ClientInv /\ [Next]_vars => TypeOK'
  BY NextType DEF ClientInv
<1> QED BY <1>1, InitType, InitClient, NextClient, PTL DEF Spec

(***************************************************************************)
(* Every variable keeps its type; no function runs twice for one call,     *)
(* whatever the client is used for.                                        *)
(***************************************************************************)
THEOREM TypeCorrect == Spec => []TypeOK
  BY InvHolds, PTL

(***************************************************************************)
(* Operations and the frames on the links stay in step: one frame per      *)
(* operation, and none outlives the connection it was sent on. Once a call *)
(* is answered no server gets to its request any more, and the answer of   *)
(* route() tells whether the function was entered: ok that it was,         *)
(* no_such_function that it was not.                                       *)
(***************************************************************************)
THEOREM ClientInvHolds == Spec => []ClientInv
  BY InvHolds, PTL

\* The client is used for one thing.
OneUse == "mixed" \notin Roles

(***************************************************************************)
(* A client that only calls, or only subscribes to one topic, gets what it *)
(* asked for: no call takes the answer to another one, although the frames *)
(* carry no sequence number.                                               *)
(***************************************************************************)
THEOREM OwnResultHolds == ASSUME OneUse PROVE Spec => []OwnResult
<1>1. TypeOK /\ ClientInv => OwnResult
  <2> SUFFICES ASSUME TypeOK, ClientInv, NEW o \in returned, result[o].ec = "ok"
               PROVE  IF kind[o] = "call"
                      THEN result[o].frame.type = "resp" /\ result[o].frame.op = o
                      ELSE result[o].frame.type = "pub" /\ result[o].frame.topic = kind[o]
    BY DEF OwnResult
  <2>1. o \in Op /\ o <= ops /\ kind[o] # "none"
    BY DEF ClientInv, OneAtATime, TypeOK, Op
  <2>2. CASE role = "caller"
    BY <2>1, <2>2 DEF ClientInv, NoTopics, Answered, RouteErrc
  <2>3. CASE role = "subscriber"
    <3>1. kind[o] \in Present /\ kind[o] # "call"
      BY <2>1, <2>3 DEF ClientInv, OneTopic, Present
    <3> QED BY <2>1, <2>3, <3>1 DEF ClientInv, OneTopic
  <2> QED BY <2>2, <2>3 DEF OneUse, TypeOK
<1> QED BY <1>1, InvHolds, PTL

(***************************************************************************)
(* Such a client never completes a sub_operation twice.                    *)
(***************************************************************************)
THEOREM NoDoubleCompleteHolds == ASSUME OneUse PROVE Spec => []NoDoubleComplete
<1>1. TypeOK /\ ClientInv => NoDoubleComplete
  BY DEF OneUse, TypeOK, ClientInv, NoTopics, SubWaits, NoDoubleComplete
<1> QED BY <1>1, InvHolds, PTL

(***************************************************************************)
(* A subscriber that does not connect again after its first subscribe is   *)
(* known to the server for as long as its connection lasts.                *)
(***************************************************************************)
THEOREM SubscriptionKnownHolds ==
    ASSUME OneUse, ~Resubscribe PROVE Spec => []SubscriptionKnown
<1>1. TypeOK /\ ClientInv => SubscriptionKnown
  <2> SUFFICES ASSUME TypeOK, ClientInv, NEW o \in Op,
                      InFlight(o), kind[o] \in Topic, io[o] \in {"header", "body"},
                      impl = "open", peer = "rpc"
               PROVE  \/ topic_id = kind[o]
                      \/ \E i \in DOMAIN uplink : uplink[i].kind = kind[o]
    BY DEF SubscriptionKnown
  <2>1. role = "subscriber"
    BY DEF OneUse, TypeOK, ClientInv, NoTopics
  <2>2. o = ops
    BY ActiveFacts DEF ClientInv
  <2>3. kind[o] \in Present
    BY <2>1 DEF ClientInv, OneTopic
  <2> QED BY <2>1, <2>2, <2>3 DEF ClientInv, ServerKnows
<1> QED BY <1>1, InvHolds, PTL

-----------------------------------------------------------------------------
(* The client implements RemoteCall *)

\* What the application sees of a call.
Seen(o) == IF kind[o] # "call" THEN "idle"
           ELSE IF o \in returned THEN result[o].ec ELSE "invoked"

\* A request that a server may still get to may run: its call has no answer.
LEMMA MayRun ==
    ASSUME OneUse, TypeOK, ClientInv, NEW o \in Op, kind[o] = "call",
           o \in orphans \/ \E i \in DOMAIN uplink : uplink[i].op = o
    PROVE  Seen(o) \in {"invoked"} \cup Remote!Unknown
<1>1. role = "caller"
  BY DEF OneUse, TypeOK, ClientInv, OneTopic, Present
<1>2. result[o].ec \notin RouteErrc
  BY <1>1 DEF ClientInv, Answered, Settled
<1>3. o \in returned => result[o].ec # "none"
  BY DEF ClientInv, OneAtATime
<1>4. result[o].ec \in Errc /\ result[o].ec # "write_error"
  BY DEF TypeOK, ClientInv, SentOnce
<1> QED BY <1>2, <1>3, <1>4 DEF Seen, Remote!Unknown, Errc

\* Every step of the client is a step of the remote call, or none of its
\* business.
LEMMA RemoteStep ==
    ASSUME OneUse, TypeOK, ClientInv, [Next]_vars
    PROVE  [Remote!Next]_<<[o \in Op |-> Seen(o)], executed>>
<1> DEFINE st == [o \in Op |-> Seen(o)]
<1> SUFFICES Remote!Next \/ (st' = st /\ executed' = executed)
  BY DEF Seen
<1> USE DEF connVars, sockVars, opVars, serverVars, netVars, subVars
<1>0. OneAtATime /\ SentOnce /\ FreshStart /\ BodyFollows
  BY DEF ClientInv
<1>1. CASE StartCall
  <2>1. ops + 1 \in Op /\ ops + 1 \notin returned
    BY <1>1 DEF StartCall, Issue, TypeOK, Op
  <2>2. PICK p \in Op : p = ops + 1
    BY <2>1
  <2>3. kind[p] = "none" /\ kind' = [kind EXCEPT ![p] = "call"]
    BY <1>0, <1>1, <2>1, <2>2 DEF StartCall, Issue, OneAtATime, TypeOK
  <2>4. Seen(p) = "idle" /\ Seen(p)' = "invoked"
    BY <1>1, <2>1, <2>2, <2>3 DEF StartCall, Seen, TypeOK
  <2>5. \A q \in Op : q # p => Seen(q)' = Seen(q)
    BY <1>1, <2>3 DEF StartCall, Seen, TypeOK
  <2>6. st[p] = "idle" /\ st' = [st EXCEPT ![p] = "invoked"] /\ executed' = executed
    BY <1>1, <2>4, <2>5 DEF StartCall
  <2>7. Remote!Invoke(p)
    BY <2>6 DEF Remote!Invoke, Seen
  <2> QED BY <2>7 DEF Remote!Next
<1>2. ASSUME \A q \in Op : Seen(q)' = Seen(q), UNCHANGED executed
      PROVE  Remote!Next \/ (st' = st /\ executed' = executed)
  BY <1>2
<1>3. ASSUME NEW p \in Op, Run(p), UNCHANGED <<kind, returned, result>>,
             kind[p] = "call", executed[p] = 0,
             p \in orphans \/ \E i \in DOMAIN uplink : uplink[i].op = p
      PROVE  Remote!Next
  <2>1. executed' = [executed EXCEPT ![p] = 1]
    BY <1>3 DEF Run, TypeOK
  <2>2. st[p] \in {"invoked"} \cup Remote!Unknown /\ st' = st
    BY <1>3, MayRun DEF Seen
  <2>3. Remote!Execute(p)
    BY <1>3, <2>1, <2>2 DEF Remote!Execute, Seen
  <2> QED BY <2>3 DEF Remote!Next
<1>4. CASE ServerReads
  <2>1. UNCHANGED <<kind, returned, result>> /\ uplink # <<>>
    BY <1>4 DEF ServerReads
  <2>2. CASE Head(uplink).kind = "call"
    <3>1. PICK p \in Op : p = Head(uplink).op
      BY <1>0, <2>1, HeadUplink
    <3>2. /\ kind[p] = "call" /\ executed[p] = 0
          /\ \E i \in DOMAIN uplink : uplink[i].op = p
      BY <1>0, <2>1, <2>2, <3>1, HeadKind, HeadUplink
    <3>3. Run(p) \/ UNCHANGED executed
      BY <1>4, <2>2, <3>1 DEF ServerReads, Route, Run
    <3> QED BY <1>2, <1>3, <2>1, <3>2, <3>3 DEF Seen
  <2>3. CASE Head(uplink).kind # "call"
    BY <1>2, <1>4, <2>1, <2>3 DEF ServerReads, Seen
  <2> QED BY <2>2, <2>3
<1>5. ASSUME NEW p \in Op, OldServerReads(p)
      PROVE  Remote!Next \/ (st' = st /\ executed' = executed)
  <2>1. kind[p] = "call" /\ executed[p] = 0 /\ p \in orphans
    BY <1>0, <1>5 DEF OldServerReads, SentOnce
  <2>2. UNCHANGED <<kind, returned, result>> /\ (Run(p) \/ UNCHANGED executed)
    BY <1>5 DEF OldServerReads, Route, Run
  <2> QED BY <1>2, <1>3, <2>1, <2>2 DEF Seen
<1>6. ASSUME NEW p \in Op, CallReturn(p) PROVE Remote!Next
  <2>1. PICK ec : ec = result[p].ec
    OBVIOUS
  <2>2. /\ p \notin returned /\ kind[p] = "call" /\ returned' = returned \cup {p}
        /\ UNCHANGED <<kind, result, executed>> /\ io[p] = "done"
    BY <1>6 DEF CallReturn, InFlight
  <2>3. ec \in Errc \ {"none"}
    BY <1>0, <2>1, <2>2 DEF OneAtATime, TypeOK
  <2>4. role = "caller"
    BY <2>2 DEF OneUse, TypeOK, ClientInv, OneTopic, Present
  <2>5. /\ ec = "ok" => executed[p] = 1
        /\ ec = "no_such_function" => executed[p] = 0
    BY <2>1, <2>4 DEF ClientInv, Answered, Settled, RouteErrc
  <2>6. ec = "write_error" => executed[p] = 0
    <3>1. executed[p] \in 0 .. 1
      BY DEF TypeOK
    <3>2. executed[p] = 1 => ec # "write_error"
      BY <1>0, <2>1 DEF SentOnce
    <3> QED BY <3>1, <3>2
  <2>7. st[p] = "invoked" /\ st' = [st EXCEPT ![p] = ec]
    BY <2>1, <2>2 DEF Seen, TypeOK
  <2>8. Remote!Return(p, ec)
    BY <2>2, <2>5, <2>6, <2>7 DEF Remote!Return, Remote!NotRun, Seen
  <2>9. ec \in {"ok"} \cup Remote!NotRun \cup Remote!Thrown \cup Remote!Unknown
    BY <2>3 DEF Remote!NotRun, Remote!Thrown, Remote!Unknown, Errc, RouteErrc
  <2> QED BY <2>8, <2>9 DEF Remote!Next
<1>7. ASSUME NEW p \in Op, Operation(p), ~CallReturn(p)
      PROVE  Remote!Next \/ (st' = st /\ executed' = executed)
  <2>1. CASE SubscribeReturn(p)
    <3>1. kind[p] # "call" /\ returned' = returned \cup {p}
      BY <2>1 DEF SubscribeReturn
    <3> QED BY <1>2, <2>1, <3>1 DEF SubscribeReturn, Seen
  <2>2. CASE ~SubscribeReturn(p)
    <3>1. UNCHANGED <<kind, returned, executed>>
      BY <1>7, <2>2 DEF Operation, WriteDone, WriteError, ReadError, ReadHeader, ReadBody,
          UnpackThrows, WatchdogFires, WatchdogLate
    <3>2. p \notin returned
      BY <1>0, <1>7, <2>2 DEF Operation, WriteDone, WriteError, ReadError, ReadHeader,
          ReadBody, UnpackThrows, WatchdogFires, WatchdogLate, OneAtATime, InFlight
    <3>3. \A q \in Op : q # p => result'[q] = result[q]
      BY <1>7, <2>2 DEF Operation, WriteDone, WriteError, ReadError, ReadHeader, ReadBody,
          UnpackThrows, WatchdogFires, WatchdogLate, FinishIo, TypeOK
    <3> QED BY <1>2, <3>1, <3>2, <3>3 DEF Seen
  <2> QED BY <2>1, <2>2
<1>8. ASSUME NEW t \in Topic, StartSubscribe(t)
      PROVE  Remote!Next \/ (st' = st /\ executed' = executed)
  <2>1. ops + 1 \in Op /\ kind' = [kind EXCEPT ![ops + 1] = t]
    BY <1>8 DEF StartSubscribe, Issue, TypeOK, Op
  <2>2. \A q \in Op : kind'[q] # "call" <=> kind[q] # "call"
    BY <1>0, <2>1 DEF OneAtATime, TypeOK
  <2> QED BY <1>2, <1>8, <2>2 DEF StartSubscribe, Seen
<1>9. CASE Connecting \/ PeerGoes \/ ForeignPeerSends \/ UNCHANGED vars
           \/ (\E t \in Topic : ServerPublishes(t))
  <2>1. UNCHANGED <<kind, returned, result, executed>>
    BY <1>9 DEF Connecting, ConnectBegin, ResolveDone, ConnectFail, ConnectTimeout,
        ConnectDone, ConnectDoneLate, Close, reset, PeerGoes, ForeignPeerSends,
        ServerPublishes, vars
  <2> QED BY <1>2, <2>1 DEF Seen
<1> QED BY <1>1, <1>4, <1>5, <1>6, <1>7, <1>8, <1>9 DEF Next, Network

(***************************************************************************)
(* Used for one thing, the client is a remote call: a function runs at     *)
(* most once per call; ok means that it ran, no_such_function and          *)
(* write_error that it never will, and an exception that it will not run   *)
(* any more, whether or not route() got as far as entering it.             *)
(***************************************************************************)
THEOREM ClientImplementsRemoteCall == ASSUME OneUse PROVE Spec => IsRemoteCall
<1>1. Init => Remote!Init
  BY DEF Init, Remote!Init
<1>2. TypeOK /\ ClientInv /\ [Next]_vars =>
        [Remote!Next]_<<[o \in Op |-> Seen(o)], executed>>
  BY RemoteStep
<1>3. Spec => Remote!Spec
  BY <1>1, <1>2, InvHolds, PTL DEF Spec, Remote!Spec, Seen
<1> QED BY <1>3 DEF IsRemoteCall
=============================================================================
