---------------------- MODULE RpcConnectionOrderProofs ----------------------
(***************************************************************************)
(* What the waiting of a client gives a connection, for every set of       *)
(* connections, threads, topics and publishers and every bound: answers in *)
(* order, arguments that last, and frames that are not mixed.              *)
(***************************************************************************)
EXTENDS RpcConnectionProofs

USE DEF Request, connVars, threadVars, netVars, regVars, pubVars

LEMMA InitWait == Init => WaitInv
  BY DEF Init, WaitInv, WritesOwned, TailsFollow, ArgumentsValid, ResponseOrder

\* Who writes a pending frame.
LEMMA WriterOf ==
  ASSUME TypeOK, NEW c \in Conn, NEW f \in writes[c]
  PROVE  f \in Frame /\ f.by \in {"loop", "ctx", "pub"}
  <1>1. f \in Frame
    BY DEF TypeOK
  <1> QED BY <1>1 DEF Frame

\* The parts of WaitInv and TakeoverInv in the form the steps use.
LEMMA OwnContext ==
  ASSUME TypeOK, TakeoverInv, NEW c \in Conn, NEW x \in contexts, x.conn = c
  PROVE  /\ x.owner \in Request /\ x.owner[1] = c /\ x.owner[2] \in 1 .. req[c]
         /\ HasContext(x.owner)
  <1>1. x \in Context /\ c # NoConn
    BY ConstantsAssumption DEF TypeOK
  <1>2. x.owner \in Request /\ x.owner[1] = c
    BY <1>1 DEF TakeoverInv, ContextsOwned, Context
  <1> QED BY <1>1, <1>2 DEF TakeoverInv, ContextsOwned, HasContext

\* The context behind a pending response.
LEMMA PendingContext ==
  ASSUME TypeOK, TakeoverInv, WaitInv, NEW c \in Conn, NEW f \in writes[c],
         f.by = "ctx"
  PROVE  \E x \in contexts : x.owner = f.owner /\ x.conn = c /\ x.has_response
  <1>1. PICK x \in contexts : x.owner = f.owner /\ x.has_response
    BY DEF WaitInv, WritesOwned
  <1>2. x.owner[1] = c /\ x.conn # NoConn /\ x.conn \in {x.owner[1], NoConn}
    BY <1>1 DEF WaitInv, WritesOwned, TakeoverInv, ContextsOwned
  <1> QED BY <1>1, <1>2

(***************************************************************************)
(* When a client has read its answer, or the next request is being read,   *)
(* no context of the connection owes a response or is writing one.         *)
(***************************************************************************)
LEMMA SettledQuiet ==
  ASSUME TypeOK, TakeoverInv, WaitInv, NEW c \in Conn,
         Settled(c) \/ pc[c] = "body"
  PROVE  /\ \A x \in contexts : x.conn = c => x.has_response
         /\ \A f \in writes[c] : f.by # "ctx"
  <1>1. CASE pc[c] = "body"
    BY <1>1 DEF WaitInv, ArgumentsValid
  <1>2. CASE req[c] = 0
    <2>1. \A x \in contexts : x.conn # c
      BY <1>2, OwnContext
    <2> QED BY <2>1, PendingContext
  <1>3. CASE Answered(Current(c))
    <2>1. PICK i \in DOMAIN wire[c] : IsTail(c, i, Current(c))
      BY <1>3 DEF Answered, Current
    <2> DEFINE g == wire[c][i].frame
    <2>2. g \in Frame /\ g.by \in {"loop", "ctx"} /\ g.owner = Current(c)
      BY <2>1, SegmentType DEF IsTail, Frame
    <2>3. ASSUME NEW x \in contexts, x.conn = c, ~x.has_response PROVE FALSE
      <3>1. x.owner = Current(c) /\ c # NoConn
        BY <2>3, ConstantsAssumption DEF WaitInv, ArgumentsValid
      <3>2. HasContext(Current(c))
        BY <2>3, <3>1 DEF HasContext
      <3>3. CASE g.by = "loop"
        BY <2>2, <3>2, <3>3 DEF TakeoverInv, WireOwned
      <3>4. CASE g.by = "ctx"
        <4>1. PICK y \in contexts : y.owner = Current(c) /\ y.has_response
          BY <2>2, <3>4 DEF TakeoverInv, WireOwned
        <4>2. y.conn # NoConn
          BY <4>1 DEF TakeoverInv, ContextsOwned
        <4> QED BY <2>3, <3>1, <4>1, <4>2 DEF TakeoverInv, ContextsOwned
      <3> QED BY <2>2, <3>3, <3>4
    <2>4. ASSUME NEW f \in writes[c], f.by = "ctx" PROVE FALSE
      <3>1. f.owner = Current(c)
        BY <2>4 DEF WaitInv, ArgumentsValid
      <3> QED BY <2>1, <2>4, <3>1 DEF WaitInv, WritesOwned
    <2> QED BY <2>3, <2>4
  <1> QED BY <1>1, <1>2, <1>3 DEF Settled

(***************************************************************************)
(* Steps that begin no answer: they end writes, finish a frame, publish,   *)
(* or move the read loop.                                                  *)
(***************************************************************************)
LEMMA StepWait ==
  ASSUME TypeOK, TypeOK', TakeoverInv, WaitInv, UNCHANGED <<req, contexts>>,
         \A d \in Conn : \A g \in writes'[d] : g \in writes[d] \/ g.by = "pub",
         \A d \in Conn : \A g \in writes'[d] : g.by = "loop" => pc'[d] = "write",
         \A d \in Conn : pc'[d] = "body" => pc[d] = "body" \/ Settled(d),
         \/ wire' = wire
         \/ \E c \in Conn, s \in Segment :
              /\ Appended(c, s)
              /\ \/ s.frame.by = "pub"
                 \/ /\ s.part = "tail"
                    /\ s.frame \in writes[c] /\ s.frame \notin writes'[c]
                    /\ \E i \in DOMAIN wire[c] : IsHead(c, i, s.frame.owner)
  PROVE  WaitInv'
  <1>1. \A d \in Conn : Current(d)' = Current(d)
    BY DEF Current
  <1>2. \A r : HasContext(r)' <=> HasContext(r)
    BY DEF HasContext
  <1>3. \A d \in Conn : \A i \in DOMAIN wire[d] :
          i \in DOMAIN wire'[d] /\ wire'[d][i] = wire[d][i]
    BY DEF Appended
  <1>4. ASSUME NEW d \in Conn, NEW i \in DOMAIN wire'[d], i \notin DOMAIN wire[d],
               wire'[d][i].frame.by # "pub"
        PROVE  /\ wire'[d][i].part = "tail"
               /\ wire'[d][i].frame \in writes[d] \ writes'[d]
               /\ \E j \in DOMAIN wire[d] : IsHead(d, j, wire'[d][i].frame.owner)
    BY <1>4 DEF Appended
  <1>5. WritesOwned'
    <2> SUFFICES ASSUME NEW d \in Conn, NEW f \in writes'[d], f.by # "pub"
                 PROVE  /\ f.owner[1] = d
                        /\ f.by = "loop" => f.owner = Current(d)
                        /\ f.by = "loop" => pc'[d] = "write" /\ ~HasContext(f.owner)
                        /\ f.by = "ctx" =>
                             \E x \in contexts : x.owner = f.owner /\ x.has_response
                        /\ \A g \in writes'[d] :
                             g.by # "pub" /\ g.owner = f.owner => g = f
                        /\ \A i \in DOMAIN wire'[d] : ~IsTail(d, i, f.owner)'
      BY <1>1, <1>2 DEF WritesOwned
    <2>1. f \in writes[d]
      OBVIOUS
    <2>2. ASSUME NEW i \in DOMAIN wire'[d], IsTail(d, i, f.owner)' PROVE FALSE
      <3>1. CASE i \in DOMAIN wire[d]
        BY <1>3, <2>1, <2>2, <3>1 DEF WaitInv, WritesOwned, IsTail
      <3>2. CASE i \notin DOMAIN wire[d]
        <4> DEFINE g == wire'[d][i].frame
        <4>1. g.by # "pub" /\ g.owner = f.owner
          BY <2>2 DEF IsTail
        <4>2. g \in writes[d] /\ g \notin writes'[d]
          BY <1>4, <3>2, <4>1
        <4> QED BY <2>1, <4>1, <4>2 DEF WaitInv, WritesOwned
      <3> QED BY <3>1, <3>2
    <2>3. \A g \in writes'[d] : g.by # "pub" /\ g.owner = f.owner => g = f
      BY <2>1 DEF WaitInv, WritesOwned
    <2> QED BY <2>1, <2>2, <2>3 DEF WaitInv, WritesOwned
  <1>6. TailsFollow'
    <2> SUFFICES ASSUME NEW d \in Conn, NEW i \in DOMAIN wire'[d], NEW r,
                        IsTail(d, i, r)'
                 PROVE  \E j \in DOMAIN wire'[d] : IsHead(d, j, r)'
      BY DEF TailsFollow
    <2>1. \E j \in DOMAIN wire[d] : IsHead(d, j, r)
      <3>1. CASE i \in DOMAIN wire[d]
        BY <1>3, <3>1 DEF WaitInv, TailsFollow, IsTail
      <3>2. CASE i \notin DOMAIN wire[d]
        BY <1>4, <3>2 DEF IsTail
      <3> QED BY <3>1, <3>2
    <2> QED BY <1>3, <2>1 DEF IsHead
  <1>7. ArgumentsValid'
    <2>1. \A d \in Conn : pc'[d] = "body" =>
            /\ \A x \in contexts : x.conn = d => x.has_response
            /\ \A f \in writes[d] : f.by # "ctx"
      BY SettledQuiet
    <2>2. ASSUME NEW d \in Conn, NEW x \in contexts, x.conn = d, ~x.has_response
          PROVE  x.owner = Current(d) /\ pc'[d] # "body"
      BY <2>1, <2>2 DEF WaitInv, ArgumentsValid
    <2>3. ASSUME NEW d \in Conn, NEW f \in writes'[d], f.by = "ctx"
          PROVE  f.owner = Current(d) /\ pc'[d] # "body"
      BY <2>1, <2>3 DEF WaitInv, ArgumentsValid
    <2> QED BY <1>1, <2>2, <2>3 DEF ArgumentsValid
  <1>8. ResponseOrder'
    <2>1. \A d \in Conn : \A i \in DOMAIN wire'[d] :
            wire'[d][i].part = "head" /\ wire'[d][i].frame.by # "pub"
            => i \in DOMAIN wire[d] /\ wire'[d][i] = wire[d][i]
      BY <1>3, <1>4
    <2> QED BY <2>1 DEF WaitInv, ResponseOrder
  <1> QED BY <1>5, <1>6, <1>7, <1>8 DEF WaitInv

\* The next request is dispatched: nothing is left of the one before.
LEMMA DispatchWait ==
  ASSUME TypeOK, TypeOK', TakeoverInv, TakeoverInv', WaitInv, NEW c \in Conn,
         Settled(c) \/ pc[c] = "body", pc[c] # "write", Dispatch(c)
  PROVE  WaitInv'
  <1>1. /\ UNCHANGED <<contexts, writes, wire>>
        /\ pc' = [pc EXCEPT ![c] = "handler"] /\ req' = [req EXCEPT ![c] = @ + 1]
    BY DEF Dispatch
  <1>2. \A d \in Conn : d # c => Current(d)' = Current(d) /\ pc'[d] = pc[d]
    BY <1>1 DEF Current, TypeOK
  <1>3. /\ \A x \in contexts : x.conn = c => x.has_response
        /\ \A f \in writes[c] : f.by # "ctx"
    BY SettledQuiet
  <1>4. \A f \in writes[c] : f.by = "pub"
    BY <1>3, WriterOf DEF WaitInv, WritesOwned
  <1>5. WritesOwned'
    BY <1>1, <1>2, <1>4 DEF WaitInv, WritesOwned, HasContext, IsTail
  <1>6. TailsFollow'
    BY <1>1 DEF WaitInv, TailsFollow, IsTail, IsHead
  <1>7. ArgumentsValid'
    BY <1>1, <1>2, <1>3, <1>4 DEF WaitInv, ArgumentsValid
  <1>8. ResponseOrder'
    BY <1>1 DEF WaitInv, ResponseOrder
  <1> QED BY <1>5, <1>6, <1>7, <1>8 DEF WaitInv

\* A handler creates a context.
LEMMA ContextWait ==
  ASSUME TypeOK, TypeOK', TakeoverInv, TakeoverInv', WaitInv, NEW c \in Conn,
         NewContext(c) \/ ForeignContext(c)
  PROVE  WaitInv'
  <1>1. /\ UNCHANGED <<pc, req, writes, wire>> /\ pc[c] = "handler"
        /\ contexts \subseteq contexts'
        /\ \A x \in contexts' : x \in contexts \/ (x.owner = Current(c) /\ ~x.has_response)
    BY DEF NewContext, ForeignContext
  <1>2. \A d \in Conn : Current(d)' = Current(d)
    BY <1>1 DEF Current
  <1>3. \A r : HasContext(r)' => HasContext(r) \/ r = Current(c)
    BY <1>1 DEF HasContext
  <1>4. WritesOwned'
    <2> SUFFICES ASSUME NEW d \in Conn, NEW f \in writes[d], f.by # "pub"
                 PROVE  /\ f.owner[1] = d
                        /\ f.by = "loop" => f.owner = Current(d)
                        /\ f.by = "loop" => pc[d] = "write" /\ ~HasContext(f.owner)'
                        /\ f.by = "ctx" =>
                             \E x \in contexts' : x.owner = f.owner /\ x.has_response
                        /\ \A g \in writes[d] :
                             g.by # "pub" /\ g.owner = f.owner => g = f
                        /\ \A i \in DOMAIN wire[d] : ~IsTail(d, i, f.owner)
      BY <1>1, <1>2 DEF WritesOwned, IsTail
    <2>1. f.by = "loop" => f.owner = Current(d) /\ pc[d] = "write" /\ ~HasContext(f.owner)
      BY DEF WaitInv, WritesOwned
    <2>2. f.by = "loop" => ~HasContext(f.owner)'
      BY <1>1, <1>3, <2>1 DEF Current
    <2> QED BY <1>1, <2>1, <2>2 DEF WaitInv, WritesOwned
  <1>5. TailsFollow'
    BY <1>1 DEF WaitInv, TailsFollow, IsTail, IsHead
  <1>6. ArgumentsValid'
    <2>1. ASSUME NEW d \in Conn, NEW x \in contexts', x.conn = d, ~x.has_response
          PROVE  x.owner = Current(d) /\ pc[d] # "body"
      <3>1. CASE x \in contexts
        BY <2>1, <3>1 DEF WaitInv, ArgumentsValid
      <3>2. CASE x \notin contexts
        <4>1. x.owner = Current(c) /\ x.conn \in {x.owner[1], NoConn} /\ d # NoConn
          BY <1>1, <3>2, ConstantsAssumption DEF TakeoverInv, ContextsOwned
        <4>2. d = c
          BY <2>1, <4>1 DEF Current
        <4> QED BY <1>1, <4>1, <4>2
      <3> QED BY <3>1, <3>2
    <2> QED BY <1>1, <1>2, <2>1 DEF WaitInv, ArgumentsValid
  <1>7. ResponseOrder'
    BY <1>1 DEF WaitInv, ResponseOrder
  <1> QED BY <1>4, <1>5, <1>6, <1>7 DEF WaitInv

(***************************************************************************)
(* The answer of the current request is begun, by the read loop or by a    *)
(* context: it comes after all earlier ones.                               *)
(***************************************************************************)
LEMMA AnswerWait ==
  ASSUME TypeOK, TypeOK', TakeoverInv, TakeoverInv', WaitInv, req' = req,
         NEW c \in Conn, NEW f \in Frame, f.by # "pub", f.owner = Current(c),
         StartWrite(c, f), pc'[c] # "body",
         \A d \in Conn : d # c => pc'[d] = pc[d],
         f.by = "loop" => pc'[c] = "write" /\ ~HasContext(f.owner),
         f.by = "ctx" => pc'[c] = pc[c] /\ \E x \in contexts' : x.owner = f.owner /\ x.has_response,
         \A x \in contexts : x.has_response => x \in contexts',
         \A x \in contexts' : ~x.has_response => x \in contexts,
         \A r : HasContext(r)' <=> HasContext(r),
         \A g \in writes[c] : g.by # "pub" => g.owner # f.owner,
         \A g \in writes[c] : g.by # "loop",
         \A i \in DOMAIN wire[c] : ~IsHead(c, i, f.owner)
  PROVE  WaitInv'
  <1>1. \A d \in Conn : Current(d)' = Current(d)
    BY DEF Current
  <1>2. wire' = wire \/ Appended(c, [frame |-> f, part |-> "head"])
    BY HeadWritten
  <1>3. \A d \in Conn : \A i \in DOMAIN wire[d] :
          i \in DOMAIN wire'[d] /\ wire'[d][i] = wire[d][i]
    BY <1>2 DEF Appended
  <1>4. \A d \in Conn : \A i \in DOMAIN wire'[d] :
          \/ i \in DOMAIN wire[d]
          \/ d = c /\ wire'[d][i].frame = f /\ wire'[d][i].part = "head"
    BY <1>2 DEF Appended
  <1>5. /\ writes'[c] = writes[c] \cup {f}
        /\ \A d \in Conn : d # c => writes'[d] = writes[d]
    BY DEF StartWrite, TypeOK
  <1>6. \A d \in Conn : \A i \in DOMAIN wire'[d] : \A r :
          IsTail(d, i, r)' => i \in DOMAIN wire[d] /\ IsTail(d, i, r)
    BY <1>3, <1>4 DEF IsTail
  <1>7. \A i \in DOMAIN wire[c] : ~IsTail(c, i, f.owner)
    BY DEF WaitInv, TailsFollow, IsTail
  <1>8. WritesOwned'
    <2> SUFFICES ASSUME NEW d \in Conn, NEW g \in writes'[d], g.by # "pub"
                 PROVE  /\ g.owner[1] = d
                        /\ g.by = "loop" => g.owner = Current(d)
                        /\ g.by = "loop" => pc'[d] = "write" /\ ~HasContext(g.owner)
                        /\ g.by = "ctx" =>
                             \E x \in contexts' : x.owner = g.owner /\ x.has_response
                        /\ \A h \in writes'[d] :
                             h.by # "pub" /\ h.owner = g.owner => h = g
                        /\ \A i \in DOMAIN wire'[d] : ~IsTail(d, i, g.owner)'
      BY <1>1 DEF WritesOwned
    <2>1. CASE g \in writes[d]
      <3>1. \A i \in DOMAIN wire'[d] : ~IsTail(d, i, g.owner)'
        BY <1>6, <2>1 DEF WaitInv, WritesOwned
      <3>2. \A h \in writes'[d] : h.by # "pub" /\ h.owner = g.owner => h = g
        BY <1>5, <2>1 DEF WaitInv, WritesOwned
      <3>3. g.by = "loop" => d # c
        BY <2>1
      <3> QED BY <2>1, <3>1, <3>2, <3>3 DEF WaitInv, WritesOwned
    <2>2. CASE g \notin writes[d]
      <3>1. d = c /\ g = f /\ f.owner[1] = c
        BY <1>5, <2>2 DEF Current
      <3>2. \A i \in DOMAIN wire'[d] : ~IsTail(d, i, g.owner)'
        BY <1>6, <1>7, <3>1
      <3> QED BY <1>5, <3>1, <3>2
    <2> QED BY <2>1, <2>2
  <1>9. TailsFollow'
    <2> SUFFICES ASSUME NEW d \in Conn, NEW i \in DOMAIN wire'[d], NEW r,
                        IsTail(d, i, r)'
                 PROVE  \E j \in DOMAIN wire'[d] : IsHead(d, j, r)'
      BY DEF TailsFollow
    <2>1. \E j \in DOMAIN wire[d] : IsHead(d, j, r)
      BY <1>6 DEF WaitInv, TailsFollow, IsTail
    <2> QED BY <1>3, <2>1 DEF IsHead
  <1>10. ArgumentsValid'
    <2>1. ASSUME NEW d \in Conn, NEW x \in contexts', x.conn = d, ~x.has_response
          PROVE  x.owner = Current(d) /\ pc'[d] # "body"
      BY <2>1 DEF WaitInv, ArgumentsValid
    <2>2. ASSUME NEW d \in Conn, NEW g \in writes'[d], g.by = "ctx"
          PROVE  g.owner = Current(d) /\ pc'[d] # "body"
      BY <1>5, <2>2 DEF WaitInv, ArgumentsValid
    <2> QED BY <1>1, <2>1, <2>2 DEF ArgumentsValid
  <1>11. ResponseOrder'
    <2> SUFFICES ASSUME NEW d \in Conn, NEW i \in DOMAIN wire'[d],
                        NEW j \in DOMAIN wire'[d], i < j,
                        wire'[d][i].part = "head", wire'[d][i].frame.by # "pub",
                        wire'[d][j].part = "head", wire'[d][j].frame.by # "pub"
                 PROVE  wire'[d][i].frame.owner[2] < wire'[d][j].frame.owner[2]
      BY DEF ResponseOrder
    <2>1. wire[d] \in Seq(Segment) /\ wire'[d] \in Seq(Segment)
      BY DEF TypeOK
    <2>2. i \in Nat /\ j \in Nat /\ i >= 1
      BY <2>1
    <2>3. j \in DOMAIN wire[d] => i \in DOMAIN wire[d]
      BY <2>1, <2>2
    <2>4. CASE j \in DOMAIN wire[d]
      BY <1>3, <2>3, <2>4 DEF WaitInv, ResponseOrder
    <2>5. CASE j \notin DOMAIN wire[d]
      <3>1. d = c /\ wire'[d][j].frame = f
        BY <1>4, <2>5
      <3>2. i \in DOMAIN wire[d]
        <4>1. CASE wire' = wire
          BY <2>5, <4>1
        <4>2. CASE Appended(c, [frame |-> f, part |-> "head"])
          BY <2>2, <2>5, <3>1, <4>2 DEF Appended
        <4> QED BY <1>2, <4>1, <4>2
      <3> DEFINE g == wire[d][i].frame
      <3>3. wire'[d][i] = wire[d][i] /\ g \in Frame /\ g.by # "pub"
        BY <1>3, <3>2, SegmentType
      <3>4. g.owner \in Request /\ g.owner[1] = c /\ g.owner[2] \in 1 .. req[c]
        BY <3>1, <3>2, <3>3 DEF Frame, TakeoverInv, WireOwned
      <3>5. g.owner # f.owner
        BY <3>1, <3>2, <3>3 DEF IsHead
      <3>6. g.owner[2] # req[c]
        BY <3>4, <3>5 DEF Current
      <3>7. req[c] \in Nat /\ f.owner[2] = req[c]
        BY DEF Current, TypeOK
      <3>8. g.owner[2] < f.owner[2]
        BY <3>4, <3>6, <3>7
      <3> QED BY <3>1, <3>3, <3>8
    <2> QED BY <2>4, <2>5
  <1> QED BY <1>8, <1>9, <1>10, <1>11 DEF WaitInv

\* When the loop or a context begins an answer, no other answer of the
\* connection is being written.
LEMMA LoopAlone ==
  ASSUME TypeOK, TakeoverInv, WaitInv, NEW c \in Conn, pc[c] = "handler",
         ~HasContext(Current(c)), NEW g \in writes[c]
  PROVE  g.by = "pub"
  <1>1. g.by # "loop"
    BY DEF WaitInv, WritesOwned
  <1>2. ASSUME g.by = "ctx" PROVE FALSE
    <2>1. g.owner = Current(c)
      BY <1>2 DEF WaitInv, ArgumentsValid
    <2> QED BY <1>2, <2>1, PendingContext, ConstantsAssumption DEF HasContext
  <1> QED BY <1>1, <1>2, WriterOf

LEMMA ContextAlone ==
  ASSUME TypeOK, TakeoverInv, WaitInv, NEW c \in Conn, NEW x \in contexts,
         x.conn = c, ~x.has_response, NEW g \in writes[c]
  PROVE  g.by = "pub"
  <1>1. x.owner = Current(c) /\ HasContext(Current(c)) /\ c # NoConn
    BY OwnContext, ConstantsAssumption DEF WaitInv, ArgumentsValid
  <1>2. g.by # "loop"
    BY <1>1 DEF WaitInv, WritesOwned
  <1>3. ASSUME g.by = "ctx" PROVE FALSE
    <2>1. PICK y \in contexts : y.owner = g.owner /\ y.conn = c /\ y.has_response
      BY <1>3, PendingContext
    <2>2. y.owner = x.owner
      BY <1>1, <1>3, <2>1 DEF WaitInv, ArgumentsValid
    <2> QED BY <1>1, <2>1, <2>2 DEF TakeoverInv, ContextsOwned
  <1> QED BY <1>2, <1>3, WriterOf

LEMMA ReturnAnsweredWait ==
  ASSUME TypeOK, TypeOK', TakeoverInv, TakeoverInv', WaitInv, NEW c \in Conn,
         ReturnAnswered(c)
  PROVE  WaitInv'
  <1> DEFINE f == LoopFrame(c)
  <1>1. /\ pc[c] = "handler" /\ InHandler(c) /\ ~HasContext(Current(c))
        /\ UNCHANGED <<req, contexts>> /\ StartWrite(c, f)
        /\ pc' = [pc EXCEPT ![c] = "write"]
    BY DelayIsOwn DEF ReturnAnswered, Leave, InHandler
  <1>2. f \in Frame /\ f.by = "loop" /\ f.owner = Current(c)
    BY DEF LoopFrame, Current, Frame, TypeOK
  <1> HIDE DEF f
  <1>3. \A g \in writes[c] : g.by = "pub"
    BY <1>1, LoopAlone
  <1>5. \A i \in DOMAIN wire[c] : ~IsHead(c, i, f.owner)
    BY <1>1, <1>2, NotYetAnswered
  <1>6. \A r : HasContext(r)' <=> HasContext(r)
    BY <1>1 DEF HasContext
  <1>7. pc'[c] = "write" /\ \A d \in Conn : d # c => pc'[d] = pc[d]
    BY <1>1 DEF TypeOK
  <1> QED BY <1>1, <1>2, <1>3, <1>5, <1>6, <1>7, AnswerWait

LEMMA ContextResponseWait ==
  ASSUME TypeOK, TypeOK', TakeoverInv, TakeoverInv', WaitInv,
         NEW x \in contexts, ContextResponse(x)
  PROVE  WaitInv'
  <1> DEFINE f == [by |-> "ctx", owner |-> x.owner, copy |-> x.copy]
             c == x.conn
             y == [x EXCEPT !.has_response = TRUE]
  <1>1. /\ x \in Context /\ c \in Conn /\ c # NoConn /\ ~x.has_response
        /\ UNCHANGED <<pc, req>> /\ StartWrite(c, f)
        /\ contexts' = (contexts \ {x}) \cup {y}
    BY DEF ContextResponse, SetHasResponse, TypeOK, Context
  <1>2. y.owner = x.owner /\ y.conn = x.conn /\ y.has_response
    BY <1>1 DEF Context
  <1>3. f \in Frame /\ f.by = "ctx" /\ f.owner = x.owner
    BY <1>1 DEF Frame, Context
  <1> HIDE DEF f, c, y
  <1>4. c = x.conn /\ x.owner = Current(c) /\ pc[c] # "body"
    BY <1>1 DEF WaitInv, ArgumentsValid, c
  <1>5. HasContext(Current(c)) /\ \A z \in contexts : z.owner = Current(c) => ~z.has_response
    BY <1>1, <1>4 DEF HasContext, TakeoverInv, ContextsOwned
  <1>6. \A g \in writes[c] : g.by = "pub"
    BY <1>1, <1>4, ContextAlone
  <1>8. \A i \in DOMAIN wire[c] : ~IsHead(c, i, f.owner)
    <2> SUFFICES ASSUME NEW i \in DOMAIN wire[c], IsHead(c, i, Current(c))
                 PROVE  FALSE
      BY <1>3, <1>4
    <2> DEFINE g == wire[c][i].frame
    <2>1. g \in Frame /\ g.by \in {"loop", "ctx"} /\ g.owner = Current(c)
      BY <1>1, SegmentType DEF IsHead, Frame
    <2> QED BY <1>1, <1>5, <2>1 DEF TakeoverInv, WireOwned
  <1>9. \A r : HasContext(r)' <=> HasContext(r)
    BY <1>1, <1>2 DEF HasContext
  <1>10. /\ \A z \in contexts : z.has_response => z \in contexts'
         /\ \A z \in contexts' : ~z.has_response => z \in contexts
         /\ y \in contexts'
    BY <1>1, <1>2
  <1> QED BY <1>1, <1>2, <1>3, <1>4, <1>6, <1>8, <1>9, <1>10, AnswerWait

\* The frame of a write that is over was begun.
LEMMA HeadBefore ==
  ASSUME NEW c \in Conn, NEW f, WriteDone(c, f), f.by # "pub"
  PROVE  \E i \in DOMAIN wire[c] : IsHead(c, i, f.owner)
  BY DEF WriteDone, IsHead

LEMMA NextWait ==
  ASSUME Contract, "pipeline" \notin Usage, TypeOK, TypeOK', TakeoverInv,
         TakeoverInv', WaitInv, [Next]_vars
  PROVE  WaitInv'
  <1>a. \A d \in Conn : \A g \in writes[d] : g.by = "loop" => pc[d] = "write"
    BY DEF WaitInv, WritesOwned
  <1>1. ASSUME NEW c \in Conn, HeaderError(c)
        PROVE  WaitInv'
    <2>1. UNCHANGED <<req, contexts, wire>> /\ \A d \in Conn : writes'[d] \subseteq writes[d]
      BY <1>1 DEF HeaderError, CloseHere, TypeOK
    <2>2. \A d \in Conn : /\ pc[d] = "write" => pc'[d] = "write"
                          /\ pc'[d] = "body" => pc[d] = "body" \/ Settled(d)
      BY <1>1 DEF HeaderError, CloseHere, TypeOK
    <2> QED BY <2>1, <2>2, <1>a, StepWait
  <1>2. ASSUME NEW c \in Conn, HeaderBadMagic(c)
        PROVE  WaitInv'
    <2>1. UNCHANGED <<req, contexts, wire>> /\ \A d \in Conn : writes'[d] \subseteq writes[d]
      BY <1>2 DEF HeaderBadMagic, HeaderRead, TypeOK
    <2>2. \A d \in Conn : /\ pc[d] = "write" => pc'[d] = "write"
                          /\ pc'[d] = "body" => pc[d] = "body" \/ Settled(d)
      BY <1>2 DEF HeaderBadMagic, HeaderRead, TypeOK
    <2> QED BY <2>1, <2>2, <1>a, StepWait
  <1>3. ASSUME NEW c \in Conn, NEW topic \in Topic, HeaderSubscribe(c, topic)
        PROVE  WaitInv'
    <2>1. UNCHANGED <<req, contexts, wire>> /\ \A d \in Conn : writes'[d] \subseteq writes[d]
      BY <1>3 DEF HeaderSubscribe, HeaderRead, NextHeader, TypeOK
    <2>2. \A d \in Conn : /\ pc[d] = "write" => pc'[d] = "write"
                          /\ pc'[d] = "body" => pc[d] = "body" \/ Settled(d)
      BY <1>3 DEF HeaderSubscribe, HeaderRead, NextHeader, TypeOK
    <2> QED BY <2>1, <2>2, <1>a, StepWait
  <1>4. ASSUME NEW c \in Conn, HeaderCall(c)
        PROVE  WaitInv'
    <2>1. UNCHANGED <<req, contexts, wire>> /\ \A d \in Conn : writes'[d] \subseteq writes[d]
      BY <1>4 DEF HeaderCall, MayRequest, HeaderRead, TypeOK
    <2>2. \A d \in Conn : /\ pc[d] = "write" => pc'[d] = "write"
                          /\ pc'[d] = "body" => pc[d] = "body" \/ Settled(d)
      BY <1>4 DEF HeaderCall, MayRequest, HeaderRead, TypeOK
    <2> QED BY <2>1, <2>2, <1>a, StepWait
  <1>5. ASSUME NEW c \in Conn, BodyError(c)
        PROVE  WaitInv'
    <2>1. UNCHANGED <<req, contexts, wire>> /\ \A d \in Conn : writes'[d] \subseteq writes[d]
      BY <1>5 DEF BodyError, CloseHere, TypeOK
    <2>2. \A d \in Conn : /\ pc[d] = "write" => pc'[d] = "write"
                          /\ pc'[d] = "body" => pc[d] = "body" \/ Settled(d)
      BY <1>5 DEF BodyError, CloseHere, TypeOK
    <2> QED BY <2>1, <2>2, <1>a, StepWait
  <1>6. ASSUME NEW c \in Conn, ReturnDelayed(c)
        PROVE  WaitInv'
    <2>1. UNCHANGED <<req, contexts, wire>> /\ \A d \in Conn : writes'[d] \subseteq writes[d]
      BY <1>6 DEF ReturnDelayed, Leave, NextHeader, TypeOK
    <2>2. \A d \in Conn : /\ pc[d] = "write" => pc'[d] = "write"
                          /\ pc'[d] = "body" => pc[d] = "body" \/ Settled(d)
      BY <1>6 DEF ReturnDelayed, Leave, NextHeader, TypeOK
    <2> QED BY <2>1, <2>2, <1>a, StepWait
  <1>7. ASSUME NEW c \in Conn, Suspend(c)
        PROVE  WaitInv'
    <2>1. UNCHANGED <<req, contexts, wire>> /\ \A d \in Conn : writes'[d] \subseteq writes[d]
      BY <1>7 DEF Suspend, TypeOK
    <2>2. \A d \in Conn : /\ pc[d] = "write" => pc'[d] = "write"
                          /\ pc'[d] = "body" => pc[d] = "body" \/ Settled(d)
      BY <1>7 DEF Suspend, TypeOK
    <2> QED BY <2>1, <2>2, <1>a, StepWait
  <1>8. ASSUME NEW c \in Conn, Resume(c)
        PROVE  WaitInv'
    <2>1. UNCHANGED <<req, contexts, wire>> /\ \A d \in Conn : writes'[d] \subseteq writes[d]
      BY <1>8 DEF Resume, TypeOK
    <2>2. \A d \in Conn : /\ pc[d] = "write" => pc'[d] = "write"
                          /\ pc'[d] = "body" => pc[d] = "body" \/ Settled(d)
      BY <1>8 DEF Resume, TypeOK
    <2> QED BY <2>1, <2>2, <1>a, StepWait
  <1>9. ASSUME NEW c \in Conn, NEW f \in writes[c], CtxWriteFail(c, f)
        PROVE  WaitInv'
    <2>1. UNCHANGED <<req, contexts, wire>> /\ \A d \in Conn : writes'[d] \subseteq writes[d]
      BY <1>9 DEF CtxWriteFail, WriteFail, TypeOK
    <2>2. \A d \in Conn : /\ pc[d] = "write" => pc'[d] = "write"
                          /\ pc'[d] = "body" => pc[d] = "body" \/ Settled(d)
      BY <1>9 DEF CtxWriteFail, WriteFail, TypeOK
    <2> QED BY <2>1, <2>2, <1>a, StepWait
  <1>10. ASSUME NEW c \in Conn, NEW need_cb \in BOOLEAN, PostedClose(c, need_cb)
        PROVE  WaitInv'
    <2>1. UNCHANGED <<req, contexts, wire>> /\ \A d \in Conn : writes'[d] \subseteq writes[d]
      BY <1>10 DEF PostedClose, TypeOK
    <2>2. \A d \in Conn : /\ pc[d] = "write" => pc'[d] = "write"
                          /\ pc'[d] = "body" => pc[d] = "body" \/ Settled(d)
      BY <1>10 DEF PostedClose, TypeOK
    <2> QED BY <2>1, <2>2, <1>a, StepWait
  <1>11. ASSUME NEW c \in Conn, Expire(c)
        PROVE  WaitInv'
    <2>1. UNCHANGED <<req, contexts, wire>> /\ \A d \in Conn : writes'[d] \subseteq writes[d]
      BY <1>11 DEF Expire, TypeOK
    <2>2. \A d \in Conn : /\ pc[d] = "write" => pc'[d] = "write"
                          /\ pc'[d] = "body" => pc[d] = "body" \/ Settled(d)
      BY <1>11 DEF Expire, TypeOK
    <2> QED BY <2>1, <2>2, <1>a, StepWait
  <1>12. ASSUME StopServer
        PROVE  WaitInv'
    <2>1. UNCHANGED <<req, contexts, wire>> /\ \A d \in Conn : writes'[d] \subseteq writes[d]
      BY <1>12 DEF StopServer, TypeOK
    <2>2. \A d \in Conn : /\ pc[d] = "write" => pc'[d] = "write"
                          /\ pc'[d] = "body" => pc[d] = "body" \/ Settled(d)
      BY <1>12 DEF StopServer, TypeOK
    <2> QED BY <2>1, <2>2, <1>a, StepWait
  <1>13. ASSUME NEW p \in Publisher, NEW topic \in Topic, PublishBegin(p, topic)
        PROVE  WaitInv'
    <2>1. UNCHANGED <<req, contexts, wire>> /\ \A d \in Conn : writes'[d] \subseteq writes[d]
      BY <1>13 DEF PublishBegin, TypeOK
    <2>2. \A d \in Conn : /\ pc[d] = "write" => pc'[d] = "write"
                          /\ pc'[d] = "body" => pc[d] = "body" \/ Settled(d)
      BY <1>13 DEF PublishBegin, TypeOK
    <2> QED BY <2>1, <2>2, <1>a, StepWait
  <1>14. ASSUME NEW p \in Publisher, NEW c \in Conn, PublishSkip(p, c)
        PROVE  WaitInv'
    <2>1. UNCHANGED <<req, contexts, wire>> /\ \A d \in Conn : writes'[d] \subseteq writes[d]
      BY <1>14 DEF PublishSkip, TypeOK
    <2>2. \A d \in Conn : /\ pc[d] = "write" => pc'[d] = "write"
                          /\ pc'[d] = "body" => pc[d] = "body" \/ Settled(d)
      BY <1>14 DEF PublishSkip, TypeOK
    <2> QED BY <2>1, <2>2, <1>a, StepWait
  <1>15. ASSUME NEW p \in Publisher, NEW c \in Conn, PubWriteFail(p, c)
        PROVE  WaitInv'
    <2>1. UNCHANGED <<req, contexts, wire>> /\ \A d \in Conn : writes'[d] \subseteq writes[d]
      BY <1>15 DEF PubWriteFail, WriteFail, TypeOK
    <2>2. \A d \in Conn : /\ pc[d] = "write" => pc'[d] = "write"
                          /\ pc'[d] = "body" => pc[d] = "body" \/ Settled(d)
      BY <1>15 DEF PubWriteFail, WriteFail, TypeOK
    <2> QED BY <2>1, <2>2, <1>a, StepWait
  <1>16. ASSUME NEW p \in Publisher, PublishEnd(p)
        PROVE  WaitInv'
    <2>1. UNCHANGED <<req, contexts, wire>> /\ \A d \in Conn : writes'[d] \subseteq writes[d]
      BY <1>16 DEF PublishEnd, TypeOK
    <2>2. \A d \in Conn : /\ pc[d] = "write" => pc'[d] = "write"
                          /\ pc'[d] = "body" => pc[d] = "body" \/ Settled(d)
      BY <1>16 DEF PublishEnd, TypeOK
    <2> QED BY <2>1, <2>2, <1>a, StepWait
  <1>17. ASSUME UNCHANGED vars
        PROVE  WaitInv'
    <2>1. UNCHANGED <<req, contexts, wire>> /\ \A d \in Conn : writes'[d] \subseteq writes[d]
      BY <1>17 DEF vars, TypeOK
    <2>2. \A d \in Conn : /\ pc[d] = "write" => pc'[d] = "write"
                          /\ pc'[d] = "body" => pc[d] = "body" \/ Settled(d)
      BY <1>17 DEF vars, TypeOK
    <2> QED BY <2>1, <2>2, <1>a, StepWait
  <1>18. ASSUME NEW c \in Conn, LoopWriteDone(c) \/ LoopWriteFail(c)
        PROVE  WaitInv'
    <2> DEFINE f == LoopFrame(c)
               s == [frame |-> f, part |-> "tail"]
    <2>1. /\ UNCHANGED <<req, contexts>> /\ pc[c] = "write"
          /\ \E t \in {"header", "ended"} : pc' = [pc EXCEPT ![c] = t]
          /\ WriteDone(c, f) \/ WriteFail(c, f)
      BY <1>18 DEF LoopWriteDone, LoopWriteFail, NextHeader
    <2>2. /\ f \in writes[c] /\ f.by = "loop" /\ f.owner = Current(c) /\ f \in Frame
          /\ writes' = [writes EXCEPT ![c] = @ \ {f}]
      BY <2>1 DEF WriteDone, WriteFail, LoopFrame, TypeOK
    <2>3. s \in Segment /\ s.part = "tail" /\ s.frame = f
      BY <2>2 DEF Segment
    <2>4. wire' = wire \/ (wire' = [wire EXCEPT ![c] = Append(@, s)] /\ WriteDone(c, f))
      BY <2>1 DEF WriteDone, WriteFail
    <2> HIDE DEF f, s
    <2>5. wire' = wire \/ (Appended(c, s) /\ \E i \in DOMAIN wire[c] : IsHead(c, i, f.owner))
      BY <2>2, <2>3, <2>4, AppendAppended, HeadBefore
    <2>6. /\ writes'[c] = writes[c] \ {f}
          /\ \A d \in Conn : d # c => writes'[d] = writes[d] /\ pc'[d] = pc[d]
          /\ pc'[c] # "body"
      BY <2>1, <2>2 DEF TypeOK
    <2>7. \A g \in writes'[c] : g.by # "loop"
      BY <2>2, <2>6 DEF WaitInv, WritesOwned
    <2>8. /\ \A d \in Conn : \A g \in writes'[d] : g \in writes[d]
          /\ \A d \in Conn : \A g \in writes'[d] : g.by = "loop" => pc'[d] = "write"
          /\ \A d \in Conn : pc'[d] = "body" => pc[d] = "body"
          /\ f \notin writes'[c]
      BY <1>a, <2>6, <2>7
    <2> QED BY <2>1, <2>2, <2>3, <2>5, <2>8, StepWait
  <1>19. ASSUME NEW c \in Conn, NEW f \in writes[c], UNCHANGED <<req, contexts, pc>>,
                WriteDone(c, f)
        PROVE  WaitInv'
    <2> DEFINE s == [frame |-> f, part |-> "tail"]
    <2>1. /\ f \in Frame /\ s \in Segment /\ s.part = "tail" /\ s.frame = f
          /\ wire' = [wire EXCEPT ![c] = Append(@, s)]
      BY <1>19 DEF WriteDone, TypeOK, Segment
    <2> HIDE DEF s
    <2>2. Appended(c, s)
      BY <2>1, AppendAppended
    <2>3. /\ \A d \in Conn : \A g \in writes'[d] : g \in writes[d]
          /\ f \notin writes'[c]
      BY <1>19 DEF WriteDone, TypeOK
    <2>4. f.by = "pub" \/ \E i \in DOMAIN wire[c] : IsHead(c, i, f.owner)
      BY <1>19, HeadBefore
    <2> QED BY <1>19, <1>a, <2>1, <2>2, <2>3, <2>4, StepWait
  <1>20. ASSUME NEW p \in Publisher, NEW c \in Conn, PublishSend(p, c)
        PROVE  WaitInv'
    <2> DEFINE f == PubFrame(p)
               s == [frame |-> f, part |-> "head"]
    <2>1. f \in Frame /\ f.by = "pub"
      BY DEF PubFrame, Frame, TypeOK, PubTypeOK
    <2>2. s \in Segment /\ s.frame = f
      BY <2>1 DEF Segment
    <2>3. UNCHANGED <<req, contexts, pc>> /\ StartWrite(c, f)
      BY <1>20 DEF PublishSend
    <2> HIDE DEF f
    <2>4. wire' = wire \/ Appended(c, s)
      BY <2>1, <2>3, HeadWritten
    <2> HIDE DEF s
    <2>5. \A d \in Conn : \A g \in writes'[d] : g \in writes[d] \/ g = f
      BY <2>3 DEF StartWrite, TypeOK
    <2> QED BY <1>a, <2>1, <2>2, <2>3, <2>4, <2>5, StepWait
  <1>21. ASSUME NEW c \in Conn, NEW f \in writes[c], CtxWriteDone(c, f)
        PROVE  WaitInv'
    BY <1>19, <1>21 DEF CtxWriteDone
  <1>22. ASSUME NEW p \in Publisher, NEW c \in Conn, PubWriteDone(p, c)
        PROVE  WaitInv'
    BY <1>19, <1>22 DEF PubWriteDone, WriteDone
  <1>23. ASSUME NEW c \in Conn, HeaderEmptyCall(c) \/ BodyRead(c)
        PROVE  WaitInv'
    <2>1. Settled(c) \/ pc[c] = "body"
      BY <1>23 DEF HeaderEmptyCall, MayRequest, BodyRead
    <2>2. pc[c] # "write" /\ Dispatch(c)
      BY <1>23 DEF HeaderEmptyCall, MayRequest, HeaderRead, BodyRead
    <2> QED BY <2>1, <2>2, DispatchWait
  <1>24. ASSUME NEW x \in contexts, CopyContext(x)
        PROVE  WaitInv'
    BY <1>24 DEF CopyContext, Contract
  <1>25. ASSUME NEW c \in Conn, ThrowDelayed(c)
        PROVE  WaitInv'
    BY <1>25 DEF ThrowDelayed, Contract
  <1> QED
    BY <1>1, <1>2, <1>3, <1>4, <1>5, <1>6, <1>7, <1>8, <1>9, <1>10, <1>11, <1>12,
       <1>13, <1>14, <1>15, <1>16, <1>17, <1>18, <1>20, <1>21, <1>22, <1>23, <1>24,
       <1>25, ContextWait, ReturnAnsweredWait, ContextResponseWait
    DEF Next, ReadLoop, Handler, DelayedResponse, Server, Publish

LEMMA WaitHolds ==
  ASSUME Contract, "pipeline" \notin Usage
  PROVE  Spec => [](TypeOK /\ TakeoverInv /\ WaitInv)
  <1>1. Init => TypeOK /\ TakeoverInv /\ WaitInv
    BY InitType, InitTakeover, InitWait
  <1>2. TypeOK /\ TakeoverInv /\ WaitInv /\ [Next]_vars
        => (TypeOK /\ TakeoverInv /\ WaitInv)'
    BY NextType, NextTakeover, NextWait
  <1> QED BY <1>1, <1>2, PTL DEF Spec

(***************************************************************************)
(* Under the Contract, a client that waits for each answer before its next *)
(* request leaves nothing of an answered request on the server: neither a  *)
(* context that could respond nor a write.                                 *)
(***************************************************************************)
THEOREM WaitInvHolds ==
  ASSUME Contract, "pipeline" \notin Usage
  PROVE  Spec => []WaitInv
  BY WaitHolds, PTL

(***************************************************************************)
(* Such a client gets its answers in the order of its requests, from the   *)
(* read loop and from contexts alike.                                      *)
(***************************************************************************)
THEOREM ResponseOrderHolds ==
  ASSUME Contract, "pipeline" \notin Usage
  PROVE  Spec => []ResponseOrder
  <1>1. WaitInv => ResponseOrder
    BY DEF WaitInv
  <1> QED BY <1>1, WaitInvHolds, PTL

(***************************************************************************)
(* body_ of its connection is not overwritten while a delayed response may *)
(* still refer to the arguments in it.                                     *)
(***************************************************************************)
THEOREM ArgumentsValidHolds ==
  ASSUME Contract, "pipeline" \notin Usage
  PROVE  Spec => []ArgumentsValid
  <1>1. WaitInv => ArgumentsValid
    BY DEF WaitInv
  <1> QED BY <1>1, WaitInvHolds, PTL

-----------------------------------------------------------------------------
(* Frames on the stream *)

\* A client waits for its answers and uses a connection for calls or for a
\* subscription, and one coroutine at most publishes.
OneWriter ==
    /\ "pipeline" \notin Usage /\ "mixed" \notin Usage
    /\ \A p, q \in Publisher : p = q

\* Every frame of a stream is whole, but for the last one.
Whole(w) ==
    \A i \in DOMAIN w :
        /\ w[i].part = "head" /\ i < Len(w) =>
             w[i + 1] = [frame |-> w[i].frame, part |-> "tail"]
        /\ w[i].part = "tail" =>
             i > 1 /\ w[i - 1] = [frame |-> w[i].frame, part |-> "head"]

\* The last frame of the stream of c is not finished.
Cut(c) == Len(wire[c]) > 0 /\ wire[c][Len(wire[c])].part = "head"

\* Without copies the two properties of streams are about every connection.
LEMMA StreamParts ==
  ASSUME TakeoverInv
  PROVE  /\ FramesIntact <=> \A c \in Conn : Whole(wire[c])
         /\ LastPending <=> \A c \in Conn : Cut(c) =>
              wire[c][Len(wire[c])].frame \in writes[c] \/ socket[c] # "open"
  <1>1. \A c \in Conn : NoCopies(c)
    BY DEF TakeoverInv, ContextsOwned, NoCopies
  <1>2. FramesIntact <=> \A c \in Conn : Whole(wire[c])
    BY <1>1 DEF FramesIntact, Whole
  <1>3. LastPending <=> \A c \in Conn : Cut(c) =>
          wire[c][Len(wire[c])].frame \in writes[c] \/ socket[c] # "open"
    BY <1>1 DEF LastPending, Cut
  <1> QED BY <1>2, <1>3

LEMMA StreamPartsNext ==
  ASSUME TakeoverInv'
  PROVE  /\ FramesIntact' <=> \A c \in Conn : Whole(wire'[c])
         /\ LastPending' <=> \A c \in Conn : Cut(c)' =>
              wire'[c][Len(wire'[c])].frame \in writes'[c] \/ socket'[c] # "open"
  <1>1. \A c \in Conn : NoCopies(c)'
    BY DEF TakeoverInv, ContextsOwned, NoCopies
  <1>2. FramesIntact' <=> \A c \in Conn : Whole(wire'[c])
    BY <1>1 DEF FramesIntact, Whole
  <1>3. LastPending' <=> \A c \in Conn : Cut(c)' =>
          wire'[c][Len(wire'[c])].frame \in writes'[c] \/ socket'[c] # "open"
    BY <1>1 DEF LastPending, Cut
  <1> QED BY <1>2, <1>3

LEMMA AppendFacts ==
  ASSUME NEW w \in Seq(Segment), NEW s \in Segment
  PROVE  /\ Len(w) \in Nat /\ DOMAIN w = 1 .. Len(w)
         /\ Len(Append(w, s)) = Len(w) + 1
         /\ DOMAIN Append(w, s) = 1 .. Len(w) + 1
         /\ \A i \in 1 .. Len(w) : Append(w, s)[i] = w[i]
         /\ Append(w, s)[Len(w) + 1] = s
  OBVIOUS

LEMMA LastOrBefore ==
  ASSUME NEW n \in Nat, NEW i \in 1 .. n + 1
  PROVE  i = n + 1 \/ i = n \/ i < n
  OBVIOUS

\* A frame begins where the last one is complete.
LEMMA HeadAppended ==
  ASSUME NEW w \in Seq(Segment), NEW s \in Segment, s.part = "head", Whole(w),
         ~(Len(w) > 0 /\ w[Len(w)].part = "head")
  PROVE  Whole(Append(w, s))
  <1> DEFINE v == Append(w, s)
  <1>1. /\ Len(w) \in Nat /\ DOMAIN w = 1 .. Len(w)
        /\ Len(v) = Len(w) + 1 /\ DOMAIN v = 1 .. Len(w) + 1
        /\ \A i \in 1 .. Len(w) : v[i] = w[i]
        /\ v[Len(w) + 1] = s
    BY AppendFacts
  <1> HIDE DEF v
  <1> SUFFICES ASSUME NEW i \in 1 .. Len(w) + 1
               PROVE  /\ v[i].part = "head" /\ i < Len(v) =>
                           v[i + 1] = [frame |-> v[i].frame, part |-> "tail"]
                      /\ v[i].part = "tail" =>
                           i > 1 /\ v[i - 1] = [frame |-> v[i].frame, part |-> "head"]
    BY <1>1 DEF Whole, v
  <1>2. CASE i = Len(w) + 1
    BY <1>1, <1>2
  <1>3. CASE i = Len(w)
    BY <1>1, <1>3 DEF Whole
  <1>4. CASE i < Len(w)
    <2>1. i \in DOMAIN w /\ v[i] = w[i] /\ v[i + 1] = w[i + 1]
      BY <1>1, <1>4
    <2>2. i > 1 => v[i - 1] = w[i - 1]
      BY <1>1, <1>4
    <2> QED BY <1>4, <2>1, <2>2 DEF Whole
  <1>5. i = Len(w) + 1 \/ i = Len(w) \/ i < Len(w)
    BY <1>1, LastOrBefore
  <1> QED BY <1>2, <1>3, <1>4, <1>5

\* The rest of a frame follows its first part.
LEMMA TailAppended ==
  ASSUME NEW w \in Seq(Segment), NEW f, [frame |-> f, part |-> "tail"] \in Segment,
         Whole(w), Len(w) > 0, w[Len(w)] = [frame |-> f, part |-> "head"]
  PROVE  Whole(Append(w, [frame |-> f, part |-> "tail"]))
  <1> DEFINE s == [frame |-> f, part |-> "tail"]
             v == Append(w, s)
  <1>1. /\ Len(w) \in Nat /\ DOMAIN w = 1 .. Len(w)
        /\ Len(v) = Len(w) + 1 /\ DOMAIN v = 1 .. Len(w) + 1
        /\ \A i \in 1 .. Len(w) : v[i] = w[i]
        /\ v[Len(w) + 1] = s
    BY AppendFacts
  <1>2. s.part = "tail" /\ s.frame = f /\ s.part # "head"
    OBVIOUS
  <1> HIDE DEF v
  <1> SUFFICES ASSUME NEW i \in 1 .. Len(w) + 1
               PROVE  /\ v[i].part = "head" /\ i < Len(v) =>
                           v[i + 1] = [frame |-> v[i].frame, part |-> "tail"]
                      /\ v[i].part = "tail" =>
                           i > 1 /\ v[i - 1] = [frame |-> v[i].frame, part |-> "head"]
    BY <1>1 DEF Whole, v
  <1>3. CASE i = Len(w) + 1
    BY <1>1, <1>2, <1>3
  <1>4. CASE i = Len(w)
    BY <1>1, <1>4
  <1>5. CASE i < Len(w)
    <2>1. i \in DOMAIN w /\ v[i] = w[i] /\ v[i + 1] = w[i + 1]
      BY <1>1, <1>5
    <2>2. i > 1 => v[i - 1] = w[i - 1]
      BY <1>1, <1>5
    <2> QED BY <1>5, <2>1, <2>2 DEF Whole
  <1>6. i = Len(w) + 1 \/ i = Len(w) \/ i < Len(w)
    BY <1>1, LastOrBefore
  <1> QED BY <1>3, <1>4, <1>5, <1>6

\* The stream when a write starts while no other is pending.
LEMMA StreamStart ==
  ASSUME TypeOK, TypeOK', TakeoverInv, TakeoverInv', LastPending, FramesIntact,
         NEW c \in Conn, NEW f \in Frame, StartWrite(c, f), socket' = socket,
         writes[c] = {}
  PROVE  LastPending' /\ FramesIntact'
  <1> DEFINE s == [frame |-> f, part |-> "head"]
  <1>1. s \in Segment /\ s.part = "head" /\ s.frame = f
    BY DEF Segment
  <1> HIDE DEF s
  <1>2. \A d \in Conn : d # c => wire'[d] = wire[d] /\ writes'[d] = writes[d]
    BY DEF StartWrite, TypeOK
  <1>3. f \in writes'[c]
    BY DEF StartWrite, TypeOK
  <1>4. \/ wire'[c] = wire[c] /\ socket[c] # "open"
        \/ wire'[c] = Append(wire[c], s) /\ socket[c] = "open"
    BY DEF StartWrite, TypeOK, s
  <1>5. wire[c] \in Seq(Segment)
    BY DEF TypeOK
  <1>6. /\ \A d \in Conn : Whole(wire[d])
        /\ \A d \in Conn : Cut(d) =>
              wire[d][Len(wire[d])].frame \in writes[d] \/ socket[d] # "open"
    BY StreamParts
  <1>7. \A d \in Conn : Whole(wire'[d])
    <2>1. CASE socket[c] # "open"
      BY <1>2, <1>4, <1>6, <2>1
    <2>2. CASE socket[c] = "open"
      <3>1. ~Cut(c)
        BY <1>6, <2>2
      <3>2. Whole(Append(wire[c], s))
        BY <1>1, <1>5, <1>6, <3>1, HeadAppended DEF Cut
      <3> QED BY <1>2, <1>4, <1>6, <2>2, <3>2
    <2> QED BY <2>1, <2>2
  <1>8. \A d \in Conn : Cut(d)' =>
          wire'[d][Len(wire'[d])].frame \in writes'[d] \/ socket'[d] # "open"
    <2>1. ASSUME NEW d \in Conn, d # c, Cut(d)'
          PROVE  wire'[d][Len(wire'[d])].frame \in writes'[d] \/ socket'[d] # "open"
      BY <1>2, <1>6, <2>1 DEF Cut
    <2>2. CASE socket[c] # "open"
      BY <2>1, <2>2
    <2>3. CASE socket[c] = "open"
      <3>1. wire'[c][Len(wire'[c])] = s
        BY <1>1, <1>4, <1>5, <2>3, AppendFacts
      <3> QED BY <1>1, <1>3, <2>1, <3>1
    <2> QED BY <2>2, <2>3
  <1> QED BY <1>7, <1>8, StreamPartsNext

\* The stream when a pending write is over: its frame is the last one.
LEMMA StreamDone ==
  ASSUME TypeOK, TypeOK', TakeoverInv, TakeoverInv', WaitInv, FramesInv,
         NEW c \in Conn, NEW f, WriteDone(c, f), socket' = socket
  PROVE  LastPending' /\ FramesIntact'
  <1> DEFINE s == [frame |-> f, part |-> "tail"]
             w == wire[c]
  <1>1. /\ f \in Frame /\ f \in writes[c] /\ s \in Segment
        /\ w \in Seq(Segment) /\ Len(w) \in Nat /\ DOMAIN w = 1 .. Len(w)
    BY DEF WriteDone, TypeOK, Segment
  <1>2. wire'[c] = Append(w, s) /\ \A d \in Conn : d # c =>
          wire'[d] = wire[d] /\ writes'[d] = writes[d]
    BY DEF WriteDone, TypeOK
  <1>3. /\ \A d \in Conn : Whole(wire[d])
        /\ \A d \in Conn : Cut(d) =>
              wire[d][Len(wire[d])].frame \in writes[d] \/ socket[d] # "open"
    BY StreamParts DEF FramesInv
  <1>4. PICK i \in DOMAIN w : w[i] = [frame |-> f, part |-> "head"]
    BY DEF WriteDone
  <1>5. ASSUME NEW j \in DOMAIN w, w[j] = s PROVE FALSE
    <2>1. w[j].frame = f /\ w[j].part = "tail"
      BY <1>5
    <2>2. CASE f.by = "pub"
      BY <1>1, <2>1, <2>2 DEF FramesInv, PubFresh
    <2>3. CASE f.by # "pub"
      BY <1>1, <2>1, <2>3 DEF WaitInv, WritesOwned, IsTail
    <2> QED BY <2>2, <2>3
  <1>6. i = Len(w)
    <2>1. w[i].part = "head" /\ w[i].frame = f
      BY <1>4
    <2>2. ASSUME i < Len(w) PROVE w[i + 1] = s /\ i + 1 \in DOMAIN w
      <3>1. Whole(w)
        BY <1>3
      <3>2. i + 1 \in DOMAIN w
        BY <1>1, <2>2
      <3> QED BY <2>1, <2>2, <3>1, <3>2 DEF Whole
    <2>3. ~(i < Len(w)) /\ i \in 1 .. Len(w)
      BY <1>1, <1>5, <2>2
    <2> QED BY <1>1, <2>3
  <1>7. \A d \in Conn : Whole(wire'[d])
    <2>1. Len(w) > 0
      BY <1>1, <1>6
    <2>2. Whole(Append(w, s))
      BY <1>1, <1>3, <1>4, <1>6, <2>1, TailAppended
    <2> QED BY <1>2, <1>3, <2>2
  <1>8. \A d \in Conn : Cut(d)' =>
          wire'[d][Len(wire'[d])].frame \in writes'[d] \/ socket'[d] # "open"
    <2>1. ASSUME NEW d \in Conn, d # c, Cut(d)'
          PROVE  wire'[d][Len(wire'[d])].frame \in writes'[d] \/ socket'[d] # "open"
      BY <1>2, <1>3, <2>1 DEF Cut
    <2>2. wire'[c][Len(wire'[c])] = s /\ s.part = "tail"
      BY <1>1, <1>2, AppendFacts
    <2>3. ~Cut(c)'
      BY <2>2 DEF Cut
    <2> QED BY <2>1, <2>3
  <1> QED BY <1>7, <1>8, StreamPartsNext

\* The stream when nothing is put on it.
LEMMA StreamQuiet ==
  ASSUME TypeOK, TypeOK', TakeoverInv, TakeoverInv', LastPending, FramesIntact,
         wire' = wire,
         \A d \in Conn : socket'[d] = "open" =>
            socket[d] = "open" /\ writes[d] \subseteq writes'[d]
  PROVE  LastPending' /\ FramesIntact'
  <1>1. \A d \in Conn : Whole(wire'[d])
    BY StreamParts
  <1>2. \A d \in Conn : Cut(d)' =>
          wire'[d][Len(wire'[d])].frame \in writes'[d] \/ socket'[d] # "open"
    <2>1. \A d \in Conn : Cut(d) =>
            wire[d][Len(wire[d])].frame \in writes[d] \/ socket[d] # "open"
      BY StreamParts
    <2> QED BY <2>1 DEF Cut
  <1> QED BY <1>1, <1>2, StreamPartsNext

\* What a connection is used for does not change.
LEMMA NextUse ==
  ASSUME OneWriter, TypeOK, TypeOK', OneUse, [Next]_vars
  PROVE  OneUse'
  <1>q. ASSUME UNCHANGED topic_id,
               \A d \in Conn :
                  \/ topic_id[d] = NoTopic
                  \/ /\ req'[d] = req[d]
                     /\ pc'[d] \in {pc[d], "header", "ended", "protocol_error"}
        PROVE  OneUse'
    BY <1>q DEF OneUse
  <1>1. ASSUME NEW c \in Conn, HeaderError(c) \/ HeaderBadMagic(c) \/ BodyError(c)
                 \/ ReturnDelayed(c) \/ ThrowDelayed(c) \/ LoopWriteDone(c) \/ LoopWriteFail(c)
        PROVE  OneUse'
    <2>1. UNCHANGED <<topic_id, req>> /\ \E t \in {"header", "ended", "protocol_error"} :
            pc' = [pc EXCEPT ![c] = t]
      BY <1>1 DEF HeaderError, HeaderBadMagic, BodyError, ReturnDelayed, ThrowDelayed,
                  LoopWriteDone, LoopWriteFail, NextHeader
    <2> QED BY <1>q, <2>1 DEF TypeOK
  <1>2. ASSUME NEW c \in Conn, HeaderCall(c) \/ HeaderEmptyCall(c) \/ BodyRead(c)
                 \/ ReturnAnswered(c) \/ Suspend(c) \/ Resume(c)
        PROVE  OneUse'
    <2>1. pc[c] = "header" => topic_id[c] = NoTopic
      BY <1>2 DEF HeaderCall, HeaderEmptyCall, BodyRead, ReturnAnswered, Leave, Suspend,
                  Resume, MayRequest, OneWriter
    <2>2. pc[c] \in {"header", "body", "handler", "suspended"}
      BY <1>2 DEF HeaderCall, HeaderEmptyCall, BodyRead, ReturnAnswered, Leave, Suspend,
                  Resume, MayRequest, HeaderRead
    <2>3. topic_id[c] = NoTopic
      BY <2>1, <2>2 DEF OneUse
    <2>4. UNCHANGED topic_id /\ \A d \in Conn : d # c => pc'[d] = pc[d] /\ req'[d] = req[d]
      BY <1>2 DEF HeaderCall, HeaderEmptyCall, BodyRead, Dispatch, ReturnAnswered, Suspend,
                  Resume, TypeOK
    <2> QED BY <1>q, <2>3, <2>4
  <1>3. ASSUME NEW c \in Conn, NEW topic \in Topic, HeaderSubscribe(c, topic)
        PROVE  OneUse'
    BY <1>3 DEF HeaderSubscribe, HeaderRead, NextHeader, OneWriter, OneUse, TypeOK
  <1>4. ASSUME UNCHANGED <<pc, req, topic_id>>
        PROVE  OneUse'
    BY <1>4, <1>q
  <1>5. ASSUME NEW c \in Conn, NewContext(c) \/ ForeignContext(c)
        PROVE  OneUse'
    BY <1>4, <1>5 DEF NewContext, ForeignContext
  <1>6. ASSUME DelayedResponse
        PROVE  OneUse'
    BY <1>4, <1>6 DEF DelayedResponse, CopyContext, ContextResponse, CtxWriteDone, CtxWriteFail
  <1>7. ASSUME Server
        PROVE  OneUse'
    BY <1>4, <1>7 DEF Server, PostedClose, Expire, StopServer
  <1>8. ASSUME NEW p \in Publisher, Publish(p)
        PROVE  OneUse'
    BY <1>4, <1>8 DEF Publish, PublishBegin, PublishSkip, PublishSend, PubWriteDone,
                      PubWriteFail, PublishEnd
  <1>9. CASE UNCHANGED vars
    BY <1>4, <1>9 DEF vars
  <1> QED BY <1>1, <1>2, <1>3, <1>5, <1>6, <1>7, <1>8, <1>9 DEF Next, ReadLoop, Handler

\* Steps that are not a publisher's.
LEMMA PubQuiet ==
  ASSUME TypeOK, TypeOK', PubAwaited, PubFresh, UNCHANGED pubVars,
         \A d \in Conn : topic_id[d] # NoTopic => topic_id'[d] # NoTopic,
         \A d \in Conn : \A g \in writes'[d] : g.by = "pub" => g \in writes[d],
         \A d \in Conn : \A i \in DOMAIN wire'[d] : wire'[d][i].frame.by = "pub" =>
            i \in DOMAIN wire[d] /\ wire'[d][i] = wire[d][i]
  PROVE  PubAwaited' /\ PubFresh'
  <1>1. PubAwaited'
    <2>1. \A p \in Publisher : pub_busy[p] # NoConn => pub_busy[p] \in Conn
      BY DEF TypeOK, PubTypeOK
    <2> QED BY <2>1 DEF PubAwaited, PubFrame
  <1>2. PubFresh'
    BY DEF PubFresh
  <1> QED BY <1>1, <1>2

\* A pending publication is the one its publisher waits for.
LEMMA PubPending ==
  ASSUME PubAwaited, NEW c \in Conn, NEW f \in writes[c], f.by = "pub"
  PROVE  \E p \in Publisher : pub_busy[p] = c /\ f = PubFrame(p)
  BY DEF PubAwaited

LEMMA PubBeginStep ==
  ASSUME TypeOK, TypeOK', PubAwaited, PubFresh, NEW p \in Publisher,
         NEW topic \in Topic, PublishBegin(p, topic)
  PROVE  PubAwaited' /\ PubFresh'
  <1>1. /\ UNCHANGED <<writes, wire, topic_id, pub_busy>>
        /\ pub_busy[p] = NoConn /\ pub_topic[p] = NoTopic
        /\ pub_topic' = [pub_topic EXCEPT ![p] = topic] /\ topic # NoTopic
        /\ pub_todo' = [pub_todo EXCEPT ![p] = conns]
        /\ published' = [published EXCEPT ![p] = @ + 1]
    BY ConstantsAssumption DEF PublishBegin, PubAwaited
  <1>2. \A q \in Publisher : q # p => /\ PubFrame(q)' = PubFrame(q)
                                      /\ pub_topic'[q] = pub_topic[q]
                                      /\ pub_todo'[q] = pub_todo[q]
                                      /\ published'[q] = published[q]
    BY <1>1 DEF PubFrame, TypeOK, PubTypeOK
  <1>3. pub_topic'[p] # NoTopic /\ published'[p] = published[p] + 1 /\ published[p] \in Nat
    BY <1>1 DEF TypeOK, PubTypeOK
  <1>4. PubAwaited'
    <2>1. \A q \in Publisher :
            /\ pub_todo'[q] # {} => pub_topic'[q] # NoTopic
            /\ pub_busy'[q] # NoConn =>
                 pub_topic'[q] # NoTopic /\ topic_id'[pub_busy'[q]] # NoTopic
      BY <1>1, <1>2, <1>3 DEF PubAwaited
    <2>2. \A c \in Conn : \A f \in writes[c] : f.by = "pub" =>
            \E q \in Publisher : pub_busy[q] = c /\ f = PubFrame(q)'
      <3> SUFFICES ASSUME NEW c \in Conn, NEW f \in writes[c], f.by = "pub"
                   PROVE  \E q \in Publisher : pub_busy[q] = c /\ f = PubFrame(q)'
        OBVIOUS
      <3>1. PICK q \in Publisher : pub_busy[q] = c /\ f = PubFrame(q)
        BY PubPending
      <3>2. q # p
        BY <1>1, <3>1, ConstantsAssumption
      <3> QED BY <1>2, <3>1, <3>2
    <2> QED BY <1>1, <2>1, <2>2 DEF PubAwaited
  <1>5. PubFresh'
    <2> SUFFICES ASSUME NEW c \in Conn, NEW i \in DOMAIN wire[c], NEW f, NEW q,
                        f = wire[c][i].frame, q = f.owner[1], f.by = "pub"
                 PROVE  /\ f.owner[2] <= published'[q]
                        /\ c \in pub_todo'[q] => f.owner[2] < published'[q]
                        /\ wire[c][i].part = "tail" => f \notin writes[c]
      BY <1>1 DEF PubFresh
    <2>1. q \in Publisher /\ f.owner[2] \in Nat
      BY SegmentType DEF Frame
    <2>2. /\ f.owner[2] <= published[q]
          /\ c \in pub_todo[q] => f.owner[2] < published[q]
          /\ wire[c][i].part = "tail" => f \notin writes[c]
      BY DEF PubFresh
    <2>3. CASE q = p
      BY <1>3, <2>1, <2>2, <2>3
    <2>4. CASE q # p
      BY <1>2, <2>1, <2>2, <2>4
    <2> QED BY <2>3, <2>4
  <1> QED BY <1>4, <1>5

\* A connection is passed over, or publish() is over.
LEMMA PubPassStep ==
  ASSUME TypeOK, TypeOK', PubAwaited, PubFresh, NEW p \in Publisher,
         (\E c \in Conn : PublishSkip(p, c)) \/ PublishEnd(p)
  PROVE  PubAwaited' /\ PubFresh'
  <1>1. /\ UNCHANGED <<writes, wire, topic_id, pub_busy, published>>
        /\ \A q \in Publisher : pub_todo'[q] \subseteq pub_todo[q]
        /\ \A q \in Publisher : pub_topic'[q] = NoTopic =>
             pub_topic[q] = NoTopic \/ (pub_todo[q] = {} /\ pub_busy[q] = NoConn)
    <2>1. CASE \E c \in Conn : PublishSkip(p, c)
      BY <2>1 DEF PublishSkip, Visit, TypeOK, PubTypeOK
    <2>2. CASE PublishEnd(p)
      BY <2>2 DEF PublishEnd, Awaited, TypeOK, PubTypeOK
    <2> QED BY <2>1, <2>2
  <1>2. PubAwaited'
    BY <1>1 DEF PubAwaited, PubFrame
  <1>3. PubFresh'
    <2>1. \A c \in Conn : \A i \in DOMAIN wire[c] :
            wire[c][i].frame.by = "pub" => wire[c][i].frame.owner[1] \in Publisher
      BY SegmentType DEF Frame
    <2> QED BY <1>1, <2>1 DEF PubFresh
  <1> QED BY <1>2, <1>3

LEMMA PubSendStep ==
  ASSUME TypeOK, TypeOK', PubAwaited, PubFresh, NEW p \in Publisher,
         NEW c \in Conn, PublishSend(p, c)
  PROVE  PubAwaited' /\ PubFresh'
  <1> DEFINE f == PubFrame(p)
  <1>1. /\ UNCHANGED <<topic_id, pub_topic, published>>
        /\ pub_busy[p] = NoConn /\ pub_busy' = [pub_busy EXCEPT ![p] = c]
        /\ c \in pub_todo[p] /\ pub_todo' = [pub_todo EXCEPT ![p] = @ \ {c}]
        /\ topic_id[c] = pub_topic[p] /\ StartWrite(c, f)
    BY DEF PublishSend, Visit, Awaited
  <1>2. \A q \in Publisher : PubFrame(q)' = PubFrame(q)
    BY <1>1 DEF PubFrame
  <1>3. /\ f \in Frame /\ f.by = "pub" /\ f.owner = <<p, published[p]>>
        /\ published[p] \in Nat
    BY DEF PubFrame, Frame, TypeOK, PubTypeOK
  <1> HIDE DEF f
  <1>4. wire' = wire \/ Appended(c, [frame |-> f, part |-> "head"])
    BY <1>1, <1>3, HeadWritten
  <1>5. /\ pub_busy'[p] = c /\ pub_todo'[p] = pub_todo[p] \ {c}
        /\ \A q \in Publisher : q # p => pub_busy'[q] = pub_busy[q] /\ pub_todo'[q] = pub_todo[q]
        /\ writes'[c] = writes[c] \cup {f}
        /\ \A d \in Conn : d # c => writes'[d] = writes[d]
    BY <1>1 DEF StartWrite, TypeOK, PubTypeOK
  <1>6. PubAwaited'
    <2>1. pub_topic[p] # NoTopic
      BY <1>1 DEF PubAwaited
    <2>2. \A q \in Publisher :
            /\ pub_todo'[q] # {} => pub_topic'[q] # NoTopic
            /\ pub_busy'[q] # NoConn =>
                 pub_topic'[q] # NoTopic /\ topic_id'[pub_busy'[q]] # NoTopic
      BY <1>1, <1>5, <2>1 DEF PubAwaited
    <2>3. ASSUME NEW d \in Conn, NEW g \in writes'[d], g.by = "pub"
          PROVE  \E q \in Publisher : pub_busy'[q] = d /\ g = PubFrame(q)
      <3>1. CASE g \in writes[d]
        <4>1. PICK q \in Publisher : pub_busy[q] = d /\ g = PubFrame(q)
          BY <2>3, <3>1, PubPending
        <4>2. q # p
          BY <1>1, <4>1, ConstantsAssumption
        <4> QED BY <1>5, <4>1, <4>2
      <3>2. CASE g \notin writes[d]
        BY <1>5, <3>2 DEF f
      <3> QED BY <3>1, <3>2
    <2> QED BY <1>2, <2>2, <2>3 DEF PubAwaited
  <1>7. PubFresh'
    <2> SUFFICES ASSUME NEW d \in Conn, NEW i \in DOMAIN wire'[d], NEW g, NEW q,
                        g = wire'[d][i].frame, q = g.owner[1], g.by = "pub"
                 PROVE  /\ g.owner[2] <= published[q]
                        /\ d \in pub_todo'[q] => g.owner[2] < published[q]
                        /\ wire'[d][i].part = "tail" => g \notin writes'[d]
      BY <1>1 DEF PubFresh
    <2>1. CASE i \in DOMAIN wire[d]
      <3>1. wire'[d][i] = wire[d][i]
        BY <1>4, <2>1 DEF Appended
      <3>2. q \in Publisher
        BY <2>1, <3>1, SegmentType DEF Frame
      <3>3. /\ g.owner[2] <= published[q]
            /\ d \in pub_todo[q] => g.owner[2] < published[q]
            /\ wire'[d][i].part = "tail" => g \notin writes[d]
        BY <2>1, <3>1 DEF PubFresh
      <3>4. d = c => g # f
        <4> SUFFICES ASSUME d = c, g = f PROVE FALSE
          OBVIOUS
        <4>1. q = p /\ g.owner[2] = published[p]
          BY <1>3
        <4> QED BY <1>1, <1>3, <3>3, <4>1
      <3> QED BY <1>5, <3>2, <3>3, <3>4
    <2>2. CASE i \notin DOMAIN wire[d]
      <3>1. d = c /\ g = f /\ wire'[d][i].part = "head"
        BY <1>4, <2>2 DEF Appended
      <3> QED BY <1>3, <1>5, <3>1
    <2> QED BY <2>1, <2>2
  <1> QED BY <1>6, <1>7

\* The write that a publisher waits for is over.
LEMMA PubOverStep ==
  ASSUME TypeOK, TypeOK', PubAwaited, PubFresh, NEW p \in Publisher,
         NEW c \in Conn, PubWriteDone(p, c) \/ PubWriteFail(p, c)
  PROVE  PubAwaited' /\ PubFresh'
  <1> DEFINE f == PubFrame(p)
  <1>1. /\ UNCHANGED <<topic_id, pub_topic, pub_todo, published>>
        /\ pub_busy[p] = c /\ pub_busy' = [pub_busy EXCEPT ![p] = NoConn]
        /\ WriteDone(c, f) \/ WriteFail(c, f)
    BY DEF PubWriteDone, PubWriteFail
  <1>2. \A q \in Publisher : PubFrame(q)' = PubFrame(q)
    BY <1>1 DEF PubFrame
  <1>3. f \in Frame /\ f.by = "pub" /\ f \in writes[c] /\ [frame |-> f, part |-> "tail"] \in Segment
    BY <1>1 DEF WriteDone, WriteFail, TypeOK, Segment, PubFrame
  <1> HIDE DEF f
  <1>4. \/ wire' = wire
        \/ /\ Appended(c, [frame |-> f, part |-> "tail"])
           /\ \E i \in DOMAIN wire[c] : wire[c][i] = [frame |-> f, part |-> "head"]
    BY <1>1, <1>3, AppendAppended DEF WriteDone, WriteFail
  <1>5. /\ pub_busy'[p] = NoConn
        /\ \A q \in Publisher : q # p => pub_busy'[q] = pub_busy[q]
        /\ writes'[c] = writes[c] \ {f}
        /\ \A d \in Conn : d # c => writes'[d] = writes[d]
    BY <1>1 DEF WriteDone, WriteFail, TypeOK, PubTypeOK
  <1>6. PubAwaited'
    <2>1. \A q \in Publisher :
            /\ pub_todo'[q] # {} => pub_topic'[q] # NoTopic
            /\ pub_busy'[q] # NoConn =>
                 pub_topic'[q] # NoTopic /\ topic_id'[pub_busy'[q]] # NoTopic
      BY <1>1, <1>5 DEF PubAwaited
    <2>2. ASSUME NEW d \in Conn, NEW g \in writes'[d], g.by = "pub"
          PROVE  \E q \in Publisher : pub_busy'[q] = d /\ g = PubFrame(q)
      <3>1. g \in writes[d] /\ (d = c => g # f)
        BY <1>5
      <3>2. PICK q \in Publisher : pub_busy[q] = d /\ g = PubFrame(q)
        BY <2>2, <3>1, PubPending
      <3>3. q # p
        BY <1>1, <3>1, <3>2 DEF f
      <3> QED BY <1>5, <3>2, <3>3
    <2> QED BY <1>2, <2>1, <2>2 DEF PubAwaited
  <1>7. PubFresh'
    <2> SUFFICES ASSUME NEW d \in Conn, NEW i \in DOMAIN wire'[d], NEW g,
                        g = wire'[d][i].frame, g.by = "pub"
                 PROVE  /\ g.owner[2] <= published[g.owner[1]]
                        /\ d \in pub_todo[g.owner[1]] => g.owner[2] < published[g.owner[1]]
                        /\ wire'[d][i].part = "tail" => g \notin writes'[d]
      BY <1>1 DEF PubFresh
    <2>1. CASE i \in DOMAIN wire[d]
      <3>1. wire'[d][i] = wire[d][i]
        BY <1>4, <2>1 DEF Appended
      <3> QED BY <1>5, <2>1, <3>1 DEF PubFresh
    <2>2. CASE i \notin DOMAIN wire[d]
      <3>1. d = c /\ g = f
        BY <1>4, <2>2 DEF Appended
      <3>2. \E j \in DOMAIN wire[c] : wire[c][j].frame = f
        BY <1>4, <2>2
      <3> QED BY <1>3, <1>5, <3>1, <3>2 DEF PubFresh
    <2> QED BY <2>1, <2>2
  <1> QED BY <1>6, <1>7

LEMMA InitFrames == Init => FramesInv
  BY DEF Init, FramesInv, OneUse, PubAwaited, PubFresh, LastPending, FramesIntact

\* Steps that put nothing on a stream and are not a publisher's.
LEMMA QuietFrames ==
  ASSUME TypeOK, TypeOK', TakeoverInv, TakeoverInv', FramesInv,
         wire' = wire, UNCHANGED pubVars,
         \A d \in Conn : topic_id[d] # NoTopic => topic_id'[d] # NoTopic,
         \A d \in Conn : writes'[d] \subseteq writes[d],
         \A d \in Conn : socket'[d] = "open" =>
            socket[d] = "open" /\ writes'[d] = writes[d]
  PROVE  PubAwaited' /\ PubFresh' /\ LastPending' /\ FramesIntact'
  <1>1. LastPending' /\ FramesIntact'
    BY StreamQuiet DEF FramesInv
  <1>2. PubAwaited' /\ PubFresh'
    BY PubQuiet DEF FramesInv
  <1> QED BY <1>1, <1>2

\* The loop or a context begins its answer while nothing else is written.
LEMMA AnswerFrames ==
  ASSUME TypeOK, TypeOK', TakeoverInv, TakeoverInv', FramesInv,
         NEW c \in Conn, NEW f \in Frame, f.by # "pub", StartWrite(c, f),
         UNCHANGED <<pubVars, topic_id, socket>>,
         req[c] > 0, \A g \in writes[c] : g.by = "pub"
  PROVE  PubAwaited' /\ PubFresh' /\ LastPending' /\ FramesIntact'
  <1>1. writes[c] = {}
    <2> SUFFICES ASSUME NEW g \in writes[c] PROVE FALSE
      OBVIOUS
    <2>1. topic_id[c] # NoTopic
      BY PubPending, ConstantsAssumption DEF FramesInv, PubAwaited
    <2> QED BY <2>1 DEF FramesInv, OneUse
  <1>2. LastPending' /\ FramesIntact'
    BY <1>1, StreamStart DEF FramesInv
  <1>3. wire' = wire \/ Appended(c, [frame |-> f, part |-> "head"])
    BY HeadWritten
  <1>4. \A d \in Conn : \A i \in DOMAIN wire'[d] : wire'[d][i].frame.by = "pub" =>
            i \in DOMAIN wire[d] /\ wire'[d][i] = wire[d][i]
    BY <1>3 DEF Appended
  <1>5. \A d \in Conn : \A g \in writes'[d] : g.by = "pub" => g \in writes[d]
    BY DEF StartWrite, TypeOK
  <1>6. PubAwaited' /\ PubFresh'
    BY <1>4, <1>5, PubQuiet DEF FramesInv
  <1> QED BY <1>2, <1>6

\* The write of an answer is over.
LEMMA DoneFrames ==
  ASSUME TypeOK, TypeOK', TakeoverInv, TakeoverInv', WaitInv, FramesInv,
         NEW c \in Conn, NEW f, f.by # "pub", WriteDone(c, f),
         UNCHANGED <<pubVars, topic_id, socket>>
  PROVE  PubAwaited' /\ PubFresh' /\ LastPending' /\ FramesIntact'
  <1>1. LastPending' /\ FramesIntact'
    BY StreamDone
  <1>2. [frame |-> f, part |-> "tail"] \in Segment
    BY DEF WriteDone, TypeOK, Segment
  <1>3. Appended(c, [frame |-> f, part |-> "tail"])
    BY <1>2, AppendAppended DEF WriteDone
  <1>4. \A d \in Conn : \A i \in DOMAIN wire'[d] : wire'[d][i].frame.by = "pub" =>
            i \in DOMAIN wire[d] /\ wire'[d][i] = wire[d][i]
    BY <1>3 DEF Appended
  <1>5. \A d \in Conn : \A g \in writes'[d] : g.by = "pub" => g \in writes[d]
    BY DEF WriteDone, TypeOK
  <1>6. PubAwaited' /\ PubFresh'
    BY <1>4, <1>5, PubQuiet DEF FramesInv
  <1> QED BY <1>1, <1>6

\* When publish() writes to a subscriber, nothing else is written to it.
LEMMA PublisherAlone ==
  ASSUME OneWriter, TypeOK, TakeoverInv, WaitInv, FramesInv,
         NEW p \in Publisher, NEW c \in Conn, PublishSend(p, c)
  PROVE  writes[c] = {}
  <1> SUFFICES ASSUME NEW g \in writes[c] PROVE FALSE
    OBVIOUS
  <1>1. topic_id[c] # NoTopic /\ pub_busy[p] = NoConn
    BY DEF PublishSend, Visit, Awaited, FramesInv, PubAwaited
  <1>2. req[c] = 0 /\ pc[c] # "write"
    BY <1>1 DEF FramesInv, OneUse
  <1>3. g.by # "loop"
    BY <1>2 DEF WaitInv, WritesOwned
  <1>4. g.by # "ctx"
    BY <1>2, PendingContext, OwnContext
  <1>5. g.by # "pub"
    BY <1>1, PubPending, ConstantsAssumption DEF OneWriter, FramesInv
  <1> QED BY <1>3, <1>4, <1>5, WriterOf

LEMMA NextFrames ==
  ASSUME Contract, OneWriter, TypeOK, TypeOK', TakeoverInv, TakeoverInv', WaitInv,
         FramesInv, [Next]_vars
  PROVE  FramesInv'
  <1> DEFINE Goal == PubAwaited' /\ PubFresh' /\ LastPending' /\ FramesIntact'
  <1> USE ConstantsAssumption
  <1>1. ASSUME NEW c \in Conn, HeaderError(c)
        PROVE  Goal
    <2>1. wire' = wire /\ UNCHANGED pubVars
      BY <1>1 DEF HeaderError, CloseHere
    <2>2. /\ \A e \in Conn : topic_id[e] # NoTopic => topic_id'[e] # NoTopic
          /\ \A e \in Conn : writes'[e] \subseteq writes[e]
          /\ \A e \in Conn : socket'[e] = "open" =>
                socket[e] = "open" /\ writes'[e] = writes[e]
      BY <1>1 DEF HeaderError, CloseHere, TypeOK
    <2> QED BY <2>1, <2>2, QuietFrames
  <1>2. ASSUME NEW c \in Conn, HeaderBadMagic(c)
        PROVE  Goal
    <2>1. wire' = wire /\ UNCHANGED pubVars
      BY <1>2 DEF HeaderBadMagic
    <2>2. /\ \A e \in Conn : topic_id[e] # NoTopic => topic_id'[e] # NoTopic
          /\ \A e \in Conn : writes'[e] \subseteq writes[e]
          /\ \A e \in Conn : socket'[e] = "open" =>
                socket[e] = "open" /\ writes'[e] = writes[e]
      BY <1>2 DEF HeaderBadMagic, TypeOK
    <2> QED BY <2>1, <2>2, QuietFrames
  <1>3. ASSUME NEW c \in Conn, NEW topic \in Topic, HeaderSubscribe(c, topic)
        PROVE  Goal
    <2>1. wire' = wire /\ UNCHANGED pubVars
      BY <1>3 DEF HeaderSubscribe
    <2>2. /\ \A e \in Conn : topic_id[e] # NoTopic => topic_id'[e] # NoTopic
          /\ \A e \in Conn : writes'[e] \subseteq writes[e]
          /\ \A e \in Conn : socket'[e] = "open" =>
                socket[e] = "open" /\ writes'[e] = writes[e]
      BY <1>3 DEF HeaderSubscribe, TypeOK
    <2> QED BY <2>1, <2>2, QuietFrames
  <1>4. ASSUME NEW c \in Conn, HeaderCall(c)
        PROVE  Goal
    <2>1. wire' = wire /\ UNCHANGED pubVars
      BY <1>4 DEF HeaderCall
    <2>2. /\ \A e \in Conn : topic_id[e] # NoTopic => topic_id'[e] # NoTopic
          /\ \A e \in Conn : writes'[e] \subseteq writes[e]
          /\ \A e \in Conn : socket'[e] = "open" =>
                socket[e] = "open" /\ writes'[e] = writes[e]
      BY <1>4 DEF HeaderCall, TypeOK
    <2> QED BY <2>1, <2>2, QuietFrames
  <1>5. ASSUME NEW c \in Conn, HeaderEmptyCall(c) \/ BodyRead(c)
        PROVE  Goal
    <2>1. wire' = wire /\ UNCHANGED pubVars
      BY <1>5 DEF HeaderEmptyCall, BodyRead, Dispatch
    <2>2. /\ \A e \in Conn : topic_id[e] # NoTopic => topic_id'[e] # NoTopic
          /\ \A e \in Conn : writes'[e] \subseteq writes[e]
          /\ \A e \in Conn : socket'[e] = "open" =>
                socket[e] = "open" /\ writes'[e] = writes[e]
      BY <1>5 DEF HeaderEmptyCall, BodyRead, Dispatch, TypeOK
    <2> QED BY <2>1, <2>2, QuietFrames
  <1>6. ASSUME NEW c \in Conn, BodyError(c)
        PROVE  Goal
    <2>1. wire' = wire /\ UNCHANGED pubVars
      BY <1>6 DEF BodyError, CloseHere
    <2>2. /\ \A e \in Conn : topic_id[e] # NoTopic => topic_id'[e] # NoTopic
          /\ \A e \in Conn : writes'[e] \subseteq writes[e]
          /\ \A e \in Conn : socket'[e] = "open" =>
                socket[e] = "open" /\ writes'[e] = writes[e]
      BY <1>6 DEF BodyError, CloseHere, TypeOK
    <2> QED BY <2>1, <2>2, QuietFrames
  <1>7. ASSUME NEW c \in Conn, ReturnDelayed(c)
        PROVE  Goal
    <2>1. wire' = wire /\ UNCHANGED pubVars
      BY <1>7 DEF ReturnDelayed
    <2>2. /\ \A e \in Conn : topic_id[e] # NoTopic => topic_id'[e] # NoTopic
          /\ \A e \in Conn : writes'[e] \subseteq writes[e]
          /\ \A e \in Conn : socket'[e] = "open" =>
                socket[e] = "open" /\ writes'[e] = writes[e]
      BY <1>7 DEF ReturnDelayed, TypeOK
    <2> QED BY <2>1, <2>2, QuietFrames
  <1>8. ASSUME NEW c \in Conn, LoopWriteFail(c)
        PROVE  Goal
    <2>1. wire' = wire /\ UNCHANGED pubVars
      BY <1>8 DEF LoopWriteFail, WriteFail, CloseHere
    <2>2. /\ \A e \in Conn : topic_id[e] # NoTopic => topic_id'[e] # NoTopic
          /\ \A e \in Conn : writes'[e] \subseteq writes[e]
          /\ \A e \in Conn : socket'[e] = "open" =>
                socket[e] = "open" /\ writes'[e] = writes[e]
      BY <1>8 DEF LoopWriteFail, WriteFail, CloseHere, TypeOK
    <2> QED BY <2>1, <2>2, QuietFrames
  <1>9. ASSUME NEW c \in Conn, Suspend(c) \/ Resume(c)
        PROVE  Goal
    <2>1. wire' = wire /\ UNCHANGED pubVars
      BY <1>9 DEF Suspend, Resume
    <2>2. /\ \A e \in Conn : topic_id[e] # NoTopic => topic_id'[e] # NoTopic
          /\ \A e \in Conn : writes'[e] \subseteq writes[e]
          /\ \A e \in Conn : socket'[e] = "open" =>
                socket[e] = "open" /\ writes'[e] = writes[e]
      BY <1>9 DEF Suspend, Resume, TypeOK
    <2> QED BY <2>1, <2>2, QuietFrames
  <1>10. ASSUME NEW c \in Conn, NewContext(c) \/ ForeignContext(c)
        PROVE  Goal
    <2>1. wire' = wire /\ UNCHANGED pubVars
      BY <1>10 DEF NewContext, ForeignContext
    <2>2. /\ \A e \in Conn : topic_id[e] # NoTopic => topic_id'[e] # NoTopic
          /\ \A e \in Conn : writes'[e] \subseteq writes[e]
          /\ \A e \in Conn : socket'[e] = "open" =>
                socket[e] = "open" /\ writes'[e] = writes[e]
      BY <1>10 DEF NewContext, ForeignContext, TypeOK
    <2> QED BY <2>1, <2>2, QuietFrames
  <1>11. ASSUME NEW c \in Conn, NEW f \in writes[c], CtxWriteFail(c, f)
        PROVE  Goal
    <2>1. wire' = wire /\ UNCHANGED pubVars
      BY <1>11 DEF CtxWriteFail, WriteFail, Break
    <2>2. /\ \A e \in Conn : topic_id[e] # NoTopic => topic_id'[e] # NoTopic
          /\ \A e \in Conn : writes'[e] \subseteq writes[e]
          /\ \A e \in Conn : socket'[e] = "open" =>
                socket[e] = "open" /\ writes'[e] = writes[e]
      BY <1>11 DEF CtxWriteFail, WriteFail, Break, TypeOK
    <2> QED BY <2>1, <2>2, QuietFrames
  <1>12. ASSUME NEW c \in Conn, NEW need_cb \in BOOLEAN, PostedClose(c, need_cb)
        PROVE  Goal
    <2>1. wire' = wire /\ UNCHANGED pubVars
      BY <1>12 DEF PostedClose
    <2>2. /\ \A e \in Conn : topic_id[e] # NoTopic => topic_id'[e] # NoTopic
          /\ \A e \in Conn : writes'[e] \subseteq writes[e]
          /\ \A e \in Conn : socket'[e] = "open" =>
                socket[e] = "open" /\ writes'[e] = writes[e]
      BY <1>12 DEF PostedClose, TypeOK
    <2> QED BY <2>1, <2>2, QuietFrames
  <1>13. ASSUME NEW c \in Conn, Expire(c)
        PROVE  Goal
    <2>1. wire' = wire /\ UNCHANGED pubVars
      BY <1>13 DEF Expire
    <2>2. /\ \A e \in Conn : topic_id[e] # NoTopic => topic_id'[e] # NoTopic
          /\ \A e \in Conn : writes'[e] \subseteq writes[e]
          /\ \A e \in Conn : socket'[e] = "open" =>
                socket[e] = "open" /\ writes'[e] = writes[e]
      BY <1>13 DEF Expire, TypeOK
    <2> QED BY <2>1, <2>2, QuietFrames
  <1>14. ASSUME StopServer
        PROVE  Goal
    <2>1. wire' = wire /\ UNCHANGED pubVars
      BY <1>14 DEF StopServer
    <2>2. /\ \A e \in Conn : topic_id[e] # NoTopic => topic_id'[e] # NoTopic
          /\ \A e \in Conn : writes'[e] \subseteq writes[e]
          /\ \A e \in Conn : socket'[e] = "open" =>
                socket[e] = "open" /\ writes'[e] = writes[e]
      BY <1>14 DEF StopServer, TypeOK
    <2> QED BY <2>1, <2>2, QuietFrames
  <1>15. ASSUME UNCHANGED vars
        PROVE  Goal
    <2>1. wire' = wire /\ UNCHANGED pubVars
      BY <1>15 DEF vars
    <2>2. /\ \A e \in Conn : topic_id[e] # NoTopic => topic_id'[e] # NoTopic
          /\ \A e \in Conn : writes'[e] \subseteq writes[e]
          /\ \A e \in Conn : socket'[e] = "open" =>
                socket[e] = "open" /\ writes'[e] = writes[e]
      BY <1>15 DEF vars, TypeOK
    <2> QED BY <2>1, <2>2, QuietFrames
  <1>16. ASSUME NEW c \in Conn, ReturnAnswered(c)
        PROVE  Goal
    <2> DEFINE f == LoopFrame(c)
    <2>1. /\ pc[c] = "handler" /\ ~HasContext(Current(c)) /\ req[c] > 0
          /\ StartWrite(c, f) /\ UNCHANGED <<pubVars, topic_id, socket>>
      BY <1>16, DelayIsOwn DEF ReturnAnswered, Leave, TakeoverInv, ThreadHeld, InHandler
    <2>2. f \in Frame /\ f.by # "pub"
      BY DEF LoopFrame, Current, Frame, TypeOK
    <2>3. \A g \in writes[c] : g.by = "pub"
      BY <2>1, LoopAlone
    <2> HIDE DEF f
    <2> QED BY <2>1, <2>2, <2>3, AnswerFrames
  <1>17. ASSUME NEW x \in contexts, ContextResponse(x)
        PROVE  Goal
    <2> DEFINE f == [by |-> "ctx", owner |-> x.owner, copy |-> x.copy]
    <2>1. /\ x \in Context /\ x.conn \in Conn /\ ~x.has_response
          /\ StartWrite(x.conn, f) /\ UNCHANGED <<pubVars, topic_id, socket>>
      BY <1>17 DEF ContextResponse, TypeOK, Context
    <2>2. f \in Frame /\ f.by # "pub"
      BY <2>1 DEF Frame, Context
    <2>3. \A g \in writes[x.conn] : g.by = "pub"
      BY <2>1, ContextAlone
    <2>4. req[x.conn] > 0
      <3>1. x.owner[2] \in 1 .. req[x.conn]
        BY <2>1, OwnContext
      <3> QED BY <2>1, <3>1 DEF TypeOK
    <2> HIDE DEF f
    <2> QED BY <2>1, <2>2, <2>3, <2>4, AnswerFrames
  <1>18. ASSUME NEW c \in Conn, LoopWriteDone(c)
        PROVE  Goal
    <2>1. LoopFrame(c).by # "pub"
      BY DEF LoopFrame
    <2> QED BY <1>18, <2>1, DoneFrames DEF LoopWriteDone
  <1>19. ASSUME NEW c \in Conn, NEW f \in writes[c], CtxWriteDone(c, f)
        PROVE  Goal
    BY <1>19, DoneFrames DEF CtxWriteDone
  <1>20. ASSUME NEW p \in Publisher, NEW topic \in Topic, PublishBegin(p, topic)
        PROVE  Goal
    <2>1. wire' = wire /\ UNCHANGED <<writes, socket>>
      BY <1>20 DEF PublishBegin
    <2> QED BY <1>20, <2>1, StreamQuiet, PubBeginStep DEF FramesInv
  <1>21. ASSUME NEW p \in Publisher, (\E c \in Conn : PublishSkip(p, c)) \/ PublishEnd(p)
        PROVE  Goal
    <2>1. wire' = wire /\ UNCHANGED <<writes, socket>>
      BY <1>21 DEF PublishSkip, PublishEnd
    <2> QED BY <1>21, <2>1, StreamQuiet, PubPassStep DEF FramesInv
  <1>22. ASSUME NEW p \in Publisher, NEW c \in Conn, PublishSend(p, c)
        PROVE  Goal
    <2>1. PubFrame(p) \in Frame
      BY DEF PubFrame, Frame, TypeOK, PubTypeOK
    <2>2. StartWrite(c, PubFrame(p)) /\ socket' = socket /\ writes[c] = {}
      BY <1>22, PublisherAlone DEF PublishSend
    <2>3. LastPending' /\ FramesIntact'
      BY <2>1, <2>2, StreamStart DEF FramesInv
    <2> QED BY <1>22, <2>3, PubSendStep DEF FramesInv
  <1>23. ASSUME NEW p \in Publisher, NEW c \in Conn, PubWriteDone(p, c)
        PROVE  Goal
    <2>1. LastPending' /\ FramesIntact'
      BY <1>23, StreamDone DEF PubWriteDone
    <2> QED BY <1>23, <2>1, PubOverStep DEF FramesInv
  <1>24. ASSUME NEW p \in Publisher, NEW c \in Conn, PubWriteFail(p, c)
        PROVE  Goal
    <2>1. wire' = wire /\ \A d \in Conn : socket'[d] = "open" =>
            socket[d] = "open" /\ writes[d] \subseteq writes'[d]
      BY <1>24 DEF PubWriteFail, WriteFail, Break, TypeOK
    <2> QED BY <1>24, <2>1, StreamQuiet, PubOverStep DEF FramesInv
  <1>25. ASSUME NEW x \in contexts, CopyContext(x)
        PROVE  Goal
    BY <1>25 DEF CopyContext, Contract
  <1>26. ASSUME NEW c \in Conn, ThrowDelayed(c)
        PROVE  Goal
    BY <1>26 DEF ThrowDelayed, Contract
  <1>27. OneUse'
    BY NextUse DEF FramesInv
  <1>28. Goal
    <2> HIDE DEF Goal
    <2> QED
      BY <1>1, <1>2, <1>3, <1>4, <1>5, <1>6, <1>7, <1>8, <1>9, <1>10, <1>11, <1>12,
         <1>13, <1>14, <1>15, <1>16, <1>17, <1>18, <1>19, <1>20, <1>21, <1>22, <1>23,
         <1>24, <1>25, <1>26
      DEF Next, ReadLoop, Handler, DelayedResponse, Server, Publish
  <1> QED BY <1>27, <1>28 DEF FramesInv

(***************************************************************************)
(* One write at a time: connections that call and wait or subscribe, and   *)
(* one publisher, keep the writers of a socket apart, under the Contract.  *)
(***************************************************************************)
THEOREM FramesInvHolds == ASSUME Contract, OneWriter PROVE Spec => []FramesInv
  <1> DEFINE Inv == TypeOK /\ TakeoverInv /\ WaitInv
  <1>1. Spec => []Inv
    BY WaitHolds DEF OneWriter
  <1>2. Init => FramesInv
    BY InitFrames
  <1>3. Inv /\ Inv' /\ FramesInv /\ [Next]_vars => FramesInv'
    BY NextFrames
  <1> QED BY <1>1, <1>2, <1>3, PTL DEF Spec

(***************************************************************************)
(* Under the same conditions frames are never mixed on a stream, although  *)
(* nothing in response() queues the writes to a socket.                    *)
(***************************************************************************)
THEOREM FramesIntactHolds == ASSUME Contract, OneWriter PROVE Spec => []FramesIntact
  <1>1. FramesInv => FramesIntact
    BY DEF FramesInv
  <1> QED BY <1>1, FramesInvHolds, PTL

=============================================================================
