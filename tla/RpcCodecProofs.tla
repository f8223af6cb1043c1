--------------------------- MODULE RpcCodecProofs ---------------------------
(***************************************************************************)
(* Proofs about the codec, for any types, values and functions.            *)
(***************************************************************************)
EXTENDS RpcCodec, TLAPS

USE CodecAssumption

-----------------------------------------------------------------------------
(* One value *)

\* A value has the type it says it has.
LEMMA ValueFacts ==
    ASSUME NEW a \in Value
    PROVE  a.type \in Types /\ a.v \in Domain(a.type) /\ a.lvalue \in BOOLEAN
  BY DEF Value

\* What unpack() makes of the text of a number.
LEMMA UnpackText ==
    ASSUME NEW x, NEW t \in Number
    PROVE  /\ unpack(t, Text("integer", x)) =
                IF t = "double" THEN {x * Scale} ELSE Domain(t) \cap {x}
           /\ unpack(t, Text("decimal", x)) =
                IF t = "double" THEN {x} ELSE Domain(t) \cap {Truncate(x)}
<1>1. \A k : Front(Text(k, x)) = {Text(k, x)}
  BY DEF Front, Text
<1>2. \A k : unpack(t, Text(k, x)) = from_chars(t, Text(k, x))
  BY <1>1 DEF unpack
<1>3. \A k : Text(k, x).kind = k /\ Text(k, x).v = x
  BY DEF Text
<1> QED BY <1>2, <1>3 DEF from_chars, ParseInteger

\* A tuple is no number.
LEMMA UnpackTuple ==
    ASSUME NEW a, NEW t \in Number
    PROVE  unpack(t, Image(TRUE, a)) = {}
<1>1. Front(Image(TRUE, a)) = {}
  BY DEF Front, Image
<1> QED BY <1>1 DEF unpack

\* What is packed alone comes back, up to the decimals a double loses.
LEMMA LoneRoundTrip ==
    ASSUME NEW a, a.type \in Basic, a.v \in Domain(a.type), NEW b \in pack_one(a)
    PROVE  /\ unpack(a.type, b) # {}
           /\ \A v \in unpack(a.type, b) : Close(a.type, TRUE, v, a.v)
<1> USE DEF Basic, Number
<1>1. CASE a.type = "string"
  <2>1. b = Text("chars", a.v)
    BY <1>1 DEF pack_one
  <2> QED BY <1>1, <2>1 DEF Text, unpack, Close
<1>2. CASE a.type = "double"
  <2>1. PICK m \in ToString(a.v) : b = Text("decimal", m)
    BY <1>2 DEF pack_one
  <2>2. 2 * Distance(m, a.v) <= Kept
    BY DEF ToString
  <2>3. unpack(a.type, b) = {m}
    BY <1>2, <2>1, UnpackText
  <2> QED BY <1>2, <2>2, <2>3 DEF Close
<1>3. CASE a.type \in {"int", "long"}
  <2>1. b = Text("integer", a.v)
    BY <1>3 DEF pack_one
  <2>2. unpack(a.type, b) = Domain(a.type) \cap {a.v}
    BY <1>3, <2>1, UnpackText
  <2> QED BY <1>3, <2>2 DEF Close
<1> QED BY <1>1, <1>2, <1>3

\* A lone integer is parsed to itself, whatever integer type is declared.
LEMMA LoneInteger ==
    ASSUME NEW a, a.type \in {"int", "long"}, NEW b \in pack_one(a),
           NEW t \in {"int", "long"}, NEW v \in unpack(t, b)
    PROVE  v = a.v
<1>1. b = Text("integer", a.v)
  BY DEF pack_one
<1> QED BY <1>1, UnpackText DEF Number

\* Whatever is unpacked as a basic type is a value.
LEMMA UnpackValue ==
    ASSUME NEW a, a.type \in Basic, a.v \in Domain(a.type), NEW b \in pack_one(a),
           NEW t \in Basic, NEW v \in unpack(t, b), IsConstructible(a.type, t)
    PROVE  v \in AnyValue
<1> USE DEF Basic, Number, Domain, AnyValue
<1>1. CASE a.type = "string"
  <2>1. b = Text("chars", a.v) /\ t = "string"
    BY <1>1 DEF pack_one, IsConstructible
  <2> QED BY <1>1, <2>1 DEF Text, unpack
<1>2. CASE a.type = "double"
  <2>1. PICK m \in ToString(a.v) : b = Text("decimal", m)
    BY <1>2 DEF pack_one
  <2>2. m \in Int
    BY <1>2 DEF ToString
  <2>3. t # "string"
    BY <1>2 DEF IsConstructible
  <2> QED BY <2>1, <2>2, <2>3, UnpackText
<1>3. CASE a.type \in {"int", "long"}
  <2>1. b = Text("integer", a.v) /\ t # "string" /\ a.v \in Int
    BY <1>3 DEF pack_one, IsConstructible
  <2> QED BY <2>1, UnpackText
<1> QED BY <1>1, <1>2, <1>3

-----------------------------------------------------------------------------
(* The arguments of a call *)

\* What call_for() lets through for the function s.
Passed(s, a) ==
    /\ a \in [1 .. Len(s.params) -> Value]
    /\ \A i \in DOMAIN a : IsConstructible(a[i].type, s.params[i])

LEMMA FunctionIsSeq ==
    ASSUME NEW n \in Nat, NEW S, NEW a \in [1 .. n -> S]
    PROVE  a \in Seq(S) /\ Len(a) = n
  OBVIOUS

LEMMA PassedFacts ==
    ASSUME NEW s \in Signatures, NEW a, Passed(s, a)
    PROVE  /\ s.params \in Seq(Types) /\ Len(s.params) \in Nat
           /\ DOMAIN s.params = 1 .. Len(s.params) /\ DOMAIN a = 1 .. Len(s.params)
           /\ a \in Seq(Value) /\ Len(a) = Len(s.params)
           /\ a = <<>> <=> s.params = <<>>
<1>1. s.params \in Seq(Types)
  OBVIOUS
<1>2. Len(s.params) \in Nat /\ DOMAIN s.params = 1 .. Len(s.params)
  BY <1>1
<1>3. a \in Seq(Value) /\ Len(a) = Len(s.params)
  <2>1. a \in [1 .. Len(s.params) -> Value]
    BY DEF Passed
  <2> QED BY <1>2, <2>1, FunctionIsSeq
<1>4. a = <<>> <=> s.params = <<>>
  BY <1>1, <1>3
<1> QED BY <1>1, <1>2, <1>3, <1>4 DEF Passed

\* The text of a lone value, the image of several or of a lone lvalue number,
\* or nothing.
LEMMA GetBufferCases ==
    ASSUME NEW s \in Signatures, NEW a, Passed(s, a), NEW b \in get_buffer(a)
    PROVE  \/ s.params = <<>> /\ b = Empty
           \/ /\ Len(s.params) = 1 /\ s.params[1] \in Basic
              /\ a[1] \in Value /\ a[1].type \in Basic /\ IsConstructible(a[1].type, s.params[1])
              /\ b \in pack_one(a[1])
           \/ /\ Len(s.params) = 1 /\ s.params[1] \in Number
              /\ AsImage(a[1]) /\ b = Image(TRUE, a)
           \/ /\ s.params # <<>> /\ b = Image(TRUE, a)
              /\ ~(Len(s.params) = 1 /\ s.params[1] \in Basic)
<1>1. CASE s.params = <<>>
  <2>1. a = <<>>
    BY <1>1, PassedFacts
  <2> QED BY <1>1, <2>1 DEF get_buffer
<1>2. CASE Len(s.params) = 1
  <2>1. 1 \in DOMAIN a /\ a[1] \in Value /\ IsConstructible(a[1].type, s.params[1])
    BY <1>2, PassedFacts DEF Passed
  <2>2. a[1].type \in Basic <=> s.params[1] \in Basic
    BY <2>1 DEF IsConstructible, Basic
  <2>3. Len(a) = 1 /\ a # <<>> /\ s.params # <<>>
    <3>1. Len(a) = 1
      BY <1>2, PassedFacts
    <3>2. s.params # <<>>
      BY <1>2
    <3> QED BY <3>1, <3>2, PassedFacts
  <2>4. CASE is_basic_v(a[1])
    BY <1>2, <2>1, <2>2, <2>3, <2>4 DEF get_buffer, is_basic_v, Basic
  <2>5. CASE ~is_basic_v(a[1]) /\ a[1].type \in Basic
    <3>1. a[1].type \in Number /\ s.params[1] \in Number
      BY <2>1, <2>5 DEF is_basic_v, Basic, IsConstructible, Number
    <3> QED BY <1>2, <2>3, <2>5, <3>1 DEF get_buffer, AsImage
  <2>6. CASE ~is_basic_v(a[1]) /\ a[1].type \notin Basic
    BY <1>2, <2>2, <2>3, <2>6 DEF get_buffer
  <2> QED BY <2>4, <2>5, <2>6
<1>3. CASE s.params # <<>> /\ Len(s.params) # 1
  BY <1>3, PassedFacts DEF get_buffer
<1> QED BY <1>1, <1>2, <1>3

\* A lone number that goes as an image does not arrive.
LEMMA ImageRefused ==
    ASSUME NEW s \in Signatures, NEW a, Len(s.params) = 1, s.params[1] \in Number
    PROVE  unpack_args(s.params, Image(TRUE, a)) = {}
<1>1. s.params # <<>> /\ s.params[1] \in Basic
  BY DEF Basic
<1> QED BY <1>1, UnpackTuple DEF unpack_args

\* What the handler gets is no absence of arguments.
LEMMA ReceivedValue ==
    ASSUME NEW s \in Signatures, NEW a, Passed(s, a), NEW b \in get_buffer(a),
           NEW r \in unpack_args(s.params, b)
    PROVE  r # None
<1>1. CASE s.params = <<>>
  <2>1. r = <<>> /\ Len(s.params) = 0
    BY <1>1 DEF unpack_args
  <2>2. r \in [1 .. Len(s.params) -> AnyValue]
    BY <2>1
  <2> QED BY <2>2
<1>2. CASE Len(s.params) = 1 /\ s.params[1] \in Basic
  <2>0. s.params # <<>> /\ unpack_args(s.params, b) # {}
    BY <1>2
  <2>1. a[1] \in Value /\ a[1].type \in Basic /\ IsConstructible(a[1].type, s.params[1])
        /\ b \in pack_one(a[1])
    BY <1>2, <2>0, GetBufferCases, ImageRefused
  <2>2. PICK v \in unpack(s.params[1], b) : r = <<v>>
    BY <1>2 DEF unpack_args
  <2>3. v \in AnyValue
    BY <1>2, <2>1, UnpackValue, ValueFacts
  <2>4. r \in [1 .. Len(s.params) -> AnyValue]
    BY <1>2, <2>2, <2>3
  <2> QED BY <2>4
<1>3. CASE s.params # <<>> /\ ~(Len(s.params) = 1 /\ s.params[1] \in Basic)
  <2>1. b = Image(TRUE, a) /\ r = b.vals
    BY <1>3, GetBufferCases DEF unpack_args, Basic
  <2>2. r = [i \in DOMAIN a |-> a[i].v]
    BY <2>1 DEF Image
  <2>3. \A i \in DOMAIN a : a[i].v \in AnyValue
    <3>1. \A x \in Value : x.v \in AnyValue
      BY ValueFacts DEF Domain, AnyValue, Types, Basic, Number
    <3> QED BY <3>1 DEF Passed
  <2>4. r \in [1 .. Len(s.params) -> AnyValue]
    BY <2>2, <2>3 DEF Passed
  <2> QED BY <2>4
<1> QED BY <1>1, <1>2, <1>3

\* Arguments of the declared types arrive as they were, if at all, and all but
\* a lone lvalue number are accepted.
LEMMA ArgsRoundTrip ==
    ASSUME NEW s \in Signatures, NEW a, Passed(s, a), NEW b \in get_buffer(a),
           [i \in DOMAIN a |-> a[i].type] = s.params
    PROVE  /\ unpack_args(s.params, b) = {} => Len(a) = 1 /\ AsImage(a[1])
           /\ \A r \in unpack_args(s.params, b) : \A i \in DOMAIN a :
                Close(s.params[i], Len(a) = 1, r[i], a[i].v)
<1>1. CASE s.params = <<>>
  <2>1. DOMAIN a = {}
    BY <1>1, PassedFacts
  <2> QED BY <1>1, <2>1 DEF unpack_args
<1>2. CASE Len(s.params) = 1 /\ s.params[1] \in Basic /\ b \in pack_one(a[1])
           /\ a[1] \in Value /\ a[1].type \in Basic
  <2>2. DOMAIN a = {1} /\ Len(a) = 1 /\ s.params[1] = a[1].type /\ s.params # <<>>
    BY <1>2, PassedFacts
  <2>3. a[1].v \in Domain(a[1].type)
    BY <1>2, ValueFacts
  <2>4. /\ unpack(s.params[1], b) # {}
        /\ \A v \in unpack(s.params[1], b) : Close(s.params[1], TRUE, v, a[1].v)
    <3>1. /\ unpack(a[1].type, b) # {}
          /\ \A v \in unpack(a[1].type, b) : Close(a[1].type, TRUE, v, a[1].v)
      BY <1>2, <2>3, LoneRoundTrip
    <3> QED BY <2>2, <3>1
  <2>5. unpack_args(s.params, b) = {<<v>> : v \in unpack(s.params[1], b)}
    BY <1>2, <2>2 DEF unpack_args
  <2>6. \A r \in unpack_args(s.params, b) : Close(s.params[1], TRUE, r[1], a[1].v)
    <3> SUFFICES ASSUME NEW r \in unpack_args(s.params, b)
                 PROVE  Close(s.params[1], TRUE, r[1], a[1].v)
      OBVIOUS
    <3>1. PICK v \in unpack(s.params[1], b) : r = <<v>>
      BY <2>5
    <3>2. r[1] = v
      BY <3>1
    <3> QED BY <2>4, <3>2
  <2>7. unpack_args(s.params, b) # {}
    <3>1. PICK v : v \in unpack(s.params[1], b)
      BY <2>4
    <3>2. <<v>> \in unpack_args(s.params, b)
      BY <2>5, <3>1
    <3> QED BY <3>2
  <2>8. \A r \in unpack_args(s.params, b) : \A i \in DOMAIN a :
          Close(s.params[i], Len(a) = 1, r[i], a[i].v)
    BY <2>2, <2>6 DEF Close
  <2> QED BY <2>7, <2>8
<1>3. CASE s.params # <<>> /\ ~(Len(s.params) = 1 /\ s.params[1] \in Basic)
  <2>1. b = Image(TRUE, a)
    BY <1>3, GetBufferCases DEF Basic
  <2>2. /\ b.shape = "packed" /\ b.tuple = TRUE
        /\ b.types = s.params /\ b.vals = [i \in DOMAIN a |-> a[i].v]
    BY <2>1 DEF Image
  <2>3. unpack_args(s.params, b) = {b.vals}
    BY <1>3, <2>2 DEF unpack_args
  <2>4. \A i \in DOMAIN a : b.vals[i] = a[i].v
    BY <2>2
  <2>5. \A i \in DOMAIN a : ~(s.params[i] = "double" /\ Len(a) = 1)
    BY <1>3, PassedFacts DEF Basic, Number
  <2> QED BY <2>3, <2>4, <2>5 DEF Close
<1>4. CASE Len(s.params) = 1 /\ s.params[1] \in Number /\ AsImage(a[1])
           /\ b = Image(TRUE, a)
  <2>1. unpack_args(s.params, b) = {}
    BY <1>4, ImageRefused
  <2> QED BY <1>4, <2>1, PassedFacts
<1> QED BY <1>1, <1>2, <1>3, <1>4, GetBufferCases

\* So does the result of a handler.
LEMMA ResultRoundTrip ==
    ASSUME NEW a \in Value, ~AsImage(a), NEW b \in pack_args(a)
    PROVE  /\ unpack(a.type, b) # {}
           /\ \A v \in unpack(a.type, b) : Close(a.type, TRUE, v, a.v)
<1>1. a.type \in Types /\ a.v \in Domain(a.type)
  BY ValueFacts
<1>2. CASE a.type \in Basic
  <2>1. b \in pack_one(a)
    BY <1>2 DEF pack_args, AsImage, is_basic_v, Basic
  <2> QED BY <1>1, <1>2, <2>1, LoneRoundTrip
<1>3. CASE a.type \notin Basic
  <2>1. b = Image(FALSE, <<a>>)
    BY <1>3 DEF pack_args, is_basic_v, Basic
  <2>2. /\ b.shape = "packed" /\ b.tuple = FALSE
        /\ b.types = <<a.type>> /\ b.vals[1] = a.v
    BY <2>1 DEF Image
  <2>3. unpack(a.type, b) = {a.v}
    BY <1>3, <2>2 DEF unpack, Basic
  <2>4. a.type # "double"
    BY <1>3 DEF Basic, Number
  <2> QED BY <2>3, <2>4 DEF Close
<1> QED BY <1>2, <1>3

-----------------------------------------------------------------------------
(* One call *)

LEMMA InitCodec == Init => CodecInv
  BY DEF Init, CodecInv, Delivered, Responded, Refused

LEMMA NextCodec == CodecInv /\ [Next]_vars => CodecInv'
<1> SUFFICES ASSUME CodecInv, [Next]_vars PROVE CodecInv'
  OBVIOUS
<1> USE DEF CodecInv, Delivered, Responded, Refused
<1>1. CASE Call
  BY <1>1 DEF Call
<1>2. CASE HandlerBegins
  <2>1. body \in get_buffer(args) /\ received' \in unpack_args(sig.params, body)
    BY <1>2 DEF HandlerBegins
  <2>2. received' # None
    BY <1>2, <2>1, ReceivedValue DEF HandlerBegins, Passed
  <2> QED BY <1>2, <2>1, <2>2 DEF HandlerBegins
<1>3. CASE Exception
  BY <1>3 DEF Exception
<1>4. CASE HandlerReturns
  <2>1. sig.ret # "void" => sig.ret \in Types
    OBVIOUS
  <2>2. \A t \in Types : \A x \in Domain(t) :
          [type |-> t, v |-> x, lvalue |-> FALSE] \in Value
    BY DEF Value
  <2>3. sig.ret # "void" => returned' \in Value
    BY <1>4, <2>1, <2>2 DEF HandlerReturns
  <2> QED BY <1>4, <2>3 DEF HandlerReturns
<1>5. CASE ContextResponds
  BY <1>5 DEF ContextResponds
<1>6. CASE Respond
  <2>1. CASE ec = "ok" /\ sig.ret # "void"
    <3>1. body \in pack_args(returned)
      BY <1>6, <2>1 DEF Respond
    <3>2. CASE unpack(sig.ret, body) = {}
      BY <1>6, <2>1, <3>1, <3>2 DEF Respond
    <3>3. CASE unpack(sig.ret, body) # {}
      BY <1>6, <2>1, <3>1, <3>3 DEF Respond
    <3> QED BY <3>2, <3>3
  <2>2. CASE ~(ec = "ok" /\ sig.ret # "void")
    BY <1>6, <2>2 DEF Respond
  <2> QED BY <2>1, <2>2
<1>7. CASE UNCHANGED vars
  BY <1>7 DEF vars
<1> QED BY <1>1, <1>2, <1>3, <1>4, <1>5, <1>6, <1>7 DEF Next

(***************************************************************************)
(* What one side of a call unpacks is what the other side packed.          *)
(***************************************************************************)
THEOREM CodecInvHolds == Spec => []CodecInv
  BY InitCodec, NextCodec, PTL DEF Spec

(***************************************************************************)
(* Arguments of the declared types are accepted unless a lone number is an *)
(* lvalue, and arrive; a result of the declared type comes back under the  *)
(* same condition, and a call that reports ok has it: for any number of    *)
(* arguments and any values, up to the decimals that a lone double loses.  *)
(***************************************************************************)
THEOREM FaithfulHolds == Spec => []Faithful
<1>1. CodecInv => Faithful
  <2> SUFFICES ASSUME CodecInv PROVE Faithful
    OBVIOUS
  <2> USE DEF CodecInv, Delivered, Responded
  <2>1. ASSUME SameTypes, phase # "idle", Refused
        PROVE  Len(args) = 1 /\ AsImage(args[1])
    BY <2>1, ArgsRoundTrip DEF SameTypes, Passed
  <2>2. ASSUME SameTypes, received # None, NEW i \in DOMAIN args
        PROVE  Close(sig.params[i], Len(args) = 1, received[i], args[i].v)
    BY <2>2, ArgsRoundTrip DEF SameTypes, Passed
  <2>3. ASSUME phase = "done", ec = "ok", SameResult,
               ~(sig.ret # "void" /\ AsImage(returned))
        PROVE  result.ec = "ok"
    BY <2>3, ResultRoundTrip DEF SameResult
  <2>4. ASSUME result # None, result.ec = "ok" PROVE phase = "done" /\ ec = "ok"
    BY <2>4
  <2>5. ASSUME result # None, result.ec = "ok", sig.ret # "void", SameResult,
               ~AsImage(returned)
        PROVE  Close(sig.ret, TRUE, result.value, returned.v)
    BY <2>4, <2>5, ResultRoundTrip DEF SameResult
  <2> QED BY <2>1, <2>2, <2>3, <2>4, <2>5 DEF Faithful
<1> QED BY <1>1, CodecInvHolds, PTL

(***************************************************************************)
(* No integer is cut to a narrower type on the way to a handler.           *)
(***************************************************************************)
THEOREM NoTruncationHolds == Spec => []NoTruncation
<1>1. CodecInv => NoTruncation
  <2> SUFFICES ASSUME CodecInv, received # None, Len(args) = 1,
                      args[1].type \in {"int", "long"}, sig.params[1] \in {"int", "long"}
               PROVE  received[1] = args[1].v
    BY DEF NoTruncation
  <2>1. Passed(sig, args) /\ sig \in Signatures
    BY DEF CodecInv, Delivered, Passed
  <2>2. PICK b \in get_buffer(args) : received \in unpack_args(sig.params, b)
    BY DEF CodecInv, Delivered
  <2>3. Len(sig.params) = 1 /\ sig.params[1] \in Basic /\ sig.params # <<>>
    BY <2>1, PassedFacts DEF Basic, Number
  <2>4. b \in pack_one(args[1])
    BY <2>1, <2>2, <2>3, GetBufferCases, ImageRefused
  <2>5. PICK v \in unpack(sig.params[1], b) : received = <<v>>
    BY <2>2, <2>3 DEF unpack_args
  <2>6. v = args[1].v
    BY <2>4, <2>5, LoneInteger
  <2> QED BY <2>5, <2>6
<1> QED BY <1>1, CodecInvHolds, PTL
=============================================================================
