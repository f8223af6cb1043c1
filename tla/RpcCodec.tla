------------------------------ MODULE RpcCodec ------------------------------
(***************************************************************************)
(* One call through the codec: get_buffer() and pack_args() on the types   *)
(* the caller passes, unpack() on the types the handler declares, and the  *)
(* same for the result. One argument or result of a basic type travels as  *)
(* its text, anything else as a struct_pack image that carries its types.  *)
(* A number is basic to the side that packs it unless it is an lvalue, and *)
(* always to the side that unpacks it.                                     *)
(*                                                                         *)
(* Numbers keep what matters: an integer type has a range, and a floating  *)
(* value counts steps of 1/Scale, of which std::to_string() keeps every    *)
(* Kept-th, as it keeps six decimals of a double.                          *)
(***************************************************************************)
EXTENDS Integers, Sequences

CONSTANTS
    IntValues,     \* the values of a narrow integer type
    LongValues,    \* the values of a wide integer type
    DoubleValues,  \* the floating values that occur, in steps of 1/Scale
    StringValues,  \* strings
    StructValues,  \* the values of a user's struct
    ErrorText,     \* the text that route() puts into an error
    Scale,         \* steps of a floating value in 1
    Kept,          \* steps in the last decimal of its text
    CodeNumber,    \* by type: the number, if any, that the image of a result
                   \* reads as since its type code begins with digits (of an
                   \* int64_t, whose code begins with "5h": 5)
    Signatures,    \* the functions that are called: [params, ret]
    None           \* no value

Number == {"int", "long", "double"}
Basic == Number \cup {"string"}   \* is_basic_v of a declared type
Types == Basic \cup {"struct"}

Domain(t) ==
    CASE t = "int" -> IntValues [] t = "long" -> LongValues
      [] t = "double" -> DoubleValues [] t = "string" -> StringValues
      [] OTHER -> StructValues

\* What may be in the place of an argument.
AnyValue == Int \cup StringValues \cup StructValues

ASSUME CodecAssumption ==
    /\ IntValues \subseteq Int /\ LongValues \subseteq Int /\ DoubleValues \subseteq Int
    /\ Scale \in Nat \ {0} /\ Kept \in 1 .. Scale
    /\ \A s \in Signatures :
         /\ s.params \in Seq(Types) /\ s.ret \in Types \cup {"void"}
         /\ None \notin [1 .. Len(s.params) -> AnyValue]
    /\ None \notin {"ok", "function_exception", "function_unknown_exception"}

ASSUME CodeAssumption == CodeNumber \in [Number -> SUBSET Int]

\* A value as it is passed: an lvalue has its type deduced as a reference.
Value == UNION {[type : {t}, v : Domain(t), lvalue : BOOLEAN] : t \in Types}

\* is_basic_v of a deduced type: is_fundamental_v of a reference is false, and
\* the string concepts look through it.
is_basic_v(a) == a.type = "string" \/ (a.type \in Number /\ ~a.lvalue)

\* What the static_assert of call_for() lets through.
IsConstructible(from, to) == from = to \/ {from, to} \subseteq Number

-----------------------------------------------------------------------------
(* The codec. What can fail or round gives the set of possible outcomes. *)

Distance(x, y) == IF x > y THEN x - y ELSE y - x
Truncate(d) == IF d >= 0 THEN d \div Scale ELSE -((-d) \div Scale)

Text(kind, v) == [shape |-> "text", kind |-> kind, v |-> v]

\* std::to_string of a double: the nearest value with its last decimal kept.
ToString(d) ==
    LET low == (d \div Kept) * Kept
    IN  {m \in {low, low + Kept} : 2 * Distance(m, d) <= Kept}

pack_one(a) ==
    CASE a.type = "string" -> {Text("chars", a.v)}
      [] a.type = "double" -> {Text("decimal", m) : m \in ToString(a.v)}
      [] OTHER -> {Text("integer", a.v)}

\* The arguments of a call are packed as a tuple, a result as it is.
Image(tuple, args) ==
    [shape |-> "packed", tuple |-> tuple,
     types |-> [i \in DOMAIN args |-> args[i].type],
     vals |-> [i \in DOMAIN args |-> args[i].v]]

Empty == [shape |-> "empty"]

\* Mutant: a single argument is packed like several.
AlwaysImage(args) == IF args = <<>> THEN {Empty} ELSE {Image(TRUE, args)}

\* get_buffer(): no argument, a basic one, or a tuple.
get_buffer(args) ==
    IF args = <<>> THEN {Empty}
    ELSE IF Len(args) = 1 /\ is_basic_v(args[1]) THEN pack_one(args[1])
    ELSE {Image(TRUE, args)}

\* pack_args() of the result of a handler.
pack_args(a) == IF is_basic_v(a) THEN pack_one(a) ELSE {Image(FALSE, <<a>>)}

\* Mutant: the range is not checked.
ParsePrefix(t, w) == {IF w.kind = "integer" THEN w.v % 2 ELSE Truncate(w.v)}

\* std::from_chars for an integer: it stops at the point of a decimal, and
\* fails if the number does not fit.
ParseInteger(t, w) ==
    Domain(t) \cap {IF w.kind = "integer" THEN w.v ELSE Truncate(w.v)}

from_chars(t, w) ==
    IF w.kind = "chars" THEN {}
    ELSE IF t = "double" THEN {IF w.kind = "integer" THEN w.v * Scale ELSE w.v}
    ELSE ParseInteger(t, w)

\* The text that from_chars() meets at the front of a body. An image begins with
\* the code of its type, which is no number for a tuple of one.
Front(w) ==
    IF w.shape = "text" THEN {w}
    ELSE IF w.shape = "packed" /\ ~w.tuple /\ w.types[1] \in Number
         THEN {Text("integer", n) : n \in CodeNumber[w.types[1]]}
    ELSE {}

\* unpack(): no outcome where it throws.
unpack(t, w) ==
    IF t \in Number THEN UNION {from_chars(t, x) : x \in Front(w)}
    ELSE IF t = "string" THEN IF w.shape = "text" THEN {w.v} ELSE {}
    ELSE IF w.shape = "packed" /\ ~w.tuple /\ w.types = <<t>> THEN {w.vals[1]} ELSE {}

\* handle_zero_arg(), handle_one_arg() and handle_more_args().
unpack_args(params, w) ==
    IF params = <<>> THEN {<<>>}
    ELSE IF Len(params) = 1 /\ params[1] \in Basic
         THEN {<<v>> : v \in unpack(params[1], w)}
    ELSE IF w.shape = "packed" /\ w.tuple /\ w.types = params THEN {w.vals} ELSE {}

-----------------------------------------------------------------------------
VARIABLES
    phase,     \* how far the call is
    sig,       \* the function that is called
    args,      \* what the caller passes
    body,      \* the body in transit
    ec,        \* the error code in front of the body of the response
    received,  \* the arguments of the handler; rejected calls have none
    returned,  \* the value the handler returns or responds with
    result     \* what the caller gets

vars == <<phase, sig, args, body, ec, received, returned, result>>

Init ==
    /\ phase = "idle"
    /\ sig \in Signatures
    /\ args = <<>> /\ body = Empty /\ ec = None
    /\ received = None /\ returned = None /\ result = None

\* call_for(): the static_assert, and the arguments packed by their own types.
Call ==
    /\ phase = "idle"
    /\ phase' = "request"
    /\ args' \in {a \in [1 .. Len(sig.params) -> Value] :
                    \A i \in DOMAIN a : IsConstructible(a[i].type, sig.params[i])}
    /\ body' \in get_buffer(args')
    /\ UNCHANGED <<sig, ec, received, returned, result>>

HandlerBegins ==
    /\ phase = "request"
    /\ phase' = "handler"
    /\ received' \in unpack_args(sig.params, body)
    /\ UNCHANGED <<sig, args, body, ec, returned, result>>

\* An exception, of unpack() or of the handler, is caught by route().
Exception ==
    /\ \/ /\ phase = "request" /\ unpack_args(sig.params, body) = {}
          /\ ec' = "function_exception"
       \/ /\ phase = "handler"
          /\ ec' \in {"function_exception", "function_unknown_exception"}
    /\ phase' = "response"
    /\ body' = Text("chars", ErrorText)
    /\ UNCHANGED <<sig, args, received, returned, result>>

\* The value of the function: a temporary.
HandlerReturns ==
    /\ phase = "handler"
    /\ phase' = "response"
    /\ ec' = "ok"
    /\ IF sig.ret = "void" THEN body' = Empty /\ UNCHANGED returned
       ELSE \E v \in Domain(sig.ret) :
              /\ returned' = [type |-> sig.ret, v |-> v, lvalue |-> FALSE]
              /\ body' \in pack_args(returned')
    /\ UNCHANGED <<sig, args, received, result>>

\* response_s() of a context: the static_assert, and what is passed as it is.
ContextResponds ==
    /\ phase = "handler" /\ sig.ret # "void"
    /\ phase' = "response"
    /\ ec' = "ok"
    /\ returned' \in {a \in Value : IsConstructible(a.type, sig.ret)}
    /\ body' \in pack_args(returned')
    /\ UNCHANGED <<sig, args, received, result>>

\* wait_response(): the error code comes first; a body that cannot be unpacked
\* leaves the call to its watchdog.
Respond ==
    /\ phase = "response"
    /\ phase' = "done"
    /\ result' \in
         IF sig.ret = "void" THEN {[ec |-> ec, value |-> None]}
         ELSE IF unpack(sig.ret, body) = {}
              THEN {[ec |-> "request_timeout", value |-> None]}
         ELSE {[ec |-> ec, value |-> v] : v \in unpack(sig.ret, body)}
    /\ UNCHANGED <<sig, args, body, ec, received, returned>>

Next ==
    \/ Call \/ HandlerBegins \/ Exception
    \/ HandlerReturns \/ ContextResponds \/ Respond

Spec == Init /\ [][Next]_vars

-----------------------------------------------------------------------------
(* Properties *)

SameTypes == [i \in DOMAIN args |-> args[i].type] = sig.params

Refused == ec = "function_exception" /\ received = None

\* As text, a floating value keeps its decimals up to the last.
Close(t, alone, x, y) ==
    IF t = "double" /\ alone THEN 2 * Distance(x, y) <= Kept ELSE x = y

\* A number that is packed as an image though the other side expects text.
AsImage(a) == a.type \in Number /\ ~is_basic_v(a)

\* The value that is sent back has the declared type.
SameResult == sig.ret = "void" \/ returned.type = sig.ret

(***************************************************************************)
(* Arguments of the declared types are accepted, unless a lone number is   *)
(* an lvalue, and reach the handler as they were passed. A result of the   *)
(* declared type that is no lvalue number comes back with ok. A call that  *)
(* reports ok has run its handler and has that value. Both directions keep *)
(* all but the decimals that a lone double loses on the way.               *)
(***************************************************************************)
Faithful ==
    /\ SameTypes /\ phase # "idle" /\ Refused => Len(args) = 1 /\ AsImage(args[1])
    /\ SameTypes /\ received # None =>
         \A i \in DOMAIN args :
            Close(sig.params[i], Len(args) = 1, received[i], args[i].v)
    /\ phase = "done" /\ ec = "ok" /\ SameResult =>
         result.ec = "ok" \/ (sig.ret # "void" /\ AsImage(returned))
    /\ result # None /\ result.ec = "ok" =>
         /\ received # None
         /\ sig.ret # "void" /\ SameResult /\ ~AsImage(returned) =>
              Close(sig.ret, TRUE, result.value, returned.v)

(***************************************************************************)
(* What the static_assert of call_for() says of arguments it lets through: *)
(* those of the declared types match the function, so the server takes     *)
(* them. A lone lvalue number is sent as an image, and refused.            *)
(***************************************************************************)
MatchingAccepted == SameTypes /\ phase # "idle" => ~Refused

(***************************************************************************)
(* A lone integer passed as another integer type arrives unchanged or not  *)
(* at all, where a local call would cut it to the declared width.          *)
(***************************************************************************)
NoTruncation ==
    received # None /\ Len(args) = 1 /\ args[1].type \in {"int", "long"}
      /\ sig.params[1] \in {"int", "long"}
    => received[1] = args[1].v
-----------------------------------------------------------------------------
(* Why the codec is faithful, as an inductive invariant *)

\* What the handler is given was unpacked from what the caller packed.
Delivered ==
    /\ phase # "idle" =>
         /\ args \in [1 .. Len(sig.params) -> Value]
         /\ \A i \in DOMAIN args : IsConstructible(args[i].type, sig.params[i])
    /\ phase = "request" => body \in get_buffer(args)
    /\ phase \in {"idle", "request"} => received = None
    /\ received # None =>
         \E b \in get_buffer(args) : received \in unpack_args(sig.params, b)
    /\ phase = "handler" => received # None
    /\ phase \in {"idle", "request", "handler"} => ec = None
    /\ Refused => \E b \in get_buffer(args) : unpack_args(sig.params, b) = {}

\* What the caller is given was unpacked from what the handler's side packed.
Responded ==
    /\ phase \in {"idle", "request", "handler"} => result = None
    /\ phase = "response" =>
         /\ result = None
         /\ ec = "ok" => IF sig.ret = "void" THEN body = Empty ELSE body \in pack_args(returned)
    /\ ec = "ok" =>
         received # None /\ (sig.ret # "void" => returned \in Value)
    /\ phase = "done" =>
         /\ result.ec = "ok" => ec = "ok"
         /\ ec = "ok" /\ sig.ret = "void" => result.ec = "ok"
         /\ ec = "ok" /\ sig.ret # "void" =>
              \E b \in pack_args(returned) :
                 IF result.ec = "ok" THEN result.value \in unpack(sig.ret, b)
                 ELSE unpack(sig.ret, b) = {}

(***************************************************************************)
(* The inductive invariant behind Faithful and NoTruncation: what one side *)
(* unpacks the other has packed, and never the body of an earlier phase or *)
(* the text of an exception in its place.                                  *)
(***************************************************************************)
CodecInv ==
    /\ phase \in {"idle", "request", "handler", "response", "done"}
    /\ sig \in Signatures
    /\ Delivered /\ Responded
=============================================================================
