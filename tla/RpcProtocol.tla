----------------------------- MODULE RpcProtocol -----------------------------
(***************************************************************************)
(* The header of a frame as bytes: htonll(), prepare_for_send() and        *)
(* parse_recieved(), for one request and its response between hosts of     *)
(* either byte order, each side with its own enable_cross_ending().        *)
(*                                                                         *)
(* A word is a function from the significance of a byte (0 is the least)   *)
(* to the byte; what memory and the wire hold is by address.               *)
(***************************************************************************)
EXTENDS Naturals

CONSTANTS
    Byte,       \* the values of a byte
    FuncIds,    \* 32-bit words that occur as function_id
    BodyLens    \* 64-bit words that occur as body_len

Word32 == [0 .. 3 -> Byte]
Word64 == [0 .. 7 -> Byte]

ASSUME ProtocolAssumption == FuncIds \subseteq Word32 /\ BodyLens \subseteq Word64

Order == {"little", "big"}
Side == {"client", "server"}
Header == [function_id : Word32, body_len : Word64]

\* The bytes of a word by address, and the word they stand for.
Image32(o, w) == [a \in 0 .. 3 |-> IF o = "little" THEN w[a] ELSE w[3 - a]]
Image64(o, w) == [a \in 0 .. 7 |-> IF o = "little" THEN w[a] ELSE w[7 - a]]

\* The C library: the identity on a big-endian host. ntohl is the same.
htonl(o, w) == IF o = "little" THEN [i \in 0 .. 3 |-> w[3 - i]] ELSE w

Low(w) == [i \in 0 .. 3 |-> w[i]]
High(w) == [i \in 0 .. 3 |-> w[i + 4]]
Shift32Or(h, l) == [i \in 0 .. 7 |-> IF i < 4 THEN l[i] ELSE h[i - 4]]

\* Mutant: each half is converted where it is.
HalvesInPlace(o, w) == Shift32Or(htonl(o, High(w)), htonl(o, Low(w)))

\* htonll() and ntohll(): both halves converted and exchanged.
htonll(o, w) == Shift32Or(htonl(o, Low(w)), htonl(o, High(w)))

ntohll(o, w) == Shift32Or(htonl(o, Low(w)), htonl(o, High(w)))

prepare_for_send(o, h) ==
    [function_id |-> htonl(o, h.function_id), body_len |-> htonll(o, h.body_len)]

parse_recieved(o, h) ==
    [function_id |-> htonl(o, h.function_id), body_len |-> ntohll(o, h.body_len)]

\* The struct is written from memory and read into memory as it is.
ToWire(o, h) == [function_id |-> Image32(o, h.function_id),
                 body_len |-> Image64(o, h.body_len)]
FromWire(o, h) == ToWire(o, h)

\* What a side with byte order o and cross_ending_ = b puts on the wire for a
\* header, and what it makes of the header bytes it reads.
Encode(o, b, h) == ToWire(o, IF b THEN prepare_for_send(o, h) ELSE h)
Decode(o, b, h) ==
    LET r == FromWire(o, h) IN IF b THEN parse_recieved(o, r) ELSE r

VARIABLES
    order,         \* the byte order of each side's host
    cross_ending,  \* cross_ending_ of each side
    phase,         \* how far the exchange is
    sent,          \* the header each side meant to send
    wire,          \* the header bytes in transit
    got            \* the header each side understood

vars == <<order, cross_ending, phase, sent, wire, got>>

\* The server understood the frame and can go on with it: it reads as many
\* body bytes as the client wrote. A length that differs leaves it waiting for
\* bytes, or reading the rest of the body as a header.
Understood(s, r) == got[r] = sent[s]

TypeOK ==
    /\ order \in [Side -> Order]
    /\ cross_ending \in [Side -> BOOLEAN]
    /\ phase \in {"idle", "request", "read", "response", "done"}
    /\ sent \in [Side -> Header] /\ got \in [Side -> Header]
    /\ wire \in Header

Init ==
    /\ order \in [Side -> Order]
    /\ cross_ending \in [Side -> BOOLEAN]
    /\ phase = "idle"
    /\ \E f \in FuncIds, l \in BodyLens :
         LET h == [function_id |-> f, body_len |-> l] IN
         /\ wire = h
         /\ sent = [s \in Side |-> h] /\ got = [s \in Side |-> h]

\* call_impl() or response(): the header is built, converted and written.
Send(s, from, to) ==
    /\ phase = from
    /\ phase' = to
    /\ \E f \in FuncIds, l \in BodyLens :
         LET h == [function_id |-> f, body_len |-> l] IN
         /\ sent' = [sent EXCEPT ![s] = h]
         /\ wire' = Encode(order[s], cross_ending[s], h)
    /\ UNCHANGED <<order, cross_ending, got>>

\* start() or wait_response(): the header is read and converted back.
Receive(s, from, to) ==
    /\ phase = from
    /\ phase' = to
    /\ got' = [got EXCEPT ![s] = Decode(order[s], cross_ending[s], wire)]
    /\ UNCHANGED <<order, cross_ending, sent, wire>>

Next ==
    \/ Send("client", "idle", "request")
    \/ Receive("server", "request", "read")
    \/ Understood("client", "server") /\ Send("server", "read", "response")
    \/ Receive("client", "response", "done")

Spec == Init /\ [][Next]_vars

-----------------------------------------------------------------------------
(* Properties *)

\* The receiver of the last frame has it.
Delivered(s) == IF s = "client" THEN phase \in {"read", "response", "done"}
                                ELSE phase = "done"
Peer(s) == IF s = "client" THEN "server" ELSE "client"

\* A word with its two halves exchanged.
Exchanged(w) == Shift32Or(Low(w), High(w))

(***************************************************************************)
(* A header is understood as it was meant if both sides agree on           *)
(* cross_ending and run on the same byte order, big-endian hosts included, *)
(* where htonll() exchanges the halves although htonl() does nothing. That *)
(* exchange is not undone by a host of the other order: with cross_ending  *)
(* on at both sides the function id crosses byte orders, the body length   *)
(* arrives with its halves exchanged, and is right only if they are equal. *)
(***************************************************************************)
HeaderUnderstood ==
    \A s \in Side : Delivered(s) =>
        /\ order["client"] = order["server"]
             /\ cross_ending["client"] = cross_ending["server"]
           => Understood(s, Peer(s))
        /\ cross_ending["client"] /\ cross_ending["server"] =>
             /\ got[Peer(s)].function_id = sent[s].function_id
             /\ order["client"] # order["server"] =>
                  got[Peer(s)].body_len = Exchanged(sent[s].body_len)

\* What makes it hold: a header in transit is the one its sender encoded.
InTransit ==
    /\ phase = "request" =>
         wire = Encode(order["client"], cross_ending["client"], sent["client"])
    /\ phase = "response" =>
         wire = Encode(order["server"], cross_ending["server"], sent["server"])
=============================================================================
