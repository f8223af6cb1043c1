-------------------------- MODULE RpcProtocolProofs --------------------------
(***************************************************************************)
(* Proofs about RpcProtocol, for every set of bytes, function ids and body *)
(* lengths: what one side encodes the other decodes to the same header.    *)
(***************************************************************************)
EXTENDS RpcProtocol, TLAPS

\* htonl() is its own inverse on either host, and keeps a word a word.
LEMMA HtonlInverse ==
    ASSUME NEW o \in Order, NEW w \in Word32
    PROVE  htonl(o, w) \in Word32 /\ htonl(o, htonl(o, w)) = w
BY DEF htonl, Word32, Order

\* The halves of a word, put together, are the word.
LEMMA Halves ==
    ASSUME NEW w \in Word64
    PROVE  Low(w) \in Word32 /\ High(w) \in Word32 /\ Shift32Or(High(w), Low(w)) = w
BY DEF Low, High, Shift32Or, Word32, Word64

LEMMA HalvesOf ==
    ASSUME NEW h \in Word32, NEW l \in Word32
    PROVE  /\ Shift32Or(h, l) \in Word64
           /\ Low(Shift32Or(h, l)) = l
           /\ High(Shift32Or(h, l)) = h
BY DEF Low, High, Shift32Or, Word32, Word64

\* ntohll() undoes htonll() on either host, big-endian hosts included.
LEMMA HtonllInverse ==
    ASSUME NEW o \in Order, NEW w \in Word64
    PROVE  htonll(o, w) \in Word64 /\ ntohll(o, htonll(o, w)) = w
<1> DEFINE l == htonl(o, Low(w))
           h == htonl(o, High(w))
<1>1. Low(w) \in Word32 /\ High(w) \in Word32 /\ Shift32Or(High(w), Low(w)) = w
  BY Halves
<1>2. l \in Word32 /\ h \in Word32 /\ htonl(o, l) = Low(w) /\ htonl(o, h) = High(w)
  BY <1>1, HtonlInverse
<1>3. htonll(o, w) = Shift32Or(l, h)
  BY DEF htonll
<1> HIDE DEF l, h
<1>4. /\ Shift32Or(l, h) \in Word64
      /\ Low(Shift32Or(l, h)) = h /\ High(Shift32Or(l, h)) = l
  BY <1>2, HalvesOf
<1>5. ntohll(o, Shift32Or(l, h)) = Shift32Or(htonl(o, h), htonl(o, l))
  BY <1>4 DEF ntohll
<1> QED
  BY <1>1, <1>2, <1>3, <1>4, <1>5

\* Writing a word to memory and reading it back on the same kind of host.
LEMMA ImageInverse ==
    ASSUME NEW o \in Order
    PROVE  /\ \A w \in Word32 : Image32(o, w) \in Word32 /\ Image32(o, Image32(o, w)) = w
           /\ \A w \in Word64 : Image64(o, w) \in Word64 /\ Image64(o, Image64(o, w)) = w
<1>1. ASSUME NEW w \in Word32
      PROVE  Image32(o, w) \in Word32 /\ Image32(o, Image32(o, w)) = w
  BY DEF Image32, Word32, Order
<1>2. ASSUME NEW w \in Word64
      PROVE  Image64(o, w) \in Word64 /\ Image64(o, Image64(o, w)) = w
  BY DEF Image64, Word64, Order
<1> QED
  BY <1>1, <1>2

\* Across byte orders: both put the converted word on the wire in one order.
LEMMA NetworkOrder ==
    ASSUME NEW o \in Order, NEW p \in Order, NEW w \in Word32
    PROVE  htonl(p, Image32(p, Image32(o, htonl(o, w)))) = w
BY DEF htonl, Image32, Word32, Order

LEMMA HeaderTypes ==
    ASSUME NEW o \in Order, NEW b \in BOOLEAN, NEW h \in Header
    PROVE  Encode(o, b, h) \in Header /\ Decode(o, b, h) \in Header
<1>1. h.function_id \in Word32 /\ h.body_len \in Word64
  BY DEF Header
<1>2. /\ prepare_for_send(o, h) \in Header
      /\ ToWire(o, h) \in Header
  BY <1>1, HtonlInverse, HtonllInverse, ImageInverse
     DEF prepare_for_send, ToWire, Header
<1>3. ASSUME NEW g \in Header PROVE ToWire(o, g) \in Header /\ parse_recieved(o, g) \in Header
  <2>1. g.function_id \in Word32 /\ g.body_len \in Word64
    BY DEF Header
  <2>2. ntohll(o, g.body_len) \in Word64
    BY <2>1, HtonllInverse DEF htonll, ntohll
  <2> QED
    BY <2>1, <2>2, HtonlInverse, ImageInverse DEF ToWire, parse_recieved, Header
<1> QED
  BY <1>2, <1>3 DEF Encode, Decode, FromWire

\* Hosts of one byte order with the same setting understand each other.
LEMMA SameOrder ==
    ASSUME NEW o \in Order, NEW b \in BOOLEAN, NEW h \in Header
    PROVE  Decode(o, b, Encode(o, b, h)) = h
<1>1. h.function_id \in Word32 /\ h.body_len \in Word64
      /\ h = [function_id |-> h.function_id, body_len |-> h.body_len]
  BY DEF Header
<1>2. CASE ~b
  BY <1>1, <1>2, ImageInverse DEF Decode, Encode, FromWire, ToWire
<1>3. CASE b
  <2> DEFINE f == htonl(o, h.function_id)
             l == htonll(o, h.body_len)
  <2>1. f \in Word32 /\ htonl(o, f) = h.function_id
    BY <1>1, HtonlInverse
  <2>2. l \in Word64 /\ ntohll(o, l) = h.body_len
    BY <1>1, HtonllInverse
  <2>3. Encode(o, b, h) = [function_id |-> Image32(o, f), body_len |-> Image64(o, l)]
    BY <1>3 DEF Encode, ToWire, prepare_for_send
  <2> HIDE DEF f, l
  <2>4. FromWire(o, Encode(o, b, h)) = [function_id |-> f, body_len |-> l]
    BY <2>1, <2>2, <2>3, ImageInverse DEF FromWire, ToWire
  <2>5. Decode(o, b, Encode(o, b, h)) = parse_recieved(o, [function_id |-> f, body_len |-> l])
    BY <1>3, <2>4 DEF Decode
  <2> QED
    BY <1>1, <2>1, <2>2, <2>5 DEF parse_recieved
<1> QED
  BY <1>2, <1>3

\* With cross_ending on at both ends the function id survives, whatever the
\* byte orders are.
LEMMA AnyOrder ==
    ASSUME NEW o \in Order, NEW p \in Order, NEW h \in Header
    PROVE  Decode(p, TRUE, Encode(o, TRUE, h)).function_id = h.function_id
<1>1. h.function_id \in Word32
  BY DEF Header
<1> QED
  BY <1>1, NetworkOrder
     DEF Decode, Encode, FromWire, ToWire, prepare_for_send, parse_recieved

\* A body length that htonll() converted for one byte order and ntohll() reads
\* on the other: every byte is in its place within the wrong half.
LEMMA OtherOrderWord ==
    ASSUME NEW o \in Order, NEW p \in Order, o # p, NEW w \in Word64
    PROVE  ntohll(p, Image64(p, Image64(o, htonll(o, w)))) = Exchanged(w)
<1>1. CASE o = "little" /\ p = "big"
  BY <1>1 DEF htonll, ntohll, htonl, Image64, Exchanged, Shift32Or, Low, High, Word64
<1>2. CASE o = "big" /\ p = "little"
  BY <1>2 DEF htonll, ntohll, htonl, Image64, Exchanged, Shift32Or, Low, High, Word64
<1> QED
  BY <1>1, <1>2 DEF Order

\* Hosts of different byte order, cross_ending on at both: the body length
\* arrives with its halves exchanged.
LEMMA OtherOrder ==
    ASSUME NEW o \in Order, NEW p \in Order, o # p, NEW h \in Header
    PROVE  Decode(p, TRUE, Encode(o, TRUE, h)).body_len = Exchanged(h.body_len)
<1>1. h.body_len \in Word64
  BY DEF Header
<1> QED
  BY <1>1, OtherOrderWord
     DEF Decode, Encode, FromWire, ToWire, prepare_for_send, parse_recieved

LEMMA ProtocolInit == Init => TypeOK /\ InTransit /\ HeaderUnderstood
<1> SUFFICES ASSUME Init PROVE TypeOK /\ InTransit /\ HeaderUnderstood
  OBVIOUS
<1>1. PICK f \in FuncIds, l \in BodyLens :
        LET h == [function_id |-> f, body_len |-> l] IN
        /\ wire = h /\ sent = [s \in Side |-> h] /\ got = [s \in Side |-> h]
  BY DEF Init
<1>2. [function_id |-> f, body_len |-> l] \in Header
  BY ProtocolAssumption DEF Header
<1> QED
  BY <1>1, <1>2 DEF Init, TypeOK, InTransit, HeaderUnderstood, Delivered

LEMMA SendStep ==
    ASSUME TypeOK, InTransit, HeaderUnderstood, NEW s \in Side,
           NEW from, NEW to, Send(s, from, to),
           \/ s = "client" /\ from = "idle" /\ to = "request"
           \/ s = "server" /\ from = "read" /\ to = "response"
    PROVE  TypeOK' /\ InTransit' /\ HeaderUnderstood'
<1>1. PICK f \in FuncIds, l \in BodyLens :
        LET h == [function_id |-> f, body_len |-> l] IN
        /\ sent' = [sent EXCEPT ![s] = h]
        /\ wire' = Encode(order[s], cross_ending[s], h)
  BY DEF Send
<1> DEFINE h == [function_id |-> f, body_len |-> l]
<1>2. h \in Header
  BY ProtocolAssumption DEF Header
<1>3. order[s] \in Order /\ cross_ending[s] \in BOOLEAN
  BY DEF TypeOK
<1>4. wire' \in Header
  BY <1>1, <1>2, <1>3, HeaderTypes
<1>5. TypeOK'
  BY <1>1, <1>2, <1>4 DEF TypeOK, Send
<1>6. InTransit'
  BY <1>1, <1>2 DEF TypeOK, InTransit, Send, Side
<1>7. HeaderUnderstood'
  BY <1>1 DEF HeaderUnderstood, Delivered, Peer, Understood, Send, Side, TypeOK
<1> QED
  BY <1>5, <1>6, <1>7

LEMMA ReceiveStep ==
    ASSUME TypeOK, InTransit, HeaderUnderstood, NEW r \in Side,
           NEW from, NEW to, Receive(r, from, to),
           \/ r = "server" /\ from = "request" /\ to = "read"
           \/ r = "client" /\ from = "response" /\ to = "done"
    PROVE  TypeOK' /\ InTransit' /\ HeaderUnderstood'
<1> DEFINE s == Peer(r)
<1>0. s \in Side /\ Peer(s) = r
  BY DEF Peer, Side
<1>1. /\ order[r] \in Order /\ cross_ending[r] \in BOOLEAN
      /\ order[s] \in Order /\ cross_ending[s] \in BOOLEAN
      /\ sent[s] \in Header /\ wire \in Header
  BY <1>0 DEF TypeOK
<1>2. wire = Encode(order[s], cross_ending[s], sent[s])
  BY DEF InTransit, Receive, Peer, Side
<1>3. got' = [got EXCEPT ![r] = Decode(order[r], cross_ending[r], wire)]
  BY DEF Receive
<1>4. TypeOK'
  BY <1>1, <1>3, HeaderTypes DEF TypeOK, Receive
<1>5. InTransit'
  BY DEF InTransit, Receive
<1>6. got'[r] = Decode(order[r], cross_ending[r], wire)
  BY <1>3 DEF TypeOK
<1>7. order[s] = order[r] /\ cross_ending[s] = cross_ending[r] => got'[r] = sent[s]
  BY <1>1, <1>2, <1>6, SameOrder
<1>8. cross_ending[s] /\ cross_ending[r] =>
        /\ got'[r].function_id = sent[s].function_id
        /\ order[s] # order[r] => got'[r].body_len = Exchanged(sent[s].body_len)
  <2> SUFFICES ASSUME cross_ending[s], cross_ending[r]
               PROVE  /\ got'[r].function_id = sent[s].function_id
                      /\ order[s] # order[r] =>
                           got'[r].body_len = Exchanged(sent[s].body_len)
    OBVIOUS
  <2>1. cross_ending[s] = TRUE /\ cross_ending[r] = TRUE
    BY <1>1, Zenon
  <2>2. got'[r] = Decode(order[r], TRUE, Encode(order[s], TRUE, sent[s]))
    BY <1>2, <1>6, <2>1, Zenon
  <2>3. Decode(order[r], TRUE, Encode(order[s], TRUE, sent[s])).function_id
          = sent[s].function_id
    <3> HIDE DEF s
    <3> QED
      BY <1>1, AnyOrder
  <2>4. order[s] # order[r] =>
          Decode(order[r], TRUE, Encode(order[s], TRUE, sent[s])).body_len
            = Exchanged(sent[s].body_len)
    <3> HIDE DEF s
    <3> QED
      BY <1>1, OtherOrder
  <2> QED
    BY <2>2, <2>3, <2>4, Zenon
<1>9. HeaderUnderstood'
  BY <1>0, <1>3, <1>7, <1>8
     DEF HeaderUnderstood, Delivered, Peer, Understood, Receive, Side, TypeOK
<1> QED
  BY <1>4, <1>5, <1>9

\* A header is understood as it was meant by a peer of the same byte order and
\* setting. When both enable cross_ending, a peer of the other byte order reads
\* the function id that was meant, and the body length with its halves exchanged.
THEOREM HeaderUnderstoodHolds == Spec => []HeaderUnderstood
<1> DEFINE I == TypeOK /\ InTransit /\ HeaderUnderstood
<1>1. Init => I
  BY ProtocolInit
<1>2. I /\ [Next]_vars => I'
  <2> SUFFICES ASSUME I, [Next]_vars PROVE I'
    OBVIOUS
  <2>1. CASE Send("client", "idle", "request")
    BY <2>1, SendStep DEF Side
  <2>2. CASE Receive("server", "request", "read")
    BY <2>2, ReceiveStep DEF Side
  <2>3. CASE Send("server", "read", "response")
    BY <2>3, SendStep DEF Side
  <2>4. CASE Receive("client", "response", "done")
    BY <2>4, ReceiveStep DEF Side
  <2>5. CASE UNCHANGED vars
    BY <2>5 DEF vars, TypeOK, InTransit, HeaderUnderstood, Delivered, Understood
  <2> QED
    BY <2>1, <2>2, <2>3, <2>4, <2>5 DEF Next
<1> QED
  BY <1>1, <1>2, PTL DEF Spec
=============================================================================
