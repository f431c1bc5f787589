------------------------------ MODULE Packets ------------------------------
(***************************************************************************)
(* The codec of protocol/: what every packet looks like on the wire, in    *)
(* both protocol versions, written and read as bytes.  A sender's packets  *)
(* follow each other on a byte stream; the receiver cuts the stream into   *)
(* frames and decodes them.  A connection may die at any byte.             *)
(*                                                                         *)
(* An encoder returns the set of byte strings it writes, a decoder the set *)
(* of packets it returns: a singleton, or nothing when it reports an       *)
(* error.  Strings are sequences of bytes; a byte above 127 stands for one *)
(* that no well-formed UTF-8 string has.  A uint32 is its two halves.      *)
(***************************************************************************)
EXTENDS Integers, SequencesExt

CONSTANTS
  Outgoing,             \* the packets that are sent
  Foreign,              \* byte strings a peer with another encoder sends
  MaxSent,              \* bound on the packets sent in a behaviour
  maxPacketSize         \* the receiver's limit

V311 == 4
V50 == 5
maxVarint == 268435455
maxStringLen == 65535

PacketType ==
  <<"CONNECT", "CONNACK", "PUBLISH", "PUBACK", "PUBREC", "PUBREL", "PUBCOMP", "SUBSCRIBE",
    "SUBACK", "UNSUBSCRIBE", "UNSUBACK", "PINGREQ", "PINGRESP", "DISCONNECT", "AUTH">>

Acks == {"PUBACK", "PUBREC", "PUBREL", "PUBCOMP"}

Bit(b, byte) == (byte \div b) % 2 = 1
If(b, cond) == IF cond THEN b ELSE 0

-----------------------------------------------------------------------------
\* The writers of wire.go.

RECURSIVE appendVarint(_)
appendVarint(v) == IF v < 128 THEN <<v>> ELSE <<(v % 128) + 128>> \o appendVarint(v \div 128)

Uint16(v) == <<v \div 256, v % 256>>
Uint32(v) == Uint16(v[1]) \o Uint16(v[2])

WellFormed(s) == \A i \in DOMAIN s : s[i] \in 1 .. 127

\* What appendString and appendBinary refuse, and what they write.
StringAllowed(s) == Len(s) <= maxStringLen /\ WellFormed(s)
BinaryAllowed(s) == Len(s) <= maxStringLen
appendString(s) == Uint16(Len(s)) \o s

Each(s, Write(_)) == FlattenSeq([i \in DOMAIN s |-> Write(s[i])])

writePacket(header, body) ==
  IF Len(body) > maxVarint THEN {} ELSE {<<header>> \o appendVarint(Len(body)) \o body}

-----------------------------------------------------------------------------
\* The cursor of wire.go: the bytes left, the values read, and whether every
\* read so far succeeded.

newCursor(b) == [ok |-> TRUE, buf |-> b, out |-> <<>>]
Malformed(c) == [c EXCEPT !.ok = FALSE]
Short(c, n) == ~c.ok \/ Len(c.buf) < n
Read(c, n, value) == [c EXCEPT !.buf = SubSeq(@, n + 1, Len(@)), !.out = Append(@, value)]
Given(c, value) == IF c.ok THEN Read(c, 0, value) ELSE c

readByte(c) == IF Short(c, 1) THEN Malformed(c) ELSE Read(c, 1, c.buf[1])

readUint16(c) == IF Short(c, 2) THEN Malformed(c) ELSE Read(c, 2, 256 * c.buf[1] + c.buf[2])

readUint32(c) ==
  IF Short(c, 4) THEN Malformed(c)
  ELSE Read(c, 4, <<256 * c.buf[1] + c.buf[2], 256 * c.buf[3] + c.buf[4]>>)

\* The value ends at the first of four bytes without a continuation bit,
\* and not on a superfluous zero.
readVarint(c) ==
  LET ends == {k \in 1 .. 4 : k <= Len(c.buf) /\ c.buf[k] < 128 /\ \A j \in 1 .. k - 1 : c.buf[j] >= 128}
      k    == CHOOSE e \in ends : TRUE
  IN  IF ~c.ok \/ ends = {} THEN Malformed(c)
      ELSE IF k > 1 /\ c.buf[k] = 0 THEN Malformed(c)
      ELSE Read(c, k, FoldRight(LAMBDA b, v : (b % 128) + 128 * v, SubSeq(c.buf, 1, k), 0))

readBinary(c) ==
  LET n == 256 * c.buf[1] + c.buf[2]
  IN  IF Short(c, 2) \/ Short(c, 2 + n) THEN Malformed(c) ELSE Read(c, 2 + n, SubSeq(c.buf, 3, 2 + n))

\* A value just read is refused.
Refuse(c, cond) == IF c.ok /\ cond THEN Malformed(c) ELSE c

validString(c) == Refuse(c, ~WellFormed(Last(c.out)))
readString(c) == validString(readBinary(c))

readRest(c) == IF c.ok THEN Read(c, Len(c.buf), c.buf) ELSE c

Done(c) == c.ok /\ c.buf = <<>>

-----------------------------------------------------------------------------
\* Properties (properties.go).  A block is nil, or maps the identifiers that
\* are populated to their values: a number, the halves of a uint32, a string
\* of bytes that is not empty, or a sequence of identifiers or of pairs.

Nil == [nil |-> TRUE, of |-> <<>>]
Props(f) == [nil |-> FALSE, of |-> f]

propertySpec(target) ==
  {\h26} \cup
  (CASE target = "PUBLISH"     -> {\h01, \h02, \h03, \h08, \h09, \h0B, \h23}
     [] target = "WILL"        -> {\h01, \h02, \h03, \h08, \h09, \h18}
     [] target = "SUBSCRIBE"   -> {\h0B}
     [] target = "CONNECT"     -> {\h11, \h15, \h16, \h17, \h19, \h21, \h22, \h27}
     [] target = "CONNACK"     -> {\h11, \h12, \h13, \h15, \h16, \h1A, \h1C, \h1F, \h21, \h22,
                                   \h24, \h25, \h27, \h28, \h29, \h2A}
     [] target = "DISCONNECT"  -> {\h11, \h1C, \h1F}
     [] target = "AUTH"        -> {\h15, \h16, \h1F}
     [] target = "UNSUBSCRIBE" -> {}
     [] target \in Acks \cup {"SUBACK", "UNSUBACK"} -> {\h1F})

\* The writer encode uses for a property, and the reader decodeOne uses.
writes(id) ==
  CASE id \in {\h01, \h17, \h19, \h24, \h25, \h28, \h29, \h2A} -> "byte"
    [] id \in {\h13, \h21, \h22, \h23}                         -> "uint16"
    [] id \in {\h02, \h11, \h18, \h27}                         -> "uint32"
    [] id \in {\h03, \h08, \h12, \h15, \h1A, \h1C, \h1F}       -> "string"
    [] id \in {\h09, \h16}                                     -> "binary"
    [] id = \h0B                                               -> "identifiers"
    [] id = \h26                                               -> "pairs"

\* Mutant: the two tables have drifted apart on the server keep alive.
readsDrifted(id) == IF id = \h13 THEN "uint32" ELSE writes(id)

reads(id) ==
  CASE id \in {\h01, \h17, \h19, \h24, \h25, \h28, \h29, \h2A} -> "byte"
    [] id \in {\h13, \h21, \h22, \h23}                         -> "uint16"
    [] id \in {\h02, \h11, \h18, \h27}                         -> "uint32"
    [] id \in {\h03, \h08, \h12, \h15, \h1A, \h1C, \h1F}       -> "string"
    [] id \in {\h09, \h16}                                     -> "binary"
    [] id = \h0B                                               -> "identifiers"
    [] id = \h26                                               -> "pairs"

propertyValueViolation(id, v) ==
  \/ id \in {\h01, \h17, \h19, \h24, \h25, \h28, \h29, \h2A} /\ v > 1
  \/ id \in {\h21, \h23} /\ v = 0
  \/ id = \h27 /\ v = <<0, 0>>

\* encode refuses a block with a property that is out of place, or a value
\* out of its range, before anything is written.
encodeAllowed(p, target) ==
  \A id \in DOMAIN p.of :
    LET v == p.of[id]
    IN  /\ id \in propertySpec(target)
        /\ CASE writes(id) \in {"byte", "uint16", "uint32"} -> ~propertyValueViolation(id, v)
             [] writes(id) = "string" -> StringAllowed(v)
             [] writes(id) = "binary" -> BinaryAllowed(v)
             [] writes(id) = "pairs"  -> \A i \in DOMAIN v : StringAllowed(v[i][1]) /\ StringAllowed(v[i][2])
             [] writes(id) = "identifiers" ->
                  /\ target = "SUBSCRIBE" => Len(v) <= 1
                  /\ \A i \in DOMAIN v : v[i] \in 1 .. maxVarint

encodeOne(id, v) ==
  CASE writes(id) = "byte"   -> <<id, v>>
    [] writes(id) = "uint16" -> <<id>> \o Uint16(v)
    [] writes(id) = "uint32" -> <<id>> \o Uint32(v)
    [] writes(id) \in {"string", "binary"} -> <<id>> \o appendString(v)
    [] writes(id) = "identifiers" -> Each(v, LAMBDA x : <<id>> \o appendVarint(x))
    [] writes(id) = "pairs" -> Each(v, LAMBDA x : <<id>> \o appendString(x[1]) \o appendString(x[2]))

\* In ascending order of the identifiers, behind the length of the block.
encode(p) ==
  LET ids  == SelectSeq([i \in 1 .. \h2A |-> i], LAMBDA id : id \in DOMAIN p.of)
      body == Each(ids, LAMBDA id : encodeOne(id, p.of[id]))
  IN  appendVarint(Len(body)) \o body

repeatableProperty(id, target) == id = \h26 \/ (id = \h0B /\ target = "PUBLISH")

\* Mutant: decoding does not look at the ranges.
readPropUnchecked(c, id) == c

\* readPropByte, readPropUint16 and readPropUint32, after the read.
readProp(c, id) == Refuse(c, propertyValueViolation(id, Last(c.out)))

nonZero(c) == Refuse(c, Last(c.out) = 0)
paired(c) == IF c.ok THEN [c EXCEPT !.out = <<<<@[1], @[2]>>>>] ELSE c

decodeOne(c, id) ==
  CASE reads(id) = "byte"   -> readProp(readByte(c), id)
    [] reads(id) = "uint16" -> readProp(readUint16(c), id)
    [] reads(id) = "uint32" -> readProp(readUint32(c), id)
    [] reads(id) = "string" -> readString(c)
    [] reads(id) = "binary" -> readBinary(c)
    [] reads(id) = "identifiers" -> nonZero(readVarint(c))
    [] reads(id) = "pairs"  -> paired(readString(readString(c)))

\* A string that is empty is one that is absent; sequences grow.
store(f, id, v) ==
  LET old == IF id \in DOMAIN f THEN f[id] ELSE <<>>
      new == IF reads(id) \in {"identifiers", "pairs"} THEN Append(old, v) ELSE v
  IN  IF reads(id) \in {"string", "binary"} /\ v = <<>> THEN f
      ELSE [i \in DOMAIN f \cup {id} |-> IF i = id THEN new ELSE f[i]]

\* The properties up to the end of the block; r is what decodeOne made of
\* the next one.
RECURSIVE decodeAll(_, _, _, _), decodeNext(_, _, _, _, _)
decodeAll(c, f, seen, target) ==
  IF Done(c) THEN {f}
  ELSE decodeNext(decodeOne(newCursor(Tail(c.buf)), c.buf[1]), c.buf[1], f, seen, target)

decodeNext(r, id, f, seen, target) ==
  IF \/ id \notin propertySpec(target)
     \/ id \in seen /\ ~repeatableProperty(id, target)
     \/ ~r.ok
  THEN {}
  ELSE decodeAll(newCursor(r.buf), store(f, id, r.out[1]), seen \cup {id}, target)

\* The block ends where its length says, whatever the packet holds after it.
blockValue(c, n, found) ==
  IF found = {} THEN Malformed(c)
  ELSE Read(c, n, IF n = 0 THEN Nil ELSE Props(CHOOSE f \in found : TRUE))

blockAfter(l, out, target) ==
  LET n == Last(l.out)
  IN  IF ~l.ok THEN l
      ELSE IF n > Len(l.buf) THEN Malformed(l)
      ELSE blockValue([l EXCEPT !.out = out], n, decodeAll(newCursor(SubSeq(l.buf, 1, n)), <<>>, {}, target))

decodeProperties(c, target) == blockAfter(readVarint(c), c.out, target)

readBlock(c, v, target) == IF v = V50 THEN decodeProperties(c, target) ELSE Given(c, Nil)

-----------------------------------------------------------------------------
\* The packets the client writes.  header is the type and the flag bits.

Header(type, flags) == 16 * (CHOOSE i \in DOMAIN PacketType : PacketType[i] = type) + flags

Block(v, p) == IF v = V50 THEN encode(p) ELSE <<>>
BlockAllowed(v, p, target) == v = V50 => encodeAllowed(p, target)

EncodePublish(v, p) ==
  IF /\ p.qos <= 2 /\ (p.qos > 0 => p.id # 0) /\ ~(p.qos = 0 /\ p.dup)
     /\ StringAllowed(p.topic) /\ BlockAllowed(v, p.props, "PUBLISH")
  THEN writePacket(Header("PUBLISH", If(8, p.dup) + 2 * p.qos + If(1, p.retain)),
                   appendString(p.topic) \o (IF p.qos > 0 THEN Uint16(p.id) ELSE <<>>)
                   \o Block(v, p.props) \o p.payload)
  ELSE {}

\* The identifier; in version 5 also the reason, and the properties, from
\* the first that there is something to say about.
EncodeAck(v, p) ==
  IF p.id # 0 /\ (v = V50 /\ ~p.props.nil => encodeAllowed(p.props, p.type))
  THEN writePacket(Header(p.type, If(2, p.type = "PUBREL")),
                   Uint16(p.id)
                   \o (IF v = V50 /\ (p.reason # 0 \/ ~p.props.nil) THEN <<p.reason>> ELSE <<>>)
                   \o (IF v = V50 /\ ~p.props.nil THEN encode(p.props) ELSE <<>>))
  ELSE {}

subscribeOptionsByte(v, o) ==
  o.qos + (IF v = V50 THEN If(4, o.noLocal) + If(8, o.retainAsPublished) + 16 * o.retainHandling ELSE 0)

optionsAllowed(v, o) == o.qos <= 2 /\ (v = V50 => o.retainHandling <= 2)

EncodeSubscribe(v, p) ==
  IF /\ p.id # 0 /\ p.subs # <<>> /\ BlockAllowed(v, p.props, "SUBSCRIBE")
     /\ \A i \in DOMAIN p.subs : StringAllowed(p.subs[i].filter) /\ optionsAllowed(v, p.subs[i].options)
  THEN writePacket(Header("SUBSCRIBE", 2),
                   Uint16(p.id) \o Block(v, p.props)
                   \o Each(p.subs, LAMBDA s : appendString(s.filter) \o <<subscribeOptionsByte(v, s.options)>>))
  ELSE {}

EncodeUnsubscribe(v, p) ==
  IF /\ p.id # 0 /\ p.filters # <<>> /\ BlockAllowed(v, p.props, "UNSUBSCRIBE")
     /\ \A i \in DOMAIN p.filters : StringAllowed(p.filters[i])
  THEN writePacket(Header("UNSUBSCRIBE", 2),
                   Uint16(p.id) \o Block(v, p.props) \o Each(p.filters, appendString))
  ELSE {}

\* "MQTT"
ProtocolName == <<77, 81, 84, 84>>

\* will is empty, or holds the one will.
EncodeConnect(v, p) ==
  LET hasUser == p.username # <<>>
      hasPass == p.password # <<>>
      willFlags(w) == <<4 + 8 * w.qos + If(32, w.retain)>>
      flags == If(128, hasUser) + If(64, hasPass) + FoldSeq(+, 0, Each(p.will, willFlags)) + If(2, p.cleanStart)
  IN  IF /\ ~(v = V311 /\ hasPass /\ ~hasUser)
         /\ BlockAllowed(v, p.props, "CONNECT") /\ StringAllowed(p.clientID)
         /\ \A w \in ToSet(p.will) : /\ w.qos <= 2 /\ BlockAllowed(v, w.props, "WILL")
                                     /\ StringAllowed(w.topic) /\ BinaryAllowed(w.payload)
         /\ StringAllowed(p.username) /\ BinaryAllowed(p.password)
      THEN writePacket(Header("CONNECT", 0),
                       appendString(ProtocolName) \o <<v, flags>> \o Uint16(p.keepAlive)
                       \o Block(v, p.props) \o appendString(p.clientID)
                       \o Each(p.will, LAMBDA w : Block(v, w.props) \o appendString(w.topic)
                                                  \o appendString(w.payload))
                       \o (IF hasUser THEN appendString(p.username) ELSE <<>>)
                       \o (IF hasPass THEN appendString(p.password) ELSE <<>>))
      ELSE {}

EncodeDisconnect(v, p) ==
  IF v = V311 \/ (p.reason = 0 /\ p.props.nil) THEN writePacket(Header("DISCONNECT", 0), <<>>)
  ELSE IF encodeAllowed(p.props, "DISCONNECT")
       THEN writePacket(Header("DISCONNECT", 0), <<p.reason>> \o encode(p.props))
       ELSE {}

\* EncodePingReq and EncodePingResp.
EncodePing(p) == writePacket(Header(p.type, 0), <<>>)

\* External: a broker's CONNACK, SUBACK, UNSUBACK and AUTH.
EncodeByPeer(v, p) ==
  LET block == Block(v, p.props)
      body  == CASE p.type = "CONNACK"  -> <<If(1, p.present), p.reason>> \o block
                 [] p.type = "SUBACK"   -> Uint16(p.id) \o block \o p.codes
                 [] p.type = "UNSUBACK" -> Uint16(p.id) \o block \o (IF v = V50 THEN p.codes ELSE <<>>)
                 [] p.type = "AUTH"     -> <<p.reason>> \o block
  IN  IF p.type = "AUTH" /\ v = V311 THEN {} ELSE writePacket(Header(p.type, 0), body)

Encode(v, p) ==
  CASE p.type = "PUBLISH"     -> EncodePublish(v, p)
    [] p.type \in Acks        -> EncodeAck(v, p)
    [] p.type = "SUBSCRIBE"   -> EncodeSubscribe(v, p)
    [] p.type = "UNSUBSCRIBE" -> EncodeUnsubscribe(v, p)
    [] p.type = "CONNECT"     -> EncodeConnect(v, p)
    [] p.type = "DISCONNECT"  -> EncodeDisconnect(v, p)
    [] p.type \in {"PINGREQ", "PINGRESP"} -> EncodePing(p)
    [] OTHER                  -> EncodeByPeer(v, p)

-----------------------------------------------------------------------------
\* The packets the client reads.

\* The identifier of a PUBLISH, which QoS 0 has none of.
readPublishID(c, qos) == IF qos > 0 THEN readUint16(c) ELSE Given(c, 0)

DecodePublish(v, header, body) ==
  LET flags == header % 16
      qos   == (flags \div 2) % 4
      fits(r) == /\ qos # 3 /\ ~(qos = 0 /\ Bit(8, flags)) /\ r.ok
                 /\ \A i \in DOMAIN r.out[1] : r.out[1][i] \notin {35, 43}         \* "#" and "+"
                 /\ qos > 0 => r.out[2] # 0
                 /\ r.out[1] = <<>> => \h23 \in DOMAIN r.out[3].of
  IN  {[type |-> "PUBLISH", topic |-> r.out[1], id |-> r.out[2], props |-> r.out[3],
        payload |-> r.out[4], qos |-> qos, dup |-> Bit(8, flags), retain |-> Bit(1, flags)] :
       r \in {c \in {readRest(readBlock(readPublishID(readString(newCursor(body)), qos), v, "PUBLISH"))} : fits(c)}}

\* What DecodeAck, DecodeDisconnect and DecodeAuth share: in version 5 no
\* reason, a reason, or a reason and properties.  Nothing may follow.
afterReason(c, target) == IF Done(c) THEN Given(c, Nil) ELSE decodeProperties(c, target)
readReason(c, v, target) ==
  IF v = V311 \/ Done(c) THEN Given(Given(c, 0), Nil) ELSE afterReason(readByte(c), target)

DecodeAck(v, t, body) ==
  {[type |-> t, id |-> r.out[1], reason |-> r.out[2], props |-> r.out[3]] :
   r \in {c \in {readReason(readUint16(newCursor(body)), v, t)} : Done(c) /\ c.out[1] # 0}}

reasonPacket(t, r) == {[type |-> t, reason |-> c.out[1], props |-> c.out[2]] : c \in {x \in {r} : Done(x)}}

DecodeDisconnect(v, body) == reasonPacket("DISCONNECT", readReason(newCursor(body), v, "DISCONNECT"))
DecodeAuth(body) == reasonPacket("AUTH", readReason(newCursor(body), V50, "AUTH"))

subackReason(v) ==
  {\h00, \h01, \h02, \h80} \cup
  (IF v = V50 THEN {\h83, \h87, \h8F, \h91, \h97, \h9E, \hA1, \hA2} ELSE {})

unsubackReason == {\h00, \h11, \h80, \h83, \h87, \h8F, \h91}

readCodes(v, t, body) == readRest(readBlock(readUint16(newCursor(body)), v, t))

DecodeSuback(v, body) ==
  {[type |-> "SUBACK", id |-> r.out[1], props |-> r.out[2], codes |-> r.out[3]] :
   r \in {c \in {readCodes(v, "SUBACK", body)} :
            c.ok /\ c.out[1] # 0 /\ c.out[3] # <<>> /\ ToSet(c.out[3]) \subseteq subackReason(v)}}

DecodeUnsuback(v, body) ==
  {[type |-> "UNSUBACK", id |-> r.out[1], props |-> r.out[2], codes |-> r.out[3]] :
   r \in {c \in {readCodes(v, "UNSUBACK", body)} :
            /\ c.ok /\ c.out[1] # 0
            /\ IF v = V50 THEN c.out[3] # <<>> /\ ToSet(c.out[3]) \subseteq unsubackReason ELSE c.out[3] = <<>>}}

\* A 3.1.1 return code as the reason code of version 5 it stands for.
v3ConnackReason(rc) ==
  IF rc = 0 THEN 0 ELSE IF rc \in 1 .. 5 THEN <<\h84, \h85, \h88, \h86, \h87>>[rc] ELSE \h80

DecodeConnack(v, body) ==
  {[type |-> "CONNACK", present |-> r.out[1] = 1, props |-> r.out[3],
    reason |-> IF v = V50 THEN r.out[2] ELSE v3ConnackReason(r.out[2])] :
   r \in {c \in {readBlock(readByte(readByte(newCursor(body))), v, "CONNACK")} :
            Done(c) /\ c.out[1] \in {0, 1} /\ ~(c.out[1] = 1 /\ c.out[2] # 0)}}

\* External: a broker's reading of CONNECT, SUBSCRIBE and UNSUBSCRIBE.
RECURSIVE readFilters(_, _)
readFilters(c, options) ==
  IF ~c.ok \/ c.buf = <<>> THEN c
  ELSE readFilters(IF options THEN readByte(readString(c)) ELSE readString(c), options)

\* External: the fields of a CONNECT that its flags, the third value read,
\* announce.
Announced(b, c) == c.ok /\ Bit(b, c.out[3])
readWill(c, v) ==
  IF Announced(4, c) THEN readBinary(readString(readBlock(c, v, "WILL")))
  ELSE Given(Given(Given(c, Nil), <<>>), <<>>)
readUser(c) == IF Announced(128, c) THEN readString(c) ELSE Given(c, <<>>)
readPassword(c) == IF Announced(64, c) THEN readBinary(c) ELSE Given(c, <<>>)

readConnect(v, body) ==
  LET head == readBlock(readUint16(readByte(readByte(readString(newCursor(body))))), v, "CONNECT")
  IN  readPassword(readUser(readWill(readString(head), v)))

DecodeByPeer(v, type, body) ==
  LET list == readFilters(readBlock(readUint16(newCursor(body)), v, type), type = "SUBSCRIBE")
      options(b) == [qos |-> b % 4, noLocal |-> Bit(4, b), retainAsPublished |-> Bit(8, b), retainHandling |-> b \div 16]
  IN  CASE type = "SUBSCRIBE" ->
             {[type |-> type, id |-> r.out[1], props |-> r.out[2],
               subs |-> [i \in 1 .. (Len(r.out) - 2) \div 2 |->
                           [filter |-> r.out[2 * i + 1], options |-> options(r.out[2 * i + 2])]]] :
              r \in {c \in {list} : Done(c)}}
        [] type = "UNSUBSCRIBE" ->
             {[type |-> type, id |-> r.out[1], props |-> r.out[2], filters |-> SubSeq(r.out, 3, Len(r.out))] :
              r \in {c \in {list} : Done(c)}}
        [] type = "CONNECT" ->
             {[type |-> type, keepAlive |-> r.out[4], props |-> r.out[5], clientID |-> r.out[6],
               will |-> IF Announced(4, r)
                        THEN <<[props |-> r.out[7], topic |-> r.out[8], payload |-> r.out[9],
                                qos |-> (r.out[3] \div 8) % 4, retain |-> Announced(32, r)]>> ELSE <<>>,
               username |-> r.out[10], password |-> r.out[11], cleanStart |-> Announced(2, r)] :
              r \in {c \in {readConnect(v, body)} : Done(c) /\ c.out[1] = ProtocolName /\ c.out[2] = v}}

\* The decoder of a frame, by its type.
Decode(v, header, body) ==
  LET type == PacketType[header \div 16]
  IN  CASE type = "PUBLISH"    -> DecodePublish(v, header, body)
        [] type \in Acks       -> DecodeAck(v, type, body)
        [] type = "SUBACK"     -> DecodeSuback(v, body)
        [] type = "UNSUBACK"   -> DecodeUnsuback(v, body)
        [] type = "CONNACK"    -> DecodeConnack(v, body)
        [] type = "DISCONNECT" -> DecodeDisconnect(v, body)
        [] type = "AUTH"       -> DecodeAuth(body)
        [] type \in {"PINGREQ", "PINGRESP"} -> {[type |-> type]}
        [] OTHER               -> DecodeByPeer(v, type, body)

ValidateFlags(header) ==
  LET flags == header % 16
      qos   == (flags \div 2) % 4
      type  == PacketType[header \div 16]
  IN  /\ header \div 16 \in DOMAIN PacketType
      /\ CASE type = "PUBLISH" -> qos # 3 /\ ~(qos = 0 /\ Bit(8, flags))
           [] type \in {"PUBREL", "SUBSCRIBE", "UNSUBSCRIBE"} -> flags = 2
           [] OTHER -> flags = 0

\* The first frame of a byte stream, unless there is more of it to come.
ReadFrame(s) ==
  LET l == readVarint(newCursor(Tail(s)))
  IN  IF s = <<>> \/ (~l.ok /\ Len(s) <= 4 /\ \A i \in 2 .. Len(s) : s[i] >= 128) THEN [outcome |-> "wait"]
      ELSE IF ~l.ok THEN [outcome |-> "malformed"]
      ELSE IF Len(s) - Len(l.buf) + l.out[1] > maxPacketSize THEN [outcome |-> "toolarge"]
      ELSE IF Len(l.buf) < l.out[1] THEN [outcome |-> "wait"]
      ELSE [outcome |-> "frame", header |-> s[1], body |-> SubSeq(l.buf, 1, l.out[1]),
            rest |-> SubSeq(l.buf, l.out[1] + 1, Len(l.buf))]

-----------------------------------------------------------------------------
VARIABLES
  version,              \* the protocol version of the connection
  stream,               \* bytes written and not yet read
  broken,               \* the connection is gone: nothing follows the stream
  sent, received,       \* the packets written and the packets read
  foreign,              \* the peer writes with an encoder of its own
  reader                \* "open", or why the read loop has ended

vars == <<version, stream, broken, sent, received, foreign, reader>>

\* The stream is empty, or holds what a peer with another encoder has sent.
Init ==
  /\ version \in {V311, V50} /\ broken = FALSE
  /\ sent = <<>> /\ received = <<>> /\ reader = "open"
  /\ stream \in {<<>>} \cup Foreign /\ foreign = (stream # <<>>)

\* A packet is encoded.  One that the encoder refuses leaves no byte behind.
Send(p) ==
  /\ ~broken /\ ~foreign /\ reader = "open" /\ Len(sent) < MaxSent
  /\ \E frame \in Encode(version, p) : stream' = stream \o frame
  /\ sent' = Append(sent, p)
  /\ UNCHANGED <<version, broken, received, foreign, reader>>

\* External: the connection dies; a prefix of what was written arrives.
Break(n) ==
  /\ ~broken /\ ~foreign /\ n < Len(stream) /\ reader = "open"
  /\ broken' = TRUE /\ stream' = SubSeq(stream, 1, n)
  /\ UNCHANGED <<version, sent, received, foreign, reader>>

\* readLoop: a frame is read, its flags are checked (the handshake reads its
\* CONNACK without that), and it is decoded.
Receive ==
  \E f \in {ReadFrame(stream)} :
    /\ reader = "open" /\ (f.outcome = "wait" => broken)
    /\ \E accepted \in {IF f.outcome = "frame" /\ (f.header \div 16 = 2 \/ ValidateFlags(f.header))
                         THEN Decode(version, f.header, f.body) ELSE {}} :
         \/ \E p \in accepted : received' = Append(received, p) /\ stream' = f.rest /\ UNCHANGED reader
         \/ /\ accepted = {}
            /\ reader' = CASE f.outcome = "wait" -> "eof" [] f.outcome = "toolarge" -> "toolarge" [] OTHER -> "malformed"
            /\ UNCHANGED <<received, stream>>
    /\ UNCHANGED <<version, broken, sent, foreign>>

Next ==
  \/ \E p \in Outgoing : Send(p)
  \/ \E n \in 0 .. Len(stream) : Break(n)
  \/ Receive

Spec == Init /\ [][Next]_vars

-----------------------------------------------------------------------------
\* What a packet says in a protocol version.  Version 3.1.1 has no
\* properties, options or reasons to put on the wire; its return codes say
\* only whether they refuse.
Meaning(p) ==
  LET v311 == version = V311
      bare(q) == [x \in {"props"} \cap DOMAIN q |-> IF v311 THEN <<>> ELSE q.props.of]
                 @@ [x \in DOMAIN q |-> q[x]]
      plain(o) == [o EXCEPT !.noLocal = FALSE, !.retainAsPublished = FALSE, !.retainHandling = 0]
  IN  CASE v311 /\ p.type \in Acks \cup {"DISCONNECT"} -> [bare(p) EXCEPT !.reason = 0]
        [] v311 /\ p.type = "CONNACK"   -> [bare(p) EXCEPT !.reason = IF @ = 0 THEN 0 ELSE 1]
        [] v311 /\ p.type = "UNSUBACK"  -> [bare(p) EXCEPT !.codes = <<>>]
        [] v311 /\ p.type = "SUBSCRIBE" -> [bare(p) EXCEPT !.subs = [i \in DOMAIN @ |-> [@[i] EXCEPT !.options = plain(@)]]]
        [] p.type = "CONNECT"           -> [bare(p) EXCEPT !.will = [i \in DOMAIN @ |-> bare(@[i])]]
        [] OTHER                        -> bare(p)

\* writePacket and ReadFrame stay in step: what is read is what was written,
\* in the order it was written, none of it malformed, none of it left out,
\* and no more of it than arrived whole when the connection dies.
StreamInStep ==
  ~foreign =>
    /\ reader \in {"open", "eof"}
    /\ Len(received) <= Len(sent)
    /\ \A i \in DOMAIN received : Meaning(received[i]) = Meaning(sent[i])
    /\ stream = <<>> /\ ~broken => Len(received) = Len(sent)

\* properties.go, "Both directions of the codec stay symmetric": whatever the
\* decoders accept of the packets that travel both ways, the encoders can
\* say, and it reads back the same.
AcceptedIsExpressible ==
  \A i \in {j \in DOMAIN received : received[j].type \in Acks \cup {"PUBLISH", "DISCONNECT"}} :
    \E s \in Encode(version, received[i]) : \E f \in {ReadFrame(s)} :
      /\ ValidateFlags(f.header)
      /\ {Meaning(p) : p \in Decode(version, f.header, f.body)} = {Meaning(received[i])}

=============================================================================
