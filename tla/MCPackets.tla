----------------------------- MODULE MCPackets -----------------------------
EXTENDS Packets

A == <<97>>

\* A value of every property, and the block with all that a packet may carry.
Good(id, target) ==
  CASE writes(id) = "byte"   -> 1
    [] writes(id) = "uint16" -> 258
    [] writes(id) = "uint32" -> <<1, 515>>
    [] writes(id) = "string" -> A
    [] writes(id) = "binary" -> <<0, 255>>
    [] writes(id) = "identifiers" -> IF target = "SUBSCRIBE" THEN <<200>> ELSE <<1, 300>>
    [] writes(id) = "pairs"  -> <<<<A, <<>>>>, <<A, <<98>>>>>>

Full(target) == Props([id \in propertySpec(target) |-> Good(id, target)])
One(id, value) == Props([i \in {id} |-> value])

\* Blocks: none, an empty one, a full one, one out of place,
\* and some with a value out of range.
Blocks(target) ==
  {Nil, Props(<<>>), Full(target), One(\h18, <<0, 1>>), One(\h01, 2), One(\h23, 0),
   One(\h0B, <<0>>), One(\h0B, <<1, 2>>), One(\h27, <<0, 0>>), One(\h26, <<<<A, <<0>>>>>>)}

publish(topic, id, qos, dup, retain, payload, props) ==
  [type |-> "PUBLISH", topic |-> topic, id |-> id, qos |-> qos, dup |-> dup, retain |-> retain,
   payload |-> payload, props |-> props]

Publishes ==
  {publish(A, 258, 2, d, r, <<0, 255>>, Nil) : d \in BOOLEAN, r \in BOOLEAN}
  \cup {publish(A, 0, q, d, FALSE, <<>>, Nil) : q \in 0 .. 1, d \in BOOLEAN}
  \cup {publish(A, 1, 1, FALSE, FALSE, A, b) : b \in Blocks("PUBLISH")}
  \cup {publish(A, 0, 0, FALSE, TRUE, [i \in 1 .. 130 |-> i], Nil),
        publish([i \in 1 .. 65536 |-> 97], 0, 0, FALSE, FALSE, A, Nil),
        publish(<<97, 255>>, 0, 0, FALSE, FALSE, A, Nil)}

AckPackets ==
  {[type |-> "PUBREL", id |-> i, reason |-> r, props |-> b] :
     i \in {0, 258}, r \in {0, 146}, b \in {Nil, Full("PUBREL")}}
  \cup {[type |-> t, id |-> 1, reason |-> 128, props |-> Nil] : t \in Acks}
  \cup {[type |-> "PUBACK", id |-> 1, reason |-> 0, props |-> b] : b \in Blocks("PUBACK") \ {Nil}}

opts(q, nl, rap, rh) == [qos |-> q, noLocal |-> nl, retainAsPublished |-> rap, retainHandling |-> rh]

Subscribes ==
  {[type |-> "SUBSCRIBE", id |-> 1, subs |-> s, props |-> b] :
     b \in {Full("SUBSCRIBE"), One(\h0B, <<1, 2>>)},
     s \in {<<>>, <<[filter |-> A, options |-> opts(2, TRUE, FALSE, 2)]>>,
            <<[filter |-> A, options |-> opts(1, FALSE, TRUE, 1)], [filter |-> <<98>>, options |-> opts(0, TRUE, TRUE, 3)]>>,
            <<[filter |-> A, options |-> opts(1, FALSE, TRUE, 1)], [filter |-> <<98>>, options |-> opts(0, TRUE, TRUE, 0)]>>}}
  \cup {[type |-> "UNSUBSCRIBE", id |-> 1, filters |-> f, props |-> b] :
          f \in {<<>>, <<A, <<98>>>>}, b \in {Nil, Full("UNSUBSCRIBE")}}

Wills == {<<>>} \cup {<<[topic |-> A, payload |-> <<0>>, qos |-> q, retain |-> q = 1, props |-> Full("WILL")]>> :
                        q \in {1, 3}}

Connects ==
  {[type |-> "CONNECT", clientID |-> A, keepAlive |-> 258, username |-> u, password |-> w, cleanStart |-> u = <<>>,
    will |-> l, props |-> IF w = <<>> THEN Nil ELSE Full("CONNECT")] : u \in {<<>>, A}, w \in {<<>>, <<98>>}, l \in Wills}

Answers ==
  {[type |-> "CONNACK", present |-> s, reason |-> If(5, ~s), props |-> IF s THEN Full("CONNACK") ELSE Nil] : s \in BOOLEAN}
  \cup {[type |-> "SUBACK", id |-> 1, codes |-> <<1, 128>>, props |-> Full("SUBACK")]}
  \cup {[type |-> "UNSUBACK", id |-> 1, codes |-> <<0, 17>>, props |-> Full("UNSUBACK")]}
  \cup {[type |-> t, reason |-> r, props |-> b] :
          t \in {"DISCONNECT", "AUTH"}, r \in {0, 139}, b \in {Nil, Full("DISCONNECT"), Full("AUTH")}}
  \cup {[type |-> "PINGREQ"], [type |-> "PINGRESP"]}

AllPackets == Publishes \cup AckPackets \cup Subscribes \cup Connects \cup
  {p \in Answers : p.type = "AUTH" /\ ~p.props.nil => p.reason = 0 /\ p.props = Full("AUTH")}

\* What other encoders may send: every header (but those only
\* brokers read) in front of every short body,
\* and every property, known or not, with right and wrong values, lengths and
\* companions.
ShortBodies == UNION {[1 .. k -> {0, 1, 2, 128}] : k \in 0 .. 4}
Headers == {16 * t + f : t \in (0 .. 15) \ {1, 8, 10}, f \in {0, 2}} \cup 49 .. 63

Values == {<<0>>, <<1>>, <<2>>, <<0, 0>>, <<0, 1>>, <<0, 1, 97>>, <<0, 1, 0>>, <<0, 0, 0, 0>>, <<0, 0, 0, 1>>,
           <<0, 1, 97, 0, 1, 98>>, <<129, 1>>, <<129, 0>>}
Singles == {<<id>> \o v : id \in 0 .. 43, v \in Values}
Pairs == {<<i>> \o v \o <<j>> \o w : i \in {\h01, \h03, \h0B, \h23, \h26}, j \in {\h01, \h03, \h0B, \h23, \h26},
                                     v \in {<<1>>, <<0, 1>>, <<0, 1, 97, 0, 1, 98>>}, w \in {<<1>>, <<0, 1>>, <<0, 1, 97>>}}

Framed(header, body) == <<header, Len(body)>> \o body
Blocked(block, off) == <<Len(block) + off>> \o block

ForeignFrames ==
  {Framed(h, b) : h \in Headers, b \in ShortBodies}
  \cup {Framed(48, <<0, 1, 97>> \o Blocked(b, off) \o <<7>>) : b \in Singles \cup Pairs, off \in {-1, 0, 1}}
  \cup {Framed(64, <<0, 1, 0>> \o Blocked(b, 0)) : b \in Singles}
  \cup {Framed(32, <<0, 0>> \o Blocked(b, 0)) : b \in Singles}
  \cup {Framed(144, <<0, 1>> \o Blocked(b, 0) \o <<1>>) : b \in Singles}
  \cup {Framed(224, <<0>> \o Blocked(b, 0)) : b \in Singles}
  \cup {Framed(48, <<0, 0>> \o Blocked(b, 0)) : b \in Singles}
  \cup {<<48, 128, 1>>, <<48, 172, 2>>, <<48, 128, 128, 128, 128, 1>>, <<64, 130, 0, 0, 1>>}

============================================================================
