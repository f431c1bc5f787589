-------------------------- MODULE ReceiverProofs --------------------------
(***************************************************************************)
(* Topic aliases resolve to the topic that was published, for any number   *)
(* of messages, aliases and connections and with every window open.  The   *)
(* broker's alias table runs ahead of the client's by the frames between   *)
(* them, so the invariant is about what those frames will make of the      *)
(* client's table.                                                         *)
(*                                                                         *)
(* QoS 1 and QoS 2 exchanges are kept with the windows closed.  On a link  *)
(* every exchange is at one place at a time, in a frame, in the hands of   *)
(* the read loop or in an acknowledgement, and the invariant says what the *)
(* dedup records and the deliveries so far must be at each of them.        *)
(***************************************************************************)
EXTENDS Receiver, SequenceTheorems, FiniteSetTheorems, TLAPS

-----------------------------------------------------------------------------
(* Frames on their way, and what they do to an alias table.                *)

Frames == [type : {"publish"}, m : Messages \cup {None}, id : PacketIds,
           topic : Topics \cup {None}, alias : Aliases \cup {None}]
          \cup [type : {"pubrel"}, id : PacketIds] \cup {[type |-> "bad"]}

Defines(f, a) == f.type = "publish" /\ f.alias = a /\ f.topic # None
Uses(f, a)    == f.type = "publish" /\ f.alias = a /\ f.topic = None

\* The topic a PUBLISH was meant for; None for one the broker made up.
Expected(f) == IF f.m \in Messages THEN TopicOf[f.m] ELSE None

\* A PUBLISH carries its topic, or no topic and an alias.
Honest(f) ==
  f.type = "publish" => f.topic \in {None, Expected(f)} /\ (f.alias = None => f.topic # None)

\* Before frame i of d is handled, a table that starts as `table` maps alias a
\* to topic t: t is the topic of the last definition, or else the table's.
Known(d, table, i, a, t) ==
  /\ \A j \in 1 .. i - 1 :
       Defines(d[j], a) /\ (\A k \in j + 1 .. i - 1 : ~Defines(d[k], a)) => d[j].topic = t
  /\ (\A j \in 1 .. i - 1 : ~Defines(d[j], a)) => table[a] = t

\* Every alias a frame of d relies on will be resolved as intended.
Consistent(d, table) ==
  \A i \in 1 .. Len(d), a \in Aliases : Uses(d[i], a) => Known(d, table, i, a, Expected(d[i]))

\* Once all of d is handled the table is b.
Becomes(d, table, b) == \A a \in Aliases : Known(d, table, Len(d) + 1, a, b[a])

\* The client's table once it has registered f.
Registered(table, f) == [a \in Aliases |-> IF Defines(f, a) THEN f.topic ELSE table[a]]

\* A frame that is sent changes nothing for the frames before it.
LEMMA KnownBefore ==
  ASSUME NEW d \in Seq(Frames), NEW f \in Frames, NEW table, NEW i \in 1 .. Len(d) + 1,
         NEW a, NEW t, Known(d, table, i, a, t)
  PROVE  Known(Append(d, f), table, i, a, t)
<1>1. \A j \in 1 .. i - 1 : Append(d, f)[j] = d[j]
  BY SMTT(60)
<1> QED BY <1>1, SMTT(60) DEF Known

\* The broker sends f: if the alias it relies on is in the broker's table, and
\* the table changes by what f defines, client and broker stay in step.
LEMMA Sending ==
  ASSUME NEW d \in Seq(Frames), NEW f \in Frames, NEW table, NEW b, NEW c,
         Consistent(d, table), Becomes(d, table, b),
         \A a \in Aliases : Uses(f, a) => b[a] = Expected(f),
         \A a \in Aliases : c[a] = IF Defines(f, a) THEN f.topic ELSE b[a]
  PROVE  Consistent(Append(d, f), table) /\ Becomes(Append(d, f), table, c)
<1> DEFINE e == Append(d, f)
<1>1. /\ e \in Seq(Frames) /\ Len(e) = Len(d) + 1 /\ e[Len(d) + 1] = f
      /\ \A j \in 1 .. Len(d) : e[j] = d[j]
      /\ Len(d) \in Nat
  BY SMTT(60)
<1> HIDE DEF e
<1>2. ASSUME NEW a \in Aliases PROVE Known(e, table, Len(d) + 1, a, b[a])
  BY KnownBefore, SMTT(60) DEF Becomes, e
<1>3. ASSUME NEW i \in 1 .. Len(e), NEW a \in Aliases, Uses(e[i], a)
      PROVE  Known(e, table, i, a, Expected(e[i]))
  <2>1. CASE i = Len(d) + 1
    BY <1>1, <1>2, <1>3, <2>1, Zenon
  <2>2. CASE i # Len(d) + 1
    <3>1. i \in 1 .. Len(d) /\ e[i] = d[i]
      BY <1>1, <2>2, SMTT(60)
    <3>2. Known(d, table, i, a, Expected(d[i]))
      BY <1>3, <3>1, Zenon DEF Consistent
    <3>3. i \in 1 .. Len(d) + 1
      BY <1>1, <3>1, Zenon
    <3> QED BY <3>1, <3>2, <3>3, KnownBefore, Zenon DEF e
  <2> QED BY <2>1, <2>2, Zenon
<1>4. ASSUME NEW a \in Aliases PROVE Known(e, table, Len(e) + 1, a, c[a])
  <2> DEFINE n == Len(d) + 1
  <2>1. n \in Nat /\ Len(e) + 1 - 1 = n /\ e[n] = f
    BY <1>1, SMTT(60)
  <2> HIDE DEF n
  <2>2. CASE Defines(f, a)
    <3>1. c[a] = f.topic
      BY <2>2, Zenon
    <3>2. ASSUME NEW j \in 1 .. n, Defines(e[j], a), \A k \in j + 1 .. n : ~Defines(e[k], a)
          PROVE  e[j].topic = c[a]
      <4>1. j = n
        BY <2>1, <2>2, <3>2, SMTT(60)
      <4> QED BY <2>1, <3>1, <4>1, Zenon
    <3>3. ~ \A j \in 1 .. n : ~Defines(e[j], a)
      BY <1>1, <2>1, <2>2, SMTT(60) DEF n
    <3> QED BY <2>1, <3>2, <3>3, SMTT(60) DEF Known
  <2>3. CASE ~Defines(f, a)
    <3>1. c[a] = b[a]
      BY <2>3, Zenon
    <3>2. ~Defines(e[n], a)
      BY <2>1, <2>3, Zenon
    <3> QED BY <1>1, <1>2, <2>1, <3>1, <3>2, SMTT(60) DEF Known, n
  <2> QED BY <2>2, <2>3, Zenon
<1> QED BY <1>3, <1>4, Zenon DEF Consistent, Becomes, e

\* The client takes the oldest frame: the alias it relies on is in the table,
\* and the rest is consistent with the table it leads to.
LEMMA Reading ==
  ASSUME NEW d \in Seq(Frames), d # << >>, NEW table, Consistent(d, table)
  PROVE  /\ \A a \in Aliases : Uses(Head(d), a) => table[a] = Expected(Head(d))
         /\ Consistent(Tail(d), Registered(table, Head(d)))
         /\ \A b : Becomes(d, table, b) => Becomes(Tail(d), Registered(table, Head(d)), b)
<1> DEFINE e == Tail(d)
           new == Registered(table, Head(d))
<1>1. /\ Len(d) \in Nat /\ Len(d) > 0 /\ Len(e) = Len(d) - 1 /\ Head(d) = d[1]
      /\ \A j \in 1 .. Len(e) : e[j] = d[j + 1]
  BY SMTT(60)
<1>2. ASSUME NEW a \in Aliases, Uses(Head(d), a) PROVE table[a] = Expected(Head(d))
  BY <1>1, <1>2, SMTT(60) DEF Consistent, Known
<1>3. \A a \in Aliases : new[a] = IF Defines(d[1], a) THEN d[1].topic ELSE table[a]
  BY <1>1, Zenon DEF Registered
<1> HIDE DEF e, new
<1>4. ASSUME NEW i \in 1 .. Len(e) + 1, NEW a \in Aliases, NEW t, Known(d, table, i + 1, a, t)
      PROVE  Known(e, new, i, a, t)
  <2>1. ASSUME NEW j \in 1 .. i - 1, Defines(e[j], a),
               \A k \in j + 1 .. i - 1 : ~Defines(e[k], a)
        PROVE  e[j].topic = t
    <3>1. j + 1 \in 1 .. i /\ e[j] = d[j + 1]
      BY <1>1, SMTT(60)
    <3>2. \A k \in j + 2 .. i : ~Defines(d[k], a)
      <4>1. ASSUME NEW k \in j + 2 .. i PROVE ~Defines(d[k], a)
        <5>1. k - 1 \in j + 1 .. i - 1 /\ k - 1 \in 1 .. Len(e) /\ (k - 1) + 1 = k
          BY <1>1, SMTT(60)
        <5> QED BY <1>1, <2>1, <5>1, Zenon
      <4> QED BY <4>1, Zenon
    <3> QED BY <1>4, <2>1, <3>1, <3>2, SMTT(60) DEF Known
  <2>2. ASSUME \A j \in 1 .. i - 1 : ~Defines(e[j], a) PROVE new[a] = t
    <3>1. \A k \in 2 .. i : ~Defines(d[k], a)
      <4>1. ASSUME NEW k \in 2 .. i PROVE ~Defines(d[k], a)
        <5>1. k - 1 \in 1 .. i - 1 /\ k - 1 \in 1 .. Len(e) /\ (k - 1) + 1 = k
          BY <1>1, SMTT(60)
        <5> QED BY <1>1, <2>2, <5>1, Zenon
      <4> QED BY <4>1, Zenon
    <3>2. CASE Defines(d[1], a)
      <4>1. d[1].topic = t
        BY <1>4, <3>1, <3>2, SMTT(60) DEF Known
      <4> QED BY <1>3, <3>2, <4>1, Zenon
    <3>3. CASE ~Defines(d[1], a)
      <4>1. \A k \in 1 .. i : ~Defines(d[k], a)
        BY <3>1, <3>3, SMTT(60)
      <4> QED BY <1>3, <1>4, <3>3, <4>1, SMTT(60) DEF Known
    <3> QED BY <3>2, <3>3, Zenon
  <2> QED BY <2>1, <2>2, Zenon DEF Known
<1>5. Consistent(e, new)
  <2>1. ASSUME NEW i \in 1 .. Len(e), NEW a \in Aliases, Uses(e[i], a)
        PROVE  Known(e, new, i, a, Expected(e[i]))
    <3>1. i + 1 \in 1 .. Len(d) /\ e[i] = d[i + 1] /\ i \in 1 .. Len(e) + 1
      BY <1>1, SMTT(60)
    <3> QED BY <1>4, <2>1, <3>1, Zenon DEF Consistent
  <2> QED BY <2>1, Zenon DEF Consistent
<1>6. ASSUME NEW b, Becomes(d, table, b) PROVE Becomes(e, new, b)
  <2>1. Len(e) + 1 \in 1 .. Len(e) + 1 /\ (Len(e) + 1) + 1 = Len(d) + 1
    BY <1>1, SMTT(60)
  <2> QED BY <1>4, <1>6, <2>1, Zenon DEF Becomes
<1> QED BY <1>2, <1>5, <1>6, Zenon DEF e, new

-----------------------------------------------------------------------------
(* Types.                                                                  *)

AckFrames == [type : {"puback", "pubrec", "pubcomp", "pubcomp-0x92"}, id : PacketIds]
Exchanges == [m : Messages, id : PacketIds, stage : {"sent", "rel"}]
Tables == [Aliases -> Topics \cup {None}]

\* What is on the wire and in the broker's books is well formed.
WireTypes ==
  /\ down \in [Links -> Seq(Frames)] /\ up \in [Links -> Seq(AckFrames)]
  /\ queue \in Seq(Messages) /\ inflight \in Seq(Exchanges) /\ balias \in Tables

\* So are the read loops, and one that handles a frame has read it.
LoopTypes ==
  /\ nconn \in 0 .. MaxLinks
  /\ aliases \in [Links -> Tables]
  /\ rpc \in [Links -> {"off", "read", "handle", "handler", "record", "exit"}]
  /\ DOMAIN frame = Links
  /\ \A l \in Links : rpc[l] \in {"handle", "handler", "record"} => frame[l] \in Frames
  /\ \A l \in Links : rpc[l] \in {"handler", "record"} => frame[l].type = "publish"

Types == WireTypes /\ LoopTypes

\* The link that a broker talks to is one of the links.
LEMMA LiveLink == ASSUME Types, nconn > 0 PROVE nconn \in Links
BY SMTT(60) DEF Types, LoopTypes, Links

\* So is the link of the next connection.
LEMMA NextLink ==
  ASSUME Types, nconn < MaxLinks
  PROVE  nconn + 1 \in Links /\ nconn + 1 \in 0 .. MaxLinks /\ nconn \in Nat
<1>1. nconn \in 0 .. MaxLinks
  BY Zenon DEF Types, LoopTypes
<1> QED BY <1>1, ReceiverAssumption, SMTT(60) DEF Links

\* The oldest element of a queue and what is left of it.
LEMMA Dequeue ==
  ASSUME NEW S, NEW s \in Seq(S), s # << >>
  PROVE  Head(s) \in S /\ Tail(s) \in Seq(S)
BY SMTT(60)

\* A queue takes one more element.
LEMMA Enqueue ==
  ASSUME NEW S, NEW s \in Seq(S), NEW x \in S
  PROVE  Append(s, x) \in Seq(S)
BY SMTT(60)

\* A PUBLISH the broker builds is a frame.
LEMMA PublishIsFrame ==
  ASSUME NEW m \in Messages \cup {None}, NEW id \in PacketIds, NEW e, e.m = m, e.id = id,
         NEW t \in Topics \cup {None}, NEW a \in Aliases \cup {None}
  PROVE  /\ PublishFrame(e, t, a) \in Frames /\ PublishFrame(e, t, a).type = "publish"
         /\ PublishFrame(e, t, a).m = m /\ PublishFrame(e, t, a).topic = t
         /\ PublishFrame(e, t, a).alias = a
BY Zenon DEF PublishFrame, Frames

\* So is a PUBREL.
LEMMA PubrelIsFrame ==
  ASSUME NEW e, e.id \in PacketIds
  PROVE  PubrelFrame(e) \in Frames /\ PubrelFrame(e).type = "pubrel"
BY Zenon DEF PubrelFrame, Frames

\* What a resuming broker repeats are frames.
LEMMA RetransmissionTypes ==
  ASSUME inflight \in Seq(Exchanges)
  PROVE  Retransmissions \in Seq(Frames)
<1>1. ASSUME NEW i \in DOMAIN inflight
      PROVE  /\ PubrelFrame(inflight[i]) \in Frames
             /\ PublishFrame(inflight[i], TopicOf[inflight[i].m], None) \in Frames
  <2>1. inflight[i] \in Exchanges
    BY SMTT(60)
  <2>2. inflight[i].id \in PacketIds /\ inflight[i].m \in Messages
    BY <2>1, Zenon DEF Exchanges
  <2>3. TopicOf[inflight[i].m] \in Topics
    BY <2>2, ReceiverAssumption, Zenon
  <2> QED BY <2>2, <2>3, PublishIsFrame, PubrelIsFrame, SMTT(60)
<1>2. \A i \in DOMAIN inflight : Retransmissions[i] \in Frames
  BY <1>1, Zenon DEF Retransmissions
<1>3. DOMAIN Retransmissions = 1 .. Len(inflight) /\ Len(inflight) \in Nat
      /\ DOMAIN inflight = 1 .. Len(inflight)
  BY SMTT(60) DEF Retransmissions
<1>4. Retransmissions \in [1 .. Len(inflight) -> Frames]
  BY <1>2, <1>3, Zenon DEF Retransmissions
<1> QED BY <1>3, <1>4, SMTT(60)

\* Ending an exchange leaves a sequence of exchanges.
LEMMA WithoutType ==
  ASSUME NEW s \in Seq(Exchanges), NEW id PROVE Without(s, id) \in Seq(Exchanges)
<1> DEFINE uses == {i \in DOMAIN s : s[i].id = id}
           n == CHOOSE i \in uses : TRUE
<1>1. CASE uses = {}
  BY <1>1, Zenon DEF Without
<1>2. CASE uses # {}
  <2>1. n \in 1 .. Len(s) /\ Len(s) \in Nat
    BY <1>2, SMTT(60)
  <2> HIDE DEF n
  <2>2. SubSeq(s, 1, n - 1) \in Seq(Exchanges)
    BY <2>1, SubSeqProperties, SMTT(60)
  <2>3. SubSeq(s, n + 1, Len(s)) \in Seq(Exchanges)
    BY <2>1, SubSeqProperties, SMTT(60)
  <2>4. SubSeq(s, 1, n - 1) \o SubSeq(s, n + 1, Len(s)) \in Seq(Exchanges)
    BY <2>2, <2>3, ConcatProperties, Zenon
  <2> QED BY <1>2, <2>4, Zenon DEF Without, n
<1> QED BY <1>1, <1>2, Zenon

\* The wire and the broker's books stay well formed when the broker sends.
LEMMA BrokerSendsTypes ==
  ASSUME Types, BrokerSends
  PROVE  /\ WireTypes'
         /\ \E f \in Frames :
              /\ down' = [down EXCEPT ![nconn] = Append(@, f)]
              /\ Honest(f)
              /\ \A a \in Aliases : Uses(f, a) => balias[a] = Expected(f)
              /\ \A a \in Aliases : balias'[a] = IF Defines(f, a) THEN f.topic ELSE balias[a]
<1>1. /\ queue # << >> /\ Head(queue) \in Messages /\ Tail(queue) \in Seq(Messages)
      /\ nconn \in Links
  BY LiveLink, Dequeue, Zenon DEF BrokerSends, Types, WireTypes
<1>2. PICK id \in PacketIds :
        LET e == [m |-> Head(queue), id |-> id, stage |-> "sent"]
            t == TopicOf[e.m]
        IN  /\ inflight' = Append(inflight, e)
            /\ \/ /\ down' = [down EXCEPT ![nconn] = Append(@, PublishFrame(e, t, None))]
                  /\ UNCHANGED balias
               \/ \E a \in Aliases :
                    /\ down' = [down EXCEPT ![nconn] = Append(@, PublishFrame(e, t, a))]
                    /\ balias' = [balias EXCEPT ![a] = t]
               \/ \E a \in Aliases :
                    /\ balias[a] = t
                    /\ down' = [down EXCEPT ![nconn] = Append(@, PublishFrame(e, None, a))]
                    /\ UNCHANGED balias
  BY Zenon DEF BrokerSends
<1> DEFINE e == [m |-> Head(queue), id |-> id, stage |-> "sent"]
           t == TopicOf[e.m]
<1>3. e \in Exchanges /\ e.m = Head(queue) /\ e.id = id
  BY <1>1, Zenon DEF Exchanges
<1>4. t \in Topics /\ t # None /\ None \notin Aliases
  BY <1>1, ReceiverAssumption, ZenonT(60) DEF Aliases
<1>5. ASSUME NEW a \in Aliases \cup {None}, NEW u \in {t, None}, a = None => u = t
      PROVE  LET f == PublishFrame(e, u, a)
             IN  /\ f \in Frames /\ Honest(f) /\ f.type = "publish" /\ Expected(f) = t
                 /\ f.alias = a /\ f.topic = u
  <2>1. LET f == PublishFrame(e, u, a)
        IN  f \in Frames /\ f.type = "publish" /\ f.m = Head(queue) /\ f.topic = u /\ f.alias = a
    BY <1>1, <1>3, <1>4, PublishIsFrame, SMTT(60)
  <2> HIDE DEF e
  <2>2. t = TopicOf[Head(queue)]
    BY <1>3, Zenon
  <2> HIDE DEF t
  <2> QED BY <1>1, <1>4, <1>5, <2>1, <2>2, Zenon DEF Expected, Honest
<1> HIDE DEF e, t
<1>6. PICK a \in Aliases \cup {None}, u \in {t, None} :
        /\ a = None => u = t
        /\ down' = [down EXCEPT ![nconn] = Append(@, PublishFrame(e, u, a))]
        /\ u = None => balias[a] = t
        /\ balias' = IF a # None /\ u # None THEN [balias EXCEPT ![a] = t] ELSE balias
  BY <1>2, <1>4, SMTT(60) DEF e, t
<1> DEFINE f == PublishFrame(e, u, a)
<1>7. /\ f \in Frames /\ Honest(f) /\ f.type = "publish" /\ Expected(f) = t
      /\ f.alias = a /\ f.topic = u
  BY <1>5, <1>6, Zenon
<1>8. inflight' = Append(inflight, e)
  BY <1>2, Zenon DEF e
<1> HIDE DEF f
<1>9. down' = [down EXCEPT ![nconn] = Append(@, f)]
  BY <1>6, Zenon DEF f
<1>10. \A b \in Aliases : Uses(f, b) => balias[b] = Expected(f)
  BY <1>6, <1>7, Zenon DEF Uses
<1>11. \A b \in Aliases : balias'[b] = IF Defines(f, b) THEN f.topic ELSE balias[b]
  BY <1>4, <1>6, <1>7, Zenon DEF Defines, Types, WireTypes, Tables
<1>12. WireTypes'
  <2>1. balias' \in Tables
    BY <1>4, <1>6, Zenon DEF Types, WireTypes, Tables
  <2>2. inflight' \in Seq(Exchanges)
    BY <1>3, <1>8, Enqueue, Zenon DEF Types, WireTypes
  <2>3. down' \in [Links -> Seq(Frames)]
    <3>1. down \in [Links -> Seq(Frames)] /\ Append(down[nconn], f) \in Seq(Frames)
      BY <1>1, <1>7, Enqueue, Zenon DEF Types, WireTypes
    <3> QED BY <1>1, <1>9, <3>1, Zenon
  <2>4. queue' \in Seq(Messages) /\ up' = up
    BY <1>1, Zenon DEF BrokerSends
  <2> QED BY <2>1, <2>2, <2>3, <2>4, Zenon DEF Types, WireTypes
<1> QED BY <1>7, <1>9, <1>10, <1>11, <1>12, Zenon

\* They stay so when the broker handles an acknowledgement, which is answered
\* with a PUBREL or with nothing.
LEMMA BrokerReceivesTypes ==
  ASSUME Types, BrokerReceives
  PROVE  /\ WireTypes'
         /\ \/ down' = down
            \/ \E f \in Frames : down' = [down EXCEPT ![nconn] = Append(@, f)] /\ f.type = "pubrel"
<1> DEFINE a == Head(up[nconn])
<1>1. nconn \in Links /\ a \in AckFrames /\ Tail(up[nconn]) \in Seq(AckFrames)
  BY LiveLink, Dequeue, Zenon DEF BrokerReceives, Types, WireTypes
<1>2. a.id \in PacketIds
  BY <1>1, Zenon DEF AckFrames
<1> DEFINE released == [i \in DOMAIN inflight |->
                          IF inflight[i].id = a.id THEN [inflight[i] EXCEPT !.stage = "rel"] ELSE inflight[i]]
<1>3. released \in Seq(Exchanges)
  <2>1. DOMAIN inflight = 1 .. Len(inflight) /\ Len(inflight) \in Nat
        /\ \A i \in 1 .. Len(inflight) : inflight[i] \in Exchanges
    BY SMTT(60) DEF Types, WireTypes
  <2>2. \A x \in Exchanges : [x EXCEPT !.stage = "rel"] \in Exchanges
    BY Zenon DEF Exchanges
  <2>3. released \in [1 .. Len(inflight) -> Exchanges]
    BY <2>1, <2>2, Zenon
  <2> QED BY <2>1, <2>3, SMTT(60)
<1>4. Without(inflight, a.id) \in Seq(Exchanges)
  BY WithoutType, Zenon DEF Types, WireTypes
<1>5. PubrelFrame(a) \in Frames /\ PubrelFrame(a).type = "pubrel"
  BY <1>2, PubrelIsFrame, Zenon
<1>6. /\ up' = [up EXCEPT ![nconn] = Tail(@)] /\ queue' = queue /\ balias' = balias
      /\ \/ inflight' = released /\ down' = [down EXCEPT ![nconn] = Append(@, PubrelFrame(a))]
         \/ inflight' = Without(inflight, a.id) /\ down' = down
  BY Zenon DEF BrokerReceives
<1> HIDE DEF a, released
<1>7. up' \in [Links -> Seq(AckFrames)]
  BY <1>1, <1>6, Zenon DEF Types, WireTypes, a
<1>8. inflight' \in Seq(Exchanges)
  BY <1>3, <1>4, <1>6, Zenon
<1>9. down' \in [Links -> Seq(Frames)]
  <2>1. Append(down[nconn], PubrelFrame(a)) \in Seq(Frames) /\ down \in [Links -> Seq(Frames)]
    BY <1>1, <1>5, Enqueue, Zenon DEF Types, WireTypes
  <2>2. down' \in {down, [down EXCEPT ![nconn] = Append(down[nconn], PubrelFrame(a))]}
    BY <1>6, Zenon
  <2> QED BY <1>1, <2>1, <2>2, Zenon
<1> QED BY <1>5, <1>6, <1>7, <1>8, <1>9, Zenon DEF Types, WireTypes

\* What a broker sends by mistake is a frame that no table resolves.
LEMMA BrokerErrsTypes ==
  ASSUME Types, BrokerErrs
  PROVE  /\ WireTypes'
         /\ \E f \in Frames :
              /\ down' = [down EXCEPT ![nconn] = Append(@, f)]
              /\ Honest(f)
              /\ \A a \in Aliases : Uses(f, a) => balias[a] = Expected(f)
              /\ \A a \in Aliases : ~Defines(f, a)
<1>1. nconn \in Links /\ 1 \in PacketIds /\ None \notin Messages /\ None \notin Aliases
  BY MaxIdAssumption, ReceiverAssumption, SMTT(60)
  DEF BrokerErrs, Types, LoopTypes, Links, PacketIds, Aliases
<1> DEFINE e == [m |-> None, id |-> 1]
<1>2. PICK f \in {[type |-> "bad"]} \cup
                 {PublishFrame(e, None, a) : a \in {b \in Aliases : balias[b] = None}} :
        down' = [down EXCEPT ![nconn] = Append(@, f)]
  BY Zenon DEF BrokerErrs
<1>3. CASE f = [type |-> "bad"]
  <2>1. f \in Frames /\ f.type = "bad"
    BY <1>3, Zenon DEF Frames
  <2>2. down' \in [Links -> Seq(Frames)]
    BY <1>1, <1>2, <2>1, SMTT(60) DEF Types, WireTypes
  <2> QED BY <1>2, <2>1, <2>2, Zenon DEF BrokerErrs, Honest, Uses, Defines, Types, WireTypes, broker
<1>4. ASSUME NEW a \in Aliases, balias[a] = None, f = PublishFrame(e, None, a)
      PROVE  /\ f \in Frames /\ f.type = "publish" /\ f.m = None /\ f.topic = None /\ f.alias = a
             /\ Honest(f) /\ Expected(f) = None
  <2>1. e.m = None /\ e.id = 1
    BY Zenon
  <2>2. f \in Frames /\ f.type = "publish" /\ f.m = None /\ f.topic = None /\ f.alias = a
    BY <1>1, <1>4, <2>1, PublishIsFrame, SMTT(60)
  <2> QED BY <1>1, <2>2, Zenon DEF Honest, Expected
<1>5. ASSUME NEW a \in Aliases, balias[a] = None, f = PublishFrame(e, None, a)
      PROVE  /\ WireTypes'
             /\ f \in Frames /\ Honest(f)
             /\ \A b \in Aliases : (Uses(f, b) => balias[b] = Expected(f)) /\ ~Defines(f, b)
  <2>1. f \in Frames /\ Honest(f)
    BY <1>4, <1>5, Zenon
  <2>2. down' \in [Links -> Seq(Frames)]
    BY <1>1, <1>2, <2>1, SMTT(60) DEF Types, WireTypes
  <2>3. WireTypes'
    BY <2>2, Zenon DEF BrokerErrs, Types, WireTypes, broker
  <2> QED BY <1>4, <1>5, <2>1, <2>3, Zenon DEF Uses, Defines
<1> QED BY <1>2, <1>3, <1>5, Zenon

-----------------------------------------------------------------------------
(* The invariant.                                                          *)

\* The table a read loop will have when it has registered the frame it holds.
Table(l) == IF rpc[l] = "handle" THEN Registered(aliases[l], frame[l]) ELSE aliases[l]

\* The frames between broker and client lead from the client's table to the
\* broker's, and every alias in them is resolved as intended on the way.  A
\* loop that has ended reads nothing any more.
Aliasing ==
  /\ \A l \in Links : rpc[l] # "exit" => Consistent(down[l], Table(l))
  /\ nconn > 0 /\ rpc[nconn] # "exit" => Becomes(down[nconn], Table(nconn), balias)

\* Frames carry the topic of their message or an alias that stands for it.
Honesty ==
  /\ \A l \in Links : \A i \in 1 .. Len(down[l]) : Honest(down[l][i])
  /\ \A l \in Links : rpc[l] = "handle" =>
       Honest(frame[l]) /\ \A a \in Aliases : Uses(frame[l], a) => aliases[l][a] = Expected(frame[l])

\* A connection that has not been made has seen nothing.
Unused ==
  \A l \in Links : l > nconn =>
    down[l] = << >> /\ rpc[l] = "off" /\ aliases[l] = [a \in Aliases |-> None]

InStep == Aliasing /\ Honesty /\ Unused

\* A frame of the broker keeps the two tables in step.
LEMMA FrameSent ==
  ASSUME Types, InStep, nconn \in Links, NEW f \in Frames,
         down' = [down EXCEPT ![nconn] = Append(@, f)], Honest(f),
         \A a \in Aliases : Uses(f, a) => balias[a] = Expected(f),
         \A a \in Aliases : balias'[a] = IF Defines(f, a) THEN f.topic ELSE balias[a],
         nconn' = nconn, rpc' = rpc, aliases' = aliases, frame' = frame
  PROVE  InStep'
<1>1. /\ down[nconn] \in Seq(Frames) /\ down'[nconn] = Append(down[nconn], f)
      /\ \A l \in Links \ {nconn} : down'[l] = down[l]
      /\ nconn > 0
  BY SMTT(60) DEF Types, WireTypes, Links
<1>2. \A l \in Links : Table(l)' = Table(l)
  BY Zenon DEF Table
<1>3. ASSUME rpc[nconn] # "exit"
      PROVE  Consistent(down'[nconn], Table(nconn)) /\ Becomes(down'[nconn], Table(nconn), balias')
  BY <1>1, <1>3, Sending, SMTT(60) DEF InStep, Aliasing
<1>4. Aliasing'
  BY <1>1, <1>2, <1>3, Zenon DEF InStep, Aliasing
<1>5. \A i \in 1 .. Len(down'[nconn]) : Honest(down'[nconn][i])
  BY <1>1, SMTT(60) DEF InStep, Honesty
<1>6. Honesty'
  BY <1>1, <1>5, ZenonT(60) DEF InStep, Honesty
<1>7. Unused'
  BY <1>1, SMTT(60) DEF InStep, Unused, Links
<1> QED BY <1>4, <1>6, <1>7, Zenon DEF InStep

\* A read loop that goes on has registered the frame it held; one that ends
\* does not matter.
LEMMA LoopMoves ==
  ASSUME Types, InStep, NEW l \in Links, rpc[l] \notin {"off", "exit"},
         NEW label \in {"read", "handler", "record", "exit"}, rpc' = [rpc EXCEPT ![l] = label],
         aliases' = [aliases EXCEPT ![l] = Table(l)] \/ (label = "exit" /\ aliases' = aliases),
         down' = down, balias' = balias, nconn' = nconn, frame' = frame
  PROVE  InStep'
<1>1. /\ rpc'[l] = label /\ rpc'[l] # "handle"
      /\ \A k \in Links \ {l} : rpc'[k] = rpc[k] /\ aliases'[k] = aliases[k]
      /\ label # "exit" => aliases'[l] = Table(l)
  BY Zenon DEF Types, LoopTypes
<1>2. /\ \A k \in Links \ {l} : Table(k)' = Table(k)
      /\ label # "exit" => Table(l)' = Table(l)
  BY <1>1, Zenon DEF Table
<1>3. Aliasing'
  BY <1>1, <1>2, SMTT(60) DEF InStep, Aliasing, Types, LoopTypes, Links
<1>4. Honesty'
  BY <1>1, Zenon DEF InStep, Honesty
<1>5. Unused'
  BY <1>1, Zenon DEF InStep, Unused
<1> QED BY <1>3, <1>4, <1>5, Zenon DEF InStep

\* A read loop takes a frame off the wire.
LEMMA FrameRead ==
  ASSUME Types, InStep, NEW l \in Links, readLoop(l)
  PROVE  Types' /\ InStep'
<1>1. /\ rpc[l] = "read" /\ down[l] \in Seq(Frames) /\ down[l] # << >>
      /\ Head(down[l]) \in Frames /\ Tail(down[l]) \in Seq(Frames)
      /\ down' = [down EXCEPT ![l] = Tail(@)]
      /\ nconn' = nconn /\ aliases' = aliases /\ balias' = balias /\ l <= nconn
      /\ up' = up /\ queue' = queue /\ inflight' = inflight /\ nconn \in 0 .. MaxLinks
  BY SMTT(60) DEF readLoop, Types, WireTypes, LoopTypes, InStep, Unused, broker, Links
<1>2. /\ down' \in [Links -> Seq(Frames)] /\ down'[l] = Tail(down[l])
      /\ \A k \in Links \ {l} : down'[k] = down[k]
  BY <1>1, Zenon DEF Types, WireTypes
<1>3. WireTypes'
  BY <1>1, <1>2, Zenon DEF Types, WireTypes
<1>4. \A i \in 1 .. Len(down'[l]) : Honest(down'[l][i])
  BY <1>1, <1>2, SMTT(60) DEF InStep, Honesty
<1>5. Honest(Head(down[l]))
  BY <1>1, SMTT(60) DEF InStep, Honesty
<1>6. CASE l \in stopping
  <2>1. rpc' = [rpc EXCEPT ![l] = "exit"] /\ frame' = frame
    BY <1>6, Zenon DEF readLoop, Goto
  <2>2. rpc'[l] = "exit" /\ \A k \in Links \ {l} : rpc'[k] = rpc[k] /\ Table(k)' = Table(k)
    BY <1>1, <2>1, Zenon DEF Types, LoopTypes, Table
  <2>3. LoopTypes'
    BY <1>1, <2>1, <2>2, Zenon DEF Types, LoopTypes
  <2>4. Aliasing'
    BY <1>1, <1>2, <2>2, SMTT(60) DEF InStep, Aliasing, Links
  <2>5. Honesty'
    BY <1>1, <1>2, <1>4, <2>1, <2>2, ZenonT(60) DEF InStep, Honesty
  <2>6. Unused'
    BY <1>1, <1>2, <2>2, Zenon DEF InStep, Unused, Links
  <2> QED BY <1>3, <2>3, <2>4, <2>5, <2>6, Zenon DEF Types, InStep
<1>7. CASE l \notin stopping
  <2>1. rpc' = [rpc EXCEPT ![l] = "handle"] /\ frame' = [frame EXCEPT ![l] = Head(down[l])]
    BY <1>7, Zenon DEF readLoop, Goto
  <2>2. rpc'[l] = "handle" /\ frame'[l] = Head(down[l])
        /\ \A k \in Links \ {l} : rpc'[k] = rpc[k] /\ frame'[k] = frame[k] /\ Table(k)' = Table(k)
    BY <1>1, <2>1, Zenon DEF Types, LoopTypes, Table
  <2>3. LoopTypes'
    BY <1>1, <2>1, <2>2, Zenon DEF Types, LoopTypes
  <2>4. Table(l) = aliases[l] /\ Table(l)' = Registered(aliases[l], Head(down[l]))
    BY <1>1, <2>2, Zenon DEF Table
  <2>5. /\ \A a \in Aliases : Uses(Head(down[l]), a) => aliases[l][a] = Expected(Head(down[l]))
        /\ Consistent(down'[l], Table(l)')
        /\ \A b : Becomes(down[l], Table(l), b) => Becomes(down'[l], Table(l)', b)
    <3>1. Consistent(down[l], Table(l))
      BY <1>1, Zenon DEF InStep, Aliasing
    <3> QED BY <1>1, <1>2, <2>4, <3>1, Reading, SMTT(60)
  <2>6. Aliasing'
    <3>1. \A k \in Links : rpc'[k] # "exit" => Consistent(down'[k], Table(k)')
      BY <1>2, <2>2, <2>5, Zenon DEF InStep, Aliasing
    <3>2. nconn > 0 /\ rpc'[nconn] # "exit" => Becomes(down'[nconn], Table(nconn)', balias)
      <4>1. CASE l = nconn
        BY <1>1, <2>5, <4>1, Zenon DEF InStep, Aliasing
      <4>2. CASE l # nconn
        BY <1>1, <1>2, <2>2, <4>2, SMTT(60) DEF InStep, Aliasing, Links
      <4> QED BY <4>1, <4>2, Zenon
    <3> QED BY <1>1, <3>1, <3>2, Zenon DEF Aliasing
  <2>7. Honesty'
    BY <1>1, <1>2, <1>4, <1>5, <2>2, <2>5, ZenonT(120) DEF InStep, Honesty
  <2>8. Unused'
    BY <1>1, <1>2, <2>2, Zenon DEF InStep, Unused, Links
  <2> QED BY <1>3, <2>3, <2>6, <2>7, <2>8, Zenon DEF Types, InStep
<1> QED BY <1>6, <1>7, Zenon

\* handlePublish finds the topic its message was published on, or none.
LEMMA ResolvedAsIntended ==
  ASSUME Types, InStep, NEW l \in Links, rpc[l] = "handle", frame[l].type = "publish",
         resolveTopicAlias(l, frame[l]) # None
  PROVE  frame[l].m \in Messages /\ resolveTopicAlias(l, frame[l]) = TopicOf[frame[l].m]
<1>1. Honest(frame[l]) /\ \A a \in Aliases : Uses(frame[l], a) => aliases[l][a] = Expected(frame[l])
  BY Zenon DEF InStep, Honesty
<1>2. resolveTopicAlias(l, frame[l]) = Expected(frame[l])
  BY <1>1, Zenon DEF resolveTopicAlias, Honest, Uses
<1> QED BY <1>2, Zenon DEF Expected

\* What registerAlias does to the table.
LEMMA Registering ==
  ASSUME Types, NEW l \in Links, rpc[l] = "handle", frame[l].type = "publish",
         registerAlias(l, frame[l])
  PROVE  aliases' = [aliases EXCEPT ![l] = Table(l)] /\ aliases' \in [Links -> Tables]
<1>1. /\ frame[l].alias \in Aliases \cup {None} /\ frame[l].topic \in Topics \cup {None}
      /\ aliases \in [Links -> Tables] /\ aliases[l] \in Tables /\ None \notin Aliases
  BY ReceiverAssumption, SMTT(60) DEF Types, LoopTypes, Frames, Aliases
<1>2. Table(l) = [a \in Aliases |-> IF Defines(frame[l], a) THEN frame[l].topic ELSE aliases[l][a]]
  BY Zenon DEF Table, Registered
<1>3. CASE frame[l].alias # None /\ frame[l].topic # None
  <2>1. aliases' = [aliases EXCEPT ![l] = [aliases[l] EXCEPT ![frame[l].alias] = frame[l].topic]]
    BY <1>3, Zenon DEF registerAlias
  <2>2. [aliases[l] EXCEPT ![frame[l].alias] = frame[l].topic] = Table(l)
    BY <1>1, <1>2, <1>3, Zenon DEF Defines, Tables
  <2>3. Table(l) \in Tables
    BY <1>1, <1>2, Zenon DEF Tables
  <2> QED BY <1>1, <2>1, <2>2, <2>3, Zenon
<1>4. CASE ~(frame[l].alias # None /\ frame[l].topic # None)
  <2>1. aliases' = aliases
    BY <1>4, Zenon DEF registerAlias
  <2>2. \A a \in Aliases : ~Defines(frame[l], a)
    BY <1>1, <1>4, Zenon DEF Defines
  <2>3. Table(l) = aliases[l]
    BY <1>1, <1>2, <2>2, Zenon DEF Tables
  <2> QED BY <1>1, <2>1, <2>3, Zenon
<1> QED BY <1>3, <1>4, Zenon

\* The steps of a read loop after it has read a frame.
LEMMA FrameHandled ==
  ASSUME Types, InStep, TopicsResolved, NEW l \in Links,
         readError(l) \/ Malformed(l) \/ handlePublish(l) \/ handlerReturns(l) \/ record(l)
         \/ handleInboundPubrel(l)
  PROVE  Types' /\ InStep' /\ TopicsResolved'
<1>1. ASSUME NEW type \in {"puback", "pubrec", "pubcomp", "pubcomp-0x92"}, rpc[l] \in {"handle", "record"},
             frame[l].type \in {"publish", "pubrel"}, sendAck(l, type, frame[l].id)
      PROVE  up' \in [Links -> Seq(AckFrames)]
  <2>1. frame[l].id \in PacketIds
    BY <1>1, SMTT(60) DEF Types, LoopTypes, Frames
  <2>2. [type |-> type, id |-> frame[l].id] \in AckFrames
    BY <2>1, Zenon DEF AckFrames
  <2>3. Append(up[l], [type |-> type, id |-> frame[l].id]) \in Seq(AckFrames)
    BY <2>2, SMTT(60) DEF Types, WireTypes
  <2> QED BY <1>1, <2>3, Zenon DEF sendAck, Types, WireTypes
<1>2. /\ rpc[l] \notin {"off", "exit"}
      /\ \E label \in {"read", "handler", "record", "exit"} :
           /\ rpc' = [rpc EXCEPT ![l] = label]
           /\ label = "handler" => rpc[l] = "handle" /\ frame[l].type = "publish"
           /\ label = "record" => rpc[l] = "handler"
           /\ aliases' = [aliases EXCEPT ![l] = Table(l)] \/ (label = "exit" /\ aliases' = aliases)
      /\ aliases' \in [Links -> Tables]
      /\ up' \in [Links -> Seq(AckFrames)] /\ TopicsResolved'
      /\ down' = down /\ nconn' = nconn /\ frame' = frame
      /\ queue' = queue /\ inflight' = inflight /\ balias' = balias
  <2> USE DEF Goto, broker, history, TopicsResolved
  <2>0. aliases \in [Links -> Tables] /\ up \in [Links -> Seq(AckFrames)]
    BY Zenon DEF Types, LoopTypes, WireTypes
  <2>1. ASSUME rpc[l] # "handle" \/ frame[l].type # "publish"
        PROVE  aliases = [aliases EXCEPT ![l] = Table(l)]
    <3>1. aliases[l] \in Tables
      BY <2>0, Zenon
    <3>2. Table(l) = aliases[l]
      BY <2>1, <3>1, Zenon DEF Table, Registered, Defines, Tables
    <3> QED BY <2>0, <3>2, Zenon
  <2>2. CASE readError(l)
    BY <2>0, <2>2, Zenon DEF readError
  <2>3. CASE Malformed(l)
    BY <2>0, <2>3, Zenon DEF Malformed, protocolError
  <2>4. CASE handlePublish(l)
    <3>0. rpc[l] = "handle" /\ frame[l].type = "publish"
      BY <2>4, Zenon DEF handlePublish
    <3>1. CASE protocolError(l)
      BY <2>0, <3>0, <3>1, Zenon DEF protocolError
    <3>2. CASE ~protocolError(l)
      <4>1. /\ registerAlias(l, frame[l]) /\ resolveTopicAlias(l, frame[l]) # None
            /\ down' = down /\ nconn' = nconn /\ frame' = frame
            /\ queue' = queue /\ inflight' = inflight /\ balias' = balias
            /\ \/ /\ sendAck(l, "pubrec", frame[l].id) /\ rpc' = [rpc EXCEPT ![l] = "read"]
                  /\ misrouted' = misrouted
               \/ /\ dispatch(frame[l].m, resolveTopicAlias(l, frame[l])) /\ up' = up
                  /\ rpc' = [rpc EXCEPT ![l] = "handler"]
        BY <2>4, <3>2, Zenon DEF handlePublish
      <4>2. aliases' = [aliases EXCEPT ![l] = Table(l)] /\ aliases' \in [Links -> Tables]
        BY <3>0, <4>1, Registering, Zenon
      <4>3. misrouted' = {}
        BY <3>0, <4>1, ResolvedAsIntended, Zenon DEF dispatch
      <4>4. up' \in [Links -> Seq(AckFrames)]
        BY <1>1, <2>0, <3>0, <4>1, Zenon
      <4> QED BY <3>0, <4>1, <4>2, <4>3, <4>4, ZenonT(60)
    <3> QED BY <3>1, <3>2, Zenon
  <2>5. CASE handlerReturns(l)
    BY <2>0, <2>1, <2>5, Zenon DEF handlerReturns
  <2>6. CASE record(l)
    <3>1. rpc[l] = "record" /\ frame[l].type = "publish"
      BY <2>6, ZenonT(60) DEF record, Types, LoopTypes
    <3>2. up' \in [Links -> Seq(AckFrames)]
      BY <1>1, <2>6, <3>1, Zenon DEF record
    <3> QED BY <2>0, <2>1, <2>6, <3>1, <3>2, ZenonT(60) DEF record
  <2>7. CASE handleInboundPubrel(l)
    <3>1. rpc[l] = "handle" /\ frame[l].type = "pubrel"
      BY <2>7, Zenon DEF handleInboundPubrel
    <3>2. up' \in [Links -> Seq(AckFrames)]
      BY <1>1, <2>7, <3>1, ZenonT(60) DEF handleInboundPubrel
    <3> QED BY <2>0, <2>1, <2>7, <3>1, <3>2, ZenonT(60) DEF handleInboundPubrel
  <2> QED BY <2>2, <2>3, <2>4, <2>5, <2>6, <2>7, Zenon
<1>3. InStep'
  BY <1>2, LoopMoves, Zenon
<1>4. LoopTypes'
  BY <1>2, ZenonT(60) DEF Types, LoopTypes
<1>5. WireTypes'
  BY <1>2, Zenon DEF Types, WireTypes
<1> QED BY <1>2, <1>3, <1>4, <1>5, Zenon DEF Types

\* A new connection starts with empty tables on both sides and with frames
\* that carry their topics.
LEMMA Connecting ==
  ASSUME Types, InStep, Connect PROVE Types' /\ InStep'
<1> DEFINE none == [a \in Aliases |-> None]
<1>0. nconn + 1 \in Links
  BY NextLink, Zenon DEF Connect
<1> PICK n \in Links : n = nconn + 1
  BY <1>0, Zenon
<1>1. /\ n = nconn + 1 /\ nconn \in Nat /\ nconn' = n /\ rpc' = [rpc EXCEPT ![n] = "read"]
      /\ balias' = none /\ aliases' = aliases /\ frame' = frame /\ up' = up /\ queue' = queue
      /\ n \in 0 .. MaxLinks
  BY NextLink, Zenon DEF Connect
<1>2. aliases[n] = none /\ down[n] = << >>
  BY <1>1, SMTT(60) DEF InStep, Unused
<1>3. PICK d \in {Retransmissions, << >>} :
        down' = [down EXCEPT ![n] = d] /\ inflight' \in {inflight, << >>}
  <2>1. down = [down EXCEPT ![n] = << >>]
    BY <1>1, <1>2, Zenon DEF Types, WireTypes
  <2> QED BY <1>1, <2>1, Zenon DEF Connect
<1>4. d \in Seq(Frames)
  <2>1. Retransmissions \in Seq(Frames)
    BY RetransmissionTypes, Zenon DEF Types, WireTypes
  <2>2. << >> \in Seq(Frames)
    BY EmptySeq, Zenon
  <2> QED BY <2>1, <2>2, Zenon
<1>5. ASSUME NEW i \in 1 .. Len(d)
      PROVE  Honest(d[i]) /\ \A a \in Aliases : ~Uses(d[i], a) /\ ~Defines(d[i], a)
  <2>1. d = Retransmissions /\ i \in DOMAIN inflight /\ inflight[i] \in Exchanges
    <3>1. d = Retransmissions
      BY SMTT(60)
    <3>2. DOMAIN d = 1 .. Len(d) /\ DOMAIN d = DOMAIN inflight
      BY <1>4, <3>1, SMTT(60) DEF Retransmissions
    <3> QED BY <3>1, <3>2, SMTT(60) DEF Types, WireTypes
  <2> DEFINE e == inflight[i]
  <2>2. e.m \in Messages /\ e.id \in PacketIds
    BY <2>1, Zenon DEF Exchanges
  <2>3. TopicOf[e.m] \in Topics /\ TopicOf[e.m] # None /\ None \notin Aliases
    BY <2>2, ReceiverAssumption, Zenon DEF Aliases
  <2>4. d[i] = IF e.stage = "rel" THEN PubrelFrame(e) ELSE PublishFrame(e, TopicOf[e.m], None)
    BY <2>1, Zenon DEF Retransmissions
  <2> HIDE DEF e
  <2>5. CASE e.stage = "rel"
    BY <2>2, <2>4, <2>5, PubrelIsFrame, Zenon DEF Honest, Uses, Defines
  <2>6. CASE e.stage # "rel"
    <3>1. /\ d[i].type = "publish" /\ d[i].m = e.m /\ d[i].topic = TopicOf[e.m] /\ d[i].alias = None
      BY <2>2, <2>3, <2>4, <2>6, PublishIsFrame, SMTT(60)
    <3> QED BY <2>2, <2>3, <3>1, Zenon DEF Honest, Uses, Defines, Expected
  <2> QED BY <2>5, <2>6, Zenon
<1>6. Consistent(d, none) /\ Becomes(d, none, none)
  <2>1. Len(d) \in Nat
    BY <1>4, SMTT(60)
  <2> QED BY <1>5, <2>1, SMTT(60) DEF Consistent, Becomes, Known
<1> HIDE DEF none
<1>7. /\ down'[n] = d /\ rpc'[n] = "read"
      /\ \A k \in Links \ {n} : down'[k] = down[k] /\ rpc'[k] = rpc[k] /\ Table(k)' = Table(k)
      /\ Table(n)' = none
  <2>1. down'[n] = d /\ \A k \in Links \ {n} : down'[k] = down[k]
    BY <1>3, Zenon DEF Types, WireTypes
  <2>2. rpc'[n] = "read" /\ \A k \in Links \ {n} : rpc'[k] = rpc[k]
    BY <1>1, Zenon DEF Types, LoopTypes
  <2> QED BY <1>1, <1>2, <2>1, <2>2, Zenon DEF Table
<1>8. Types'
  <2>1. balias' \in Tables
    BY <1>1, Zenon DEF none, Tables
  <2>2. down' \in [Links -> Seq(Frames)]
    BY <1>1, <1>3, <1>4, Zenon DEF Types, WireTypes
  <2>3. inflight' \in Seq(Exchanges)
    <3>1. << >> \in Seq(Exchanges) /\ inflight \in Seq(Exchanges)
      BY EmptySeq, Zenon DEF Types, WireTypes
    <3> QED BY <1>3, <3>1, Zenon
  <2>4. WireTypes'
    BY <1>1, <2>1, <2>2, <2>3, ZenonT(60) DEF Types, WireTypes
  <2>5. LoopTypes'
    BY <1>1, <1>7, Zenon DEF Types, LoopTypes
  <2> QED BY <2>4, <2>5, Zenon DEF Types
<1>9. Aliasing'
  BY <1>1, <1>6, <1>7, Zenon DEF InStep, Aliasing
<1>10. Honesty'
  BY <1>1, <1>5, <1>7, ZenonT(60) DEF InStep, Honesty
<1>11. Unused'
  BY <1>1, <1>7, SMTT(60) DEF InStep, Unused, Links
<1> QED BY <1>8, <1>9, <1>10, <1>11, Zenon DEF InStep

-----------------------------------------------------------------------------
\* The two alias tables stay in step, and no message is misrouted.
LEMMA StaysInStep == Spec => [](Types /\ InStep /\ TopicsResolved)
<1> DEFINE IInv == Types /\ InStep /\ TopicsResolved
<1>1. Init => IInv
  <2> SUFFICES ASSUME Init PROVE IInv
    BY Zenon
  <2>1. queue \in Seq(Messages)
    <3>1. Cardinality(Messages) \in Nat
      BY ReceiverAssumption, FS_CardinalityType, Zenon
    <3>2. queue \in [1 .. Cardinality(Messages) -> Messages]
      BY Zenon DEF Init, Bijection, Injection
    <3> QED BY <3>1, <3>2, SMTT(60)
  <2>2. Types
    BY <2>1, ReceiverAssumption, SMTT(60) DEF Init, Types, WireTypes, LoopTypes, Tables
  <2>3. InStep
    BY SMTT(60) DEF Init, InStep, Aliasing, Honesty, Unused, Consistent
  <2> QED BY <2>2, <2>3, Zenon DEF Init, TopicsResolved
<1>2. IInv /\ [Next]_vars => IInv'
  <2> SUFFICES ASSUME Types, InStep, TopicsResolved, [Next]_vars PROVE IInv'
    BY Zenon
  <2> USE DEF client, broker, history
  <2>0. nconn > 0 => nconn \in Links
    BY LiveLink, Zenon
  <2>1. CASE BrokerSends
    <3>1. InStep' /\ WireTypes'
      BY <2>0, <2>1, BrokerSendsTypes, FrameSent, Zenon DEF BrokerSends
    <3>2. UNCHANGED <<nconn, aliases, rpc, frame, misrouted>>
      BY <2>1, Zenon DEF BrokerSends
    <3> QED BY <3>1, <3>2, Zenon DEF Types, LoopTypes, TopicsResolved
  <2>2. CASE BrokerReceives
    <3>1. WireTypes' /\ LoopTypes' /\ TopicsResolved'
      BY <2>2, BrokerReceivesTypes, Zenon DEF BrokerReceives, Types, LoopTypes, TopicsResolved
    <3>2. ASSUME down' = down PROVE InStep'
      <4>1. UNCHANGED <<nconn, aliases, rpc, frame, balias>>
        BY <2>2, Zenon DEF BrokerReceives
      <4> QED BY <3>2, <4>1, Zenon DEF InStep, Aliasing, Honesty, Unused, Table
    <3>3. ASSUME NEW f \in Frames, down' = [down EXCEPT ![nconn] = Append(@, f)], f.type = "pubrel"
          PROVE  InStep'
      <4>1. Honest(f) /\ \A a : ~Uses(f, a) /\ ~Defines(f, a)
        BY <3>3, Zenon DEF Honest, Uses, Defines
      <4> QED BY <2>0, <2>2, <3>3, <4>1, FrameSent, Zenon DEF BrokerReceives
    <3>4. InStep'
      BY <2>2, <3>2, <3>3, BrokerReceivesTypes, Zenon
    <3> QED BY <3>1, <3>4, Zenon DEF Types
  <2>3. CASE BrokerErrs
    <3>1. InStep' /\ WireTypes'
      BY <2>0, <2>3, BrokerErrsTypes, FrameSent, Zenon DEF BrokerErrs
    <3>2. UNCHANGED <<nconn, aliases, rpc, frame, misrouted>>
      BY <2>3, Zenon DEF BrokerErrs
    <3> QED BY <3>1, <3>2, Zenon DEF Types, LoopTypes, TopicsResolved
  <2>4. ASSUME NEW l \in Links, Reader(l) PROVE IInv'
    <3>1. CASE readLoop(l)
      BY <3>1, FrameRead, Zenon DEF readLoop, TopicsResolved
    <3>2. CASE ~readLoop(l)
      BY <2>4, <3>2, FrameHandled, Zenon DEF Reader
    <3> QED BY <3>1, <3>2, Zenon
  <2>5. ASSUME NEW l \in Links, teardownLink(l) PROVE IInv'
    <3>1. /\ UNCHANGED <<nconn, aliases, rpc, frame, misrouted>>
          /\ UNCHANGED <<down, up, queue, inflight, balias>>
      BY <2>5, Zenon DEF teardownLink
    <3>2. Types'
      BY <3>1, Zenon DEF Types, WireTypes, LoopTypes
    <3>3. InStep'
      BY <3>1, Zenon DEF InStep, Aliasing, Honesty, Unused, Table
    <3> QED BY <3>1, <3>2, <3>3, Zenon DEF TopicsResolved
  <2>6. CASE Connect
    BY <2>6, Connecting, Zenon DEF Connect, TopicsResolved
  <2>7. CASE UNCHANGED vars
    <3>1. /\ UNCHANGED <<nconn, aliases, rpc, frame, misrouted>>
          /\ UNCHANGED <<down, up, queue, inflight, balias>>
      BY <2>7, Zenon DEF vars
    <3>2. Types'
      BY <3>1, Zenon DEF Types, WireTypes, LoopTypes
    <3>3. InStep'
      BY <3>1, Zenon DEF InStep, Aliasing, Honesty, Unused, Table
    <3> QED BY <3>1, <3>2, <3>3, Zenon DEF TopicsResolved
  <2> QED BY <2>1, <2>2, <2>3, <2>4, <2>5, <2>6, <2>7, Zenon DEF Next
<1> QED BY <1>1, <1>2, PTL DEF Spec

\* resolveTopicAlias and registerAlias: every message that reaches a handler
\* reaches it under the topic it was published on, whichever aliases the
\* broker defines and redefines, whatever is lost with a connection, and with
\* read loops of old connections still running beside the new one.
THEOREM AliasesResolve == Spec => []TopicsResolved
BY StaysInStep, PTL

-----------------------------------------------------------------------------
(* Sequences as sets of frames.                                            *)

\* A frame that stands for an exchange: not one the broker made up.
Carries(f) == f.type # "bad" /\ (f.type = "publish" => f.m \in Messages)

\* No two frames of s stand for the same exchange.
Sole(s) == \A i, j \in DOMAIN s : Carries(s[i]) /\ Carries(s[j]) /\ s[i].id = s[j].id => i = j

\* t holds the elements of s, and x.
Grows(t, s, x) == Range(t) = Range(s) \cup {x}

\* A frame is sent: it is among those on their way.
LEMMA RangeAppend ==
  ASSUME NEW S, NEW s \in Seq(S), NEW x \in S
  PROVE  Grows(Append(s, x), s, x)
<1>1. /\ DOMAIN s = 1 .. Len(s) /\ Len(s) \in Nat /\ DOMAIN Append(s, x) = 1 .. Len(s) + 1
      /\ \A i \in 1 .. Len(s) : Append(s, x)[i] = s[i]
      /\ Append(s, x)[Len(s) + 1] = x
  BY SMTT(60)
<1> QED BY <1>1, SMTT(60) DEF Grows, Range

\* A sequence holds only elements of its set.
LEMMA RangeType == ASSUME NEW S, NEW s \in Seq(S) PROVE \A x \in Range(s) : x \in S
BY SMTT(60) DEF Range

\* What was sent was a frame if the wire holds only frames.
LEMMA Appended ==
  ASSUME NEW S, NEW s \in Seq(S), NEW x, NEW t \in Seq(S), t = Append(s, x)
  PROVE  x \in S
<1>1. x = t[Len(s) + 1] /\ Len(s) + 1 \in 1 .. Len(t)
  BY SMTT(60)
<1> QED BY <1>1, SMTT(60)

\* What the counts say once m is delivered once more.
OneMore(D, E, m) ==
  /\ E \in [Messages -> Nat] /\ E[m] > 0 /\ (E[m] > 1 => D[m] > 0)
  /\ \A k \in Messages \ {m} : E[k] = D[k]
  /\ \A k \in Messages : D[k] > 0 => E[k] > 0

\* A message is delivered once more.
LEMMA Counted ==
  ASSUME NEW D \in [Messages -> Nat], NEW m \in Messages, NEW E, E = [D EXCEPT ![m] = @ + 1]
  PROVE  OneMore(D, E, m)
BY SMTT(60) DEF OneMore

\* A message that has not been delivered.
LEMMA NotPositive == ~(0 > 0)
BY SMTT(60)

\* A frame is read: the others stay on their way.
LEMMA RangeTail ==
  ASSUME NEW S, NEW s \in Seq(S), s # << >>
  PROVE  Range(Tail(s)) \subseteq Range(s) /\ Head(s) \in Range(s) /\ Head(s) \in S /\ Tail(s) \in Seq(S)
<1>1. /\ DOMAIN s = 1 .. Len(s) /\ Len(s) \in Nat /\ Len(s) > 0 /\ DOMAIN Tail(s) = 1 .. Len(s) - 1
      /\ \A i \in 1 .. Len(s) - 1 : Tail(s)[i] = s[i + 1]
      /\ Head(s) = s[1] /\ Head(s) \in S /\ Tail(s) \in Seq(S)
  BY SMTT(60)
<1> QED BY <1>1, SMTT(60) DEF Range

\* A frame for an exchange that no other frame stands for may be sent.
LEMMA SoleAppend ==
  ASSUME NEW S, NEW s \in Seq(S), NEW x \in S, Sole(s),
         \A y \in Range(s) : Carries(y) /\ Carries(x) => y.id # x.id
  PROVE  Sole(Append(s, x))
<1> DEFINE t == Append(s, x)
<1>1. /\ DOMAIN s = 1 .. Len(s) /\ Len(s) \in Nat /\ DOMAIN t = 1 .. Len(s) + 1
      /\ \A i \in 1 .. Len(s) : t[i] = s[i]
      /\ t[Len(s) + 1] = x
  BY SMTT(60)
<1>2. \A i \in 1 .. Len(s) : Carries(s[i]) /\ Carries(x) => s[i].id # x.id
  BY <1>1, Zenon DEF Range
<1> HIDE DEF t
<1> QED BY <1>1, <1>2, SMTT(60) DEF Sole, t

\* The frame that is read stands for an exchange of its own.
LEMMA SoleTail ==
  ASSUME NEW S, NEW s \in Seq(S), s # << >>, Sole(s)
  PROVE  /\ Sole(Tail(s))
         /\ \A y \in Range(Tail(s)) : Carries(y) /\ Carries(Head(s)) => y.id # Head(s).id
<1> DEFINE t == Tail(s)
<1>1. /\ DOMAIN s = 1 .. Len(s) /\ Len(s) \in Nat /\ Len(s) > 0 /\ DOMAIN t = 1 .. Len(s) - 1
      /\ \A i \in 1 .. Len(s) - 1 : t[i] = s[i + 1]
      /\ Head(s) = s[1]
  BY SMTT(60)
<1> HIDE DEF t
<1>2. Sole(t)
  <2> SUFFICES ASSUME NEW i \in DOMAIN t, NEW j \in DOMAIN t, Carries(t[i]), Carries(t[j]), t[i].id = t[j].id
               PROVE  i = j
    BY Zenon DEF Sole
  <2>1. i + 1 \in DOMAIN s /\ j + 1 \in DOMAIN s /\ t[i] = s[i + 1] /\ t[j] = s[j + 1]
    BY <1>1, SMTT(60)
  <2>2. i + 1 = j + 1
    BY <2>1, Zenon DEF Sole
  <2> QED BY <1>1, <2>2, SMTT(60)
<1>3. ASSUME NEW y \in Range(t), Carries(y), Carries(Head(s)) PROVE y.id # Head(s).id
  <2>1. PICK i \in DOMAIN t : y = t[i]
    BY Zenon DEF Range
  <2>2. i + 1 \in DOMAIN s /\ 1 \in DOMAIN s /\ y = s[i + 1] /\ i + 1 # 1
    BY <1>1, <2>1, SMTT(60)
  <2> QED BY <1>1, <1>3, <2>2, Zenon DEF Sole
<1> QED BY <1>2, <1>3, Zenon DEF t

\* No frame of A stands for the same exchange as one of B.
Apart(A, B) == \A f \in A, g \in B : Carries(f) /\ Carries(g) => f.id # g.id

\* The oldest frame and those that stay on their way.
LEMMA Taken ==
  ASSUME NEW S, NEW s \in Seq(S), s # << >>, Sole(s)
  PROVE  /\ Head(s) \in Range(s) /\ \A y \in Range(Tail(s)) : y \in Range(s)
         /\ Sole(Tail(s)) /\ Apart(Range(Tail(s)), {Head(s)})
<1>1. Apart(Range(Tail(s)), {Head(s)})
  BY SoleTail, Zenon DEF Apart
<1> QED BY <1>1, RangeTail, SoleTail, Zenon

\* One more frame is on its way.
LEMMA Sent ==
  ASSUME NEW S, NEW s \in Seq(S), NEW x \in S, Sole(s),
         \A y \in Range(s) : Carries(y) /\ Carries(x) => y.id # x.id, NEW t, t = Append(s, x)
  PROVE  Grows(t, s, x) /\ Sole(t)
BY RangeAppend, SoleAppend, Zenon

\* Each message, and each identifier, has at most one exchange in s.
Separate(s) == \A i, j \in DOMAIN s : s[i].id = s[j].id \/ s[i].m = s[j].m => i = j

\* t holds the exchanges of s but the one under id.
Drops(t, s, id) == Range(t) = {e \in Range(s) : e.id # id}

\* An exchange of its own message and identifier is opened.
LEMMA SeparateAppend ==
  ASSUME NEW s \in Seq(Exchanges), NEW e \in Exchanges, Separate(s),
         \A o \in Range(s) : o.id # e.id /\ o.m # e.m
  PROVE  Separate(Append(s, e))
<1> DEFINE t == Append(s, e)
<1>1. /\ DOMAIN s = 1 .. Len(s) /\ Len(s) \in Nat /\ DOMAIN t = 1 .. Len(s) + 1
      /\ \A i \in 1 .. Len(s) : t[i] = s[i]
      /\ t[Len(s) + 1] = e
  BY SMTT(60)
<1>2. \A i \in 1 .. Len(s) : s[i].id # e.id /\ s[i].m # e.m
  BY <1>1, Zenon DEF Range
<1> HIDE DEF t
<1> QED BY <1>1, <1>2, SMTT(60) DEF Separate, t

\* The oldest message leaves the queue, in which no message is twice.
LEMMA QueueTail ==
  ASSUME NEW s \in Seq(Messages), s # << >>, \A i, j \in DOMAIN s : s[i] = s[j] => i = j
  PROVE  /\ \A i, j \in DOMAIN Tail(s) : Tail(s)[i] = Tail(s)[j] => i = j
         /\ \A m \in Range(Tail(s)) : m \in Range(s) /\ m # Head(s)
<1> DEFINE t == Tail(s)
<1>1. /\ DOMAIN s = 1 .. Len(s) /\ Len(s) \in Nat /\ Len(s) > 0 /\ DOMAIN t = 1 .. Len(s) - 1
      /\ \A i \in 1 .. Len(s) - 1 : t[i] = s[i + 1]
      /\ Head(s) = s[1]
  BY SMTT(60)
<1> HIDE DEF t
<1>2. ASSUME NEW i \in DOMAIN t, NEW j \in DOMAIN t, t[i] = t[j] PROVE i = j
  <2>1. i + 1 \in DOMAIN s /\ j + 1 \in DOMAIN s /\ s[i + 1] = s[j + 1]
    BY <1>1, <1>2, SMTT(60)
  <2>2. i + 1 = j + 1
    BY <2>1, Zenon
  <2> QED BY <1>1, <2>2, SMTT(60)
<1>3. ASSUME NEW m \in Range(t) PROVE m \in Range(s) /\ m # Head(s)
  <2>1. PICK i \in DOMAIN t : m = t[i]
    BY Zenon DEF Range
  <2>2. i + 1 \in DOMAIN s /\ 1 \in DOMAIN s /\ m = s[i + 1] /\ i + 1 # 1
    BY <1>1, <2>1, SMTT(60)
  <2> QED BY <1>1, <2>2, Zenon DEF Range
<1> QED BY <1>2, <1>3, Zenon DEF t

\* Ending an exchange removes it and nothing else.
LEMMA WithoutRange ==
  ASSUME NEW s \in Seq(Exchanges), NEW id, Separate(s)
  PROVE  Drops(Without(s, id), s, id) /\ Separate(Without(s, id))
<1> DEFINE uses == {i \in DOMAIN s : s[i].id = id}
           n == CHOOSE i \in uses : TRUE
           t == Without(s, id)
<1>0. DOMAIN s = 1 .. Len(s) /\ Len(s) \in Nat
  BY SMTT(60)
<1>1. CASE uses = {}
  BY <1>1, Zenon DEF Without, Drops, Range
<1>2. CASE uses # {}
  <2>1. n \in 1 .. Len(s) /\ s[n].id = id
    BY <1>2, SMTT(60)
  <2>2. t = SubSeq(s, 1, n - 1) \o SubSeq(s, n + 1, Len(s))
    BY <1>2, Zenon DEF Without
  <2> HIDE DEF n, t, uses
  <2> DEFINE left == SubSeq(s, 1, n - 1)
             right == SubSeq(s, n + 1, Len(s))
  <2>3. left \in Seq(Exchanges) /\ Len(left) = n - 1 /\ \A i \in 1 .. n - 1 : left[i] = s[i]
    BY <1>0, <2>1, SubSeqProperties, SMTT(60)
  <2>4. right \in Seq(Exchanges) /\ Len(right) = Len(s) - n /\ \A i \in 1 .. Len(s) - n : right[i] = s[n + i]
    <3>1. \A i \in n + 1 .. Len(s) : s[i] \in Exchanges
      BY <1>0, <2>1, SMTT(60)
    <3>2. /\ right \in Seq(Exchanges)
          /\ Len(right) = IF n + 1 <= Len(s) THEN Len(s) - (n + 1) + 1 ELSE 0
          /\ \A i \in 1 .. Len(s) - (n + 1) + 1 : right[i] = s[n + 1 + i - 1]
      BY <1>0, <2>1, <3>1, SubSeqProperties, SMTT(60)
    <3> HIDE DEF right
    <3>3. Len(right) = Len(s) - n
      <4>1. n \in Int /\ Len(s) \in Int /\ n <= Len(s)
        BY <1>0, <2>1, SMTT(60)
      <4>2. Len(right) = IF n + 1 <= Len(s) THEN Len(s) - (n + 1) + 1 ELSE 0
        BY <3>2, Zenon
      <4> QED BY <4>1, <4>2, SMTT(60)
    <3>4. ASSUME NEW i \in 1 .. Len(s) - n PROVE right[i] = s[n + i]
      <4>1. i \in 1 .. Len(s) - (n + 1) + 1 /\ n + 1 + i - 1 = n + i
        BY <1>0, <2>1, SMTT(60)
      <4> QED BY <3>2, <4>1, Zenon
    <3> QED BY <3>2, <3>3, <3>4, Zenon
  <2>5. /\ DOMAIN t = 1 .. Len(s) - 1
        /\ \A i \in 1 .. Len(s) - 1 : t[i] = IF i < n THEN s[i] ELSE s[i + 1]
    <3> HIDE DEF left, right
    <3>1. /\ t \in Seq(Exchanges) /\ Len(t) = Len(left) + Len(right)
          /\ \A i \in 1 .. Len(left) + Len(right) : t[i] = IF i <= Len(left) THEN left[i] ELSE right[i - Len(left)]
      BY <2>2, <2>3, <2>4, ConcatProperties, Zenon DEF left, right
    <3>2. DOMAIN t = 1 .. Len(s) - 1
      BY <1>0, <2>1, <2>3, <2>4, <3>1, SMTT(60)
    <3>3. ASSUME NEW i \in 1 .. Len(s) - 1 PROVE t[i] = IF i < n THEN s[i] ELSE s[i + 1]
      <4>1. t[i] = IF i <= n - 1 THEN left[i] ELSE right[i - (n - 1)]
        BY <1>0, <2>1, <2>3, <2>4, <3>1, SMTT(60)
      <4>2. CASE i < n
        BY <1>0, <2>1, <2>3, <4>1, <4>2, SMTT(60)
      <4>3. CASE i >= n
        <5>1. i - (n - 1) \in 1 .. Len(s) - n /\ n + (i - (n - 1)) = i + 1
          BY <1>0, <2>1, <4>3, SMTT(60)
        <5>2. right[i - (n - 1)] = s[n + (i - (n - 1))]
          BY <2>4, <5>1, Zenon
        <5> QED BY <1>0, <2>1, <4>1, <4>3, <5>1, <5>2, SMTT(60)
      <4> QED BY <1>0, <2>1, <4>2, <4>3, SMTT(60)
    <3> QED BY <3>2, <3>3, Zenon
  <2>6. ASSUME NEW e PROVE e \in Range(t) <=> e \in Range(s) /\ e.id # id
    <3>1. ASSUME NEW i \in DOMAIN t PROVE t[i] \in Range(s) /\ t[i].id # id
      <4>1. PICK k \in DOMAIN s : t[i] = s[k] /\ k # n
        BY <1>0, <2>1, <2>5, SMTT(60)
      <4> QED BY <1>0, <2>1, <4>1, Zenon DEF Range, Separate
    <3>2. ASSUME NEW k \in DOMAIN s, s[k].id # id PROVE \E i \in DOMAIN t : t[i] = s[k]
      <4>1. k # n
        BY <2>1, <3>2, Zenon
      <4>2. CASE k < n
        BY <1>0, <2>1, <2>5, <4>2, SMTT(60)
      <4>3. CASE k > n
        <5>1. k - 1 \in DOMAIN t /\ t[k - 1] = s[k]
          BY <1>0, <2>1, <2>5, <4>3, SMTT(60)
        <5> QED BY <5>1, Zenon
      <4> QED BY <1>0, <2>1, <4>1, <4>2, <4>3, SMTT(60)
    <3> QED BY <3>1, <3>2, Zenon DEF Range
  <2>7. ASSUME NEW i \in DOMAIN t, NEW j \in DOMAIN t, t[i].id = t[j].id \/ t[i].m = t[j].m PROVE i = j
    <3> DEFINE up1(k) == IF k < n THEN k ELSE k + 1
    <3>1. up1(i) \in DOMAIN s /\ up1(j) \in DOMAIN s /\ t[i] = s[up1(i)] /\ t[j] = s[up1(j)]
      BY <1>0, <2>1, <2>5, SMTT(60)
    <3>2. up1(i) = up1(j)
      <4> HIDE DEF up1
      <4> QED BY <2>7, <3>1, Zenon DEF Separate
    <3> QED BY <1>0, <2>1, <2>5, <3>2, SMTT(60)
  <2> QED BY <2>6, <2>7, Zenon DEF Drops, Separate, t
<1> QED BY <1>1, <1>2, Zenon

-----------------------------------------------------------------------------
(* The dedup records.                                                      *)

Stores == [msgs : SUBSET [id : PacketIds, kind : {"inbound"}, msg : {None}, seq : Nat], seq : Nat]

Recorded(id) == Contains(store, id, "inbound")

\* handleInboundQoS2 records one identifier.
LEMMA SaveRecords ==
  ASSUME NEW s \in Stores, NEW id \in PacketIds
  PROVE  LET t == Save(s, id, "inbound", None)
         IN  /\ t \in Stores
             /\ \A j : Contains(t, j, "inbound") <=> j = id \/ Contains(s, j, "inbound")
<1> DEFINE prev == Entry(s, id, "inbound")
           n == IF prev = {} THEN s.seq + 1 ELSE (CHOOSE m \in prev : TRUE).seq
           r == [id |-> id, kind |-> "inbound", msg |-> None, seq |-> n]
           t == Save(s, id, "inbound", None)
<1>1. n \in Nat
  <2>1. CASE prev = {}
    BY <2>1, SMTT(60) DEF Stores
  <2>2. CASE prev # {}
    <3>1. (CHOOSE m \in prev : TRUE) \in prev
      BY <2>2, Zenon
    <3>2. \A m \in prev : m.seq \in Nat
      BY Zenon DEF Entry, Stores
    <3> HIDE DEF prev
    <3> QED BY <2>2, <3>1, <3>2, Zenon
  <2> QED BY <2>1, <2>2, Zenon
<1>2. t = [msgs |-> (s.msgs \ prev) \cup {r}, seq |-> IF prev = {} THEN n ELSE s.seq]
  BY Zenon DEF Save
<1>3. prev \subseteq s.msgs /\ \A m \in prev : m.id = id
  BY Zenon DEF Entry
<1>4. r \in [id : PacketIds, kind : {"inbound"}, msg : {None}, seq : Nat] /\ r.id = id /\ r.kind = "inbound"
  BY <1>1, Zenon
<1> HIDE DEF n, r, t, prev
<1>5. t \in Stores
  BY <1>1, <1>2, <1>4, Zenon DEF Stores
<1>6. ASSUME NEW j PROVE Contains(t, j, "inbound") <=> j = id \/ Contains(s, j, "inbound")
  <2>1. t.msgs = (s.msgs \ prev) \cup {r}
    BY <1>2, Zenon
  <2> QED BY <1>3, <1>4, <2>1, Zenon DEF Contains, Entry
<1> QED BY <1>5, <1>6, ZenonT(60) DEF t

\* handleInboundPubrel forgets one identifier.
LEMMA DeleteForgets ==
  ASSUME NEW s \in Stores, NEW id
  PROVE  LET t == Delete(s, id, "inbound")
         IN  /\ t \in Stores
             /\ \A j : Contains(t, j, "inbound") <=> j # id /\ Contains(s, j, "inbound")
<1> DEFINE t == Delete(s, id, "inbound")
<1>1. t \in Stores /\ t.msgs = s.msgs \ Entry(s, id, "inbound")
  BY Zenon DEF Delete, Stores
<1> HIDE DEF t
<1>2. ASSUME NEW j PROVE Contains(t, j, "inbound") <=> j # id /\ Contains(s, j, "inbound")
  BY <1>1, Zenon DEF Contains, Entry
<1> QED BY <1>1, <1>2, Zenon DEF t

-----------------------------------------------------------------------------
(* The invariant of the exchanges.                                         *)

\* The exchanges the broker has open.
Open == Range(inflight)

\* The frame in the hands of a read loop.
Held(l) == IF rpc[l] \in {"handle", "handler", "record"} THEN {frame[l]} ELSE {}

\* What a frame or an acknowledgement says of its exchange.
Fits(f, e) ==
  /\ f.type = "publish" => e.stage = "sent" /\ e.m = f.m
  /\ f.type = "puback" => e.m \notin Qos2 /\ delivered[e.m] > 0
  /\ f.type = "pubrec" => e.stage = "sent" /\ e.m \in Qos2 /\ delivered[e.m] > 0
  /\ f.type = "pubrel" => e.stage = "rel"
  /\ f.type \in {"pubcomp", "pubcomp-0x92"} => e.stage = "rel" /\ ~Recorded(e.id)

Matches(f) == \E e \in Open : e.id = f.id /\ Fits(f, e)

\* The broker's books: a message is queued or open at most once, no two
\* exchanges share an identifier, and what is queued was never delivered.
Books ==
  /\ Separate(inflight)
  /\ \A i, j \in DOMAIN queue : queue[i] = queue[j] => i = j
  /\ \A m \in Range(queue) : delivered[m] = 0 /\ \A e \in Open : e.m # m
  /\ \A e \in Open : e.stage = "rel" => e.m \in Qos2 /\ delivered[e.m] > 0

\* On the newest link, what is on the wire or in the hands of the read loop
\* fits an open exchange, and no exchange is there twice.
Pipe ==
  \A l \in Links : l = nconn =>
    /\ \A f \in Range(down[l]) \cup Range(up[l]) \cup Held(l) : Carries(f) => Matches(f)
    /\ Sole(down[l]) /\ Sole(up[l])
    /\ Apart(Range(down[l]), Range(up[l]))
    /\ Apart(Range(down[l]), Held(l)) /\ Apart(Range(up[l]), Held(l))

\* The read loop of an earlier link waits for a frame or is in a handler; a
\* link to come is unused.
OldLinks ==
  \A l \in Links :
    /\ l < nconn => l \in stopping /\ rpc[l] \notin {"handle", "record"}
    /\ l > nconn => up[l] = << >> /\ l \notin stopping

\* A dedup record belongs to an exchange whose message was delivered.
Records ==
  \A id \in PacketIds : Recorded(id) => \E e \in Open : e.id = id /\ e.m \in Qos2 /\ delivered[e.m] > 0

\* A handler runs for a message that is delivered now; a link that dies
\* meanwhile leaves a trace.
Handlers ==
  \A l \in Links :
    /\ rpc[l] \in {"handler", "record"} => frame[l].m \in Messages /\ delivered[frame[l].m] > 0
    /\ rpc[l] \in {"handle", "handler"} /\ l \in stopping /\ frame[l].type = "publish"
         => frame[l].m \in interrupted

\* A QoS 2 message that was delivered and that the broker may send again is
\* recorded, about to be, or was interrupted.
Once ==
  \A e \in Open : e.m \in Qos2 /\ e.stage = "sent" /\ delivered[e.m] > 0 /\ e.m \notin interrupted =>
    \/ Recorded(e.id)
    \/ \E l \in Links : l = nconn /\ rpc[l] \in {"handler", "record"} /\ frame[l].id = e.id

Counts == store \in Stores /\ delivered \in [Messages -> Nat] /\ acked \subseteq Messages

Promises == ExactlyOnceReceived /\ AcknowledgedMeansDelivered

Exchanging == Counts /\ Books /\ Pipe /\ OldLinks /\ Records /\ Handlers /\ Once /\ Promises

\* Of two exchanges with the same identifier, or the same message, there is one.
LEMMA OneExchange ==
  ASSUME Types, Books, NEW e \in Open, NEW o \in Open, e.id = o.id \/ e.m = o.m
  PROVE  e = o
<1>1. PICK i \in DOMAIN inflight, j \in DOMAIN inflight : e = inflight[i] /\ o = inflight[j]
  BY Zenon DEF Open, Range
<1> QED BY <1>1, Zenon DEF Books, Separate

\* An exchange is well formed.
LEMMA ExchangeTypes ==
  ASSUME Types, NEW e \in Open
  PROVE  e \in Exchanges /\ e.m \in Messages /\ e.id \in PacketIds /\ e.stage \in {"sent", "rel"}
<1>1. e \in Exchanges
  BY RangeType, Zenon DEF Types, WireTypes, Open
<1> QED BY <1>1, Zenon DEF Exchanges

\* A frame keeps fitting its exchange while no record is added for it.
LEMMA MatchKept ==
  ASSUME Types, NEW f, Matches(f), inflight' = inflight,
         \A m \in Messages : delivered[m] > 0 => delivered'[m] > 0,
         Recorded(f.id)' => Recorded(f.id)
  PROVE  Matches(f)'
<1>1. PICK e \in Open : e.id = f.id /\ Fits(f, e)
  BY Zenon DEF Matches
<1>2. e.m \in Messages
  BY ExchangeTypes, Zenon
<1>3. e \in Open'
  BY Zenon DEF Open
<1>4. Fits(f, e)'
  BY <1>1, <1>2, Zenon DEF Fits
<1> QED BY <1>1, <1>3, <1>4, Zenon DEF Matches

\* A read loop that handles or records belongs to the newest link.
LEMMA OnlyNewest ==
  ASSUME Types, InStep, OldLinks, NEW l \in Links, rpc[l] \in {"handle", "record"}
  PROVE  l = nconn
BY SMTT(60) DEF Types, LoopTypes, InStep, Unused, OldLinks, Links

\* So does one that is alive.
LEMMA OnlyNewestLives ==
  ASSUME Types, InStep, OldLinks, NEW l \in Links, rpc[l] # "off", l \notin stopping
  PROVE  l = nconn
BY SMTT(60) DEF Types, LoopTypes, InStep, Unused, OldLinks, Links

\* The handler of a link that is gone runs for a message that is interrupted.
LEMMA WasInterrupted ==
  ASSUME Types, Exchanging, NEW l \in Links, l = nconn, rpc[l] = "handler", l \in stopping,
         NEW e \in Open, frame[l].id = e.id
  PROVE  e.m \in interrupted
<1>1. frame[l].type = "publish" /\ frame[l] \in Frames
  BY Zenon DEF Types, LoopTypes
<1>2. frame[l].m \in interrupted /\ frame[l].m \in Messages
  BY <1>1, Zenon DEF Exchanging, Handlers
<1>3. frame[l] \in Held(l) /\ Carries(frame[l])
  BY <1>1, <1>2, Zenon DEF Held, Carries
<1>4. Matches(frame[l])
  BY <1>3, Zenon DEF Exchanging, Pipe
<1>5. PICK o \in Open : o.id = frame[l].id /\ o.m = frame[l].m
  BY <1>1, <1>4, Zenon DEF Matches, Fits
<1>6. o = e
  BY <1>5, OneExchange, Zenon DEF Exchanging
<1> QED BY <1>2, <1>5, <1>6, Zenon

\* A read loop ends, by an error, because its link is gone, or with the handler
\* of a link that is gone; what is on the wire may be lost.
LEMMA LoopEnds ==
  ASSUME Types, InStep, Exchanging, NEW l \in Links, rpc[l] # "off", rpc[l] # "record",
         rpc[l] = "handler" => l \in stopping,
         rpc' = [rpc EXCEPT ![l] = "exit"], stopping' \in {stopping, stopping \cup {l}},
         \/ down' = down
         \/ down[l] # << >> /\ down' = [down EXCEPT ![l] = Tail(@)],
         frame' = frame, up' = up, nconn' = nconn, store' = store, inflight' = inflight, queue' = queue,
         delivered' = delivered, interrupted' = interrupted, acked' = acked
  PROVE  Exchanging'
<1>1. /\ rpc'[l] = "exit" /\ \A k \in Links \ {l} : rpc'[k] = rpc[k]
      /\ l <= nconn /\ nconn \in Nat
  BY SMTT(60) DEF Types, LoopTypes, InStep, Unused, Links
<1>2. Counts' /\ Books' /\ Records' /\ Promises'
  BY Zenon DEF Exchanging, Counts, Books, Records, Promises, ExactlyOnceReceived, AcknowledgedMeansDelivered,
         Open, Recorded
<1>3. OldLinks'
  BY <1>1, SMTT(60) DEF Exchanging, OldLinks, Links
<1>4. Handlers'
  BY <1>1, Zenon DEF Exchanging, Handlers
<1>5. Pipe'
  <2> SUFFICES ASSUME NEW k \in Links, k = nconn
               PROVE  /\ \A f \in Range(down'[k]) \cup Range(up'[k]) \cup Held(k)' : Carries(f) => Matches(f)'
                      /\ Sole(down'[k]) /\ Sole(up'[k])
                      /\ Apart(Range(down'[k]), Range(up'[k]))
                      /\ Apart(Range(down'[k]), Held(k)') /\ Apart(Range(up'[k]), Held(k)')
    BY Zenon DEF Pipe
  <2>1. /\ \A f \in Range(down[k]) \cup Range(up[k]) \cup Held(k) : Carries(f) => Matches(f)
        /\ Sole(down[k]) /\ Sole(up[k])
        /\ Apart(Range(down[k]), Range(up[k]))
        /\ Apart(Range(down[k]), Held(k)) /\ Apart(Range(up[k]), Held(k))
    BY Zenon DEF Exchanging, Pipe
  <2>2. Held(k)' \subseteq Held(k)
    BY <1>1, Zenon DEF Held
  <2>3. Range(down'[k]) \subseteq Range(down[k]) /\ Sole(down'[k])
    <3>1. down[k] \in Seq(Frames) /\ down \in [Links -> Seq(Frames)]
      BY Zenon DEF Types, WireTypes
    <3>2. CASE down'[k] = down[k]
      BY <2>1, <3>2, Zenon
    <3>3. CASE down[k] # << >> /\ down'[k] = Tail(down[k])
      BY <2>1, <3>1, <3>3, Taken, Zenon
    <3> QED BY <3>1, <3>2, <3>3, Zenon
  <2>4. \A f : Matches(f) => Matches(f)'
    BY ZenonT(60) DEF Matches, Fits, Open, Recorded
  <2> QED BY <2>1, <2>2, <2>3, <2>4, Zenon DEF Apart
<1>6. Once'
  <2> SUFFICES ASSUME NEW e \in Open, e.m \in Qos2, e.stage = "sent", delivered[e.m] > 0, e.m \notin interrupted,
                      ~Recorded(e.id)
               PROVE  \E k \in Links : k = nconn /\ rpc'[k] \in {"handler", "record"} /\ frame[k].id = e.id
    BY Zenon DEF Once, Open, Recorded
  <2>1. PICK k \in Links : k = nconn /\ rpc[k] \in {"handler", "record"} /\ frame[k].id = e.id
    BY Zenon DEF Exchanging, Once
  <2>2. k # l
    BY <2>1, WasInterrupted, Zenon
  <2> QED BY <1>1, <2>1, <2>2, Zenon
<1> QED BY <1>2, <1>3, <1>4, <1>5, <1>6, Zenon DEF Exchanging

\* The newest read loop takes a frame off the wire.
LEMMA FrameTaken ==
  ASSUME Types, InStep, Exchanging, NEW l \in Links, readLoop(l)
  PROVE  Exchanging'
<1>1. rpc[l] = "read" /\ down[l] # << >> /\ down[l] \in Seq(Frames) /\ down' = [down EXCEPT ![l] = Tail(@)]
  BY ZenonT(60) DEF readLoop, Types, WireTypes
<1>2. CASE l \in stopping
  <2>1. /\ rpc' = [rpc EXCEPT ![l] = "exit"] /\ stopping' = stopping /\ frame' = frame /\ up' = up
        /\ nconn' = nconn /\ store' = store /\ inflight' = inflight /\ queue' = queue
        /\ delivered' = delivered /\ interrupted' = interrupted /\ acked' = acked
    BY <1>2, ZenonT(60) DEF readLoop, Goto, broker, history
  <2> QED BY <1>1, <2>1, LoopEnds, ZenonT(60)
<1>3. CASE l \notin stopping
  <2>1. /\ rpc' = [rpc EXCEPT ![l] = "handle"] /\ frame' = [frame EXCEPT ![l] = Head(down[l])]
        /\ stopping' = stopping /\ up' = up
        /\ nconn' = nconn /\ store' = store /\ inflight' = inflight /\ queue' = queue
        /\ delivered' = delivered /\ interrupted' = interrupted /\ acked' = acked
    BY <1>3, ZenonT(60) DEF readLoop, Goto, broker, history
  <2>2. l = nconn
    BY <1>1, <1>3, OnlyNewestLives, ZenonT(60) DEF Exchanging
  <2>3. /\ rpc'[l] = "handle" /\ frame'[l] = Head(down[l]) /\ down'[l] = Tail(down[l])
        /\ \A k \in Links \ {l} : rpc'[k] = rpc[k] /\ frame'[k] = frame[k]
    BY <1>1, <2>1, ZenonT(60) DEF Types, LoopTypes, WireTypes
  <2>4. Counts' /\ Books' /\ Records' /\ Promises'
    BY <2>1, Zenon DEF Exchanging, Counts, Books, Records, Promises, ExactlyOnceReceived, AcknowledgedMeansDelivered,
                Open, Recorded
  <2>5. OldLinks'
    BY <2>1, <2>2, <2>3, ZenonT(60) DEF Exchanging, OldLinks, Links, Types, LoopTypes
  <2>6. Handlers'
    <3>1. Handlers
      BY Zenon DEF Exchanging
    <3>2. ASSUME NEW k \in Links \ {l} PROVE rpc'[k] = rpc[k] /\ frame'[k] = frame[k]
      BY <2>3, Zenon
    <3>3. ASSUME NEW k \in Links
          PROVE  /\ rpc'[k] \in {"handler", "record"} => frame'[k].m \in Messages /\ delivered[frame'[k].m] > 0
                 /\ rpc'[k] \in {"handle", "handler"} /\ k \in stopping /\ frame'[k].type = "publish"
                      => frame'[k].m \in interrupted
      <4>1. CASE k = l
        BY <1>3, <2>3, <4>1, ZenonT(60)
      <4>2. CASE k # l
        BY <3>1, <3>2, <4>2, ZenonT(60) DEF Handlers
      <4> QED BY <4>1, <4>2, ZenonT(60)
    <3> QED BY <2>1, <3>3, Zenon DEF Handlers
  <2>7. Pipe'
    <3>1. /\ \A f \in Range(down[l]) \cup Range(up[l]) \cup Held(l) : Carries(f) => Matches(f)
          /\ Sole(down[l]) /\ Sole(up[l]) /\ Apart(Range(down[l]), Range(up[l]))
      BY <2>2, Zenon DEF Exchanging, Pipe
    <3>2. /\ Range(Tail(down[l])) \subseteq Range(down[l]) /\ Head(down[l]) \in Range(down[l])
          /\ Sole(Tail(down[l])) /\ Apart(Range(Tail(down[l])), {Head(down[l])})
      BY <1>1, <3>1, Taken, ZenonT(60)
    <3>3. Held(l)' = {Head(down[l])}
      BY <2>3, Zenon DEF Held
    <3>4. \A f : Matches(f) => Matches(f)'
      BY <2>1, ZenonT(60) DEF Matches, Fits, Open, Recorded
    <3> QED BY <2>1, <2>2, <2>3, <3>1, <3>2, <3>3, <3>4, ZenonT(60) DEF Pipe, Apart
  <2>8. Once'
    BY <1>1, <2>1, <2>2, <2>3, Zenon DEF Exchanging, Once, Open, Recorded
  <2> QED BY <2>4, <2>5, <2>6, <2>7, <2>8, ZenonT(60) DEF Exchanging
<1> QED BY <1>2, <1>3, Zenon

\* The newest read loop answers the frame it holds: the exchange goes on with
\* the acknowledgement, or with nothing when the link is gone.
LEMMA Answered ==
  ASSUME Types, InStep, Exchanging, NEW l \in Links, rpc[l] \in {"handle", "record"}, Carries(frame[l]),
         NEW type \in {"puback", "pubrec", "pubcomp", "pubcomp-0x92"}, sendAck(l, type, frame[l].id),
         NEW f, f = frame[l], NEW e \in Open, e.id = f.id, f.id \in PacketIds,
         Fits([type |-> type, id |-> f.id], e)',
         Recorded(f.id)' => e.m \in Qos2 /\ delivered[e.m] > 0,
         e.m \in Qos2 /\ e.stage = "sent" => Recorded(f.id)',
         store' \in Stores, \A id \in PacketIds : id # f.id => (Recorded(id)' <=> Recorded(id)),
         rpc' = [rpc EXCEPT ![l] = "read"], stopping' = stopping, frame' = frame, down' = down,
         nconn' = nconn, inflight' = inflight, queue' = queue,
         delivered' = delivered, interrupted' = interrupted, acked' = acked
  PROVE  Exchanging'
<1>1. /\ rpc'[l] = "read" /\ \A k \in Links \ {l} : rpc'[k] = rpc[k]
      /\ l = nconn
  BY OnlyNewest, Zenon DEF Types, LoopTypes, Exchanging
<1>2. Counts' /\ Books' /\ Promises' /\ OldLinks'
  <2>1. \A k \in Links \ {l} : up'[k] = up[k]
    BY Zenon DEF sendAck, Types, WireTypes
  <2>2. OldLinks'
    BY <1>1, <2>1, ZenonT(60) DEF Exchanging, OldLinks, Links
  <2> QED BY <2>2, ZenonT(60) DEF Exchanging, Counts, Books, Promises, ExactlyOnceReceived, AcknowledgedMeansDelivered, Open
<1>3. Records'
  <2> SUFFICES ASSUME NEW id \in PacketIds, Recorded(id)'
               PROVE  \E o \in Open : o.id = id /\ o.m \in Qos2 /\ delivered[o.m] > 0
    BY Zenon DEF Records, Open
  <2> QED BY Zenon DEF Exchanging, Records
<1>4. Handlers'
  BY <1>1, Zenon DEF Exchanging, Handlers
<1>5. Once'
  <2> SUFFICES ASSUME NEW o \in Open, o.m \in Qos2, o.stage = "sent", delivered[o.m] > 0, o.m \notin interrupted
               PROVE  Recorded(o.id)'
    BY Zenon DEF Once, Open
  <2>1. CASE o.id = f.id
    BY <2>1, OneExchange, ZenonT(60) DEF Exchanging
  <2>2. CASE o.id # f.id
    <3>1. Recorded(o.id)
      BY <1>1, <2>2, ZenonT(60) DEF Exchanging, Once
    <3> QED BY <2>2, <3>1, ExchangeTypes, ZenonT(60)
  <2> QED BY <2>1, <2>2, ZenonT(60)
<1>6. Pipe'
  <2> DEFINE a == [type |-> type, id |-> f.id]
  <2>1. a.id = f.id /\ Carries(a) /\ a \in AckFrames
    BY Zenon DEF Carries, AckFrames
  <2>2. Matches(a)'
    BY <2>1, Zenon DEF Matches, Open
  <2> HIDE DEF a
  <2>3. /\ \A g \in Range(down[l]) \cup Range(up[l]) : Carries(g) => Matches(g)
        /\ Sole(down[l]) /\ Sole(up[l]) /\ Apart(Range(down[l]), Range(up[l]))
        /\ Apart(Range(down[l]), {f}) /\ Apart(Range(up[l]), {f})
    BY <1>1, Zenon DEF Exchanging, Pipe, Held
  <2>4. Held(l)' = {}
    BY <1>1, Zenon DEF Held
  <2>5. Range(up'[l]) \subseteq Range(up[l]) \cup {a} /\ Sole(up'[l])
    <3>1. up[l] \in Seq(AckFrames) /\ up \in [Links -> Seq(AckFrames)]
      BY Zenon DEF Types, WireTypes
    <3>2. CASE l \in stopping
      BY <2>3, <3>2, Zenon DEF sendAck
    <3>3. CASE l \notin stopping
      <4>1. up'[l] = Append(up[l], a)
        BY <3>1, <3>3, Zenon DEF sendAck, a
      <4>2. \A y \in Range(up[l]) : Carries(y) /\ Carries(a) => y.id # a.id
        BY <2>1, <2>3, ZenonT(60) DEF Apart
      <4>3. Grows(up'[l], up[l], a) /\ Sole(up'[l])
        BY <2>1, <2>3, <3>1, <4>1, <4>2, Sent, ZenonT(60)
      <4> QED BY <4>3, ZenonT(60) DEF Grows
    <3> QED BY <3>2, <3>3, Zenon
  <2>6. \A g \in Range(down[l]) \cup Range(up[l]) : Carries(g) => Matches(g)'
    <3> SUFFICES ASSUME NEW g \in Range(down[l]) \cup Range(up[l]), Carries(g) PROVE Matches(g)'
      BY Zenon
    <3>1. Matches(g) /\ g.id # f.id
      BY <2>3, ZenonT(60) DEF Apart
    <3>2. g.id \in PacketIds
      <4>1. \E o \in Open : o.id = g.id
        BY <3>1, ZenonT(60) DEF Matches
      <4> QED BY <4>1, ExchangeTypes, Zenon
    <3> QED BY <3>1, <3>2, MatchKept, ZenonT(60)
  <2> QED BY <1>1, <2>1, <2>2, <2>3, <2>4, <2>5, <2>6, ZenonT(60) DEF Pipe, Apart
<1> QED BY <1>2, <1>3, <1>4, <1>5, <1>6, ZenonT(60) DEF Exchanging

\* What the newest read loop holds, if the broker did not make it up, stands for
\* an open exchange.
LEMMA HeldMatches ==
  ASSUME Types, Exchanging, NEW l \in Links, l = nconn, rpc[l] \in {"handle", "handler", "record"},
         Carries(frame[l])
  PROVE  /\ frame[l].id \in PacketIds
         /\ \E e \in Open : e.id = frame[l].id /\ Fits(frame[l], e)
<1>1. Matches(frame[l])
  BY Zenon DEF Exchanging, Pipe, Held
<1>2. PICK e \in Open : e.id = frame[l].id /\ Fits(frame[l], e)
  BY <1>1, Zenon DEF Matches
<1> QED BY <1>2, ExchangeTypes, Zenon

\* The dedup record, then PUBREC; PUBACK for QoS 1.
LEMMA RecordKeeps ==
  ASSUME Types, InStep, Exchanging, NEW l \in Links, record(l)
  PROVE  Exchanging'
<1>1. /\ rpc[l] = "record" /\ rpc' = [rpc EXCEPT ![l] = "read"] /\ stopping' = stopping /\ frame' = frame
      /\ down' = down /\ nconn' = nconn /\ inflight' = inflight /\ queue' = queue
      /\ delivered' = delivered /\ interrupted' = interrupted /\ acked' = acked
  BY Zenon DEF record, Goto, broker, history
<1>2. l = nconn /\ frame[l] \in Frames /\ frame[l].type = "publish"
  BY <1>1, OnlyNewest, Zenon DEF Exchanging, Types, LoopTypes
<1>3. PICK f : f = frame[l]
  BY Zenon
<1>4. f.m \in Messages /\ delivered[f.m] > 0 /\ Carries(frame[l])
  BY <1>1, <1>2, <1>3, ZenonT(60) DEF Exchanging, Handlers, Carries
<1>5. f.id \in PacketIds /\ \E e \in Open : e.id = f.id /\ Fits(f, e)
  BY <1>1, <1>2, <1>3, <1>4, HeldMatches, ZenonT(60)
<1>6. PICK e \in Open : e.id = f.id /\ Fits(f, e)
  BY <1>5, ZenonT(60)
<1>7. e.stage = "sent" /\ e.m = f.m
  BY <1>2, <1>3, <1>6, Zenon DEF Fits
<1>8. store \in Stores
  BY ZenonT(60) DEF Exchanging, Counts
<1>9. CASE f.m \in Qos2
  <2>1. store' = Save(store, f.id, "inbound", None) /\ sendAck(l, "pubrec", frame[l].id)
    BY <1>3, <1>9, ZenonT(60) DEF record
  <2>2. store' \in Stores /\ \A id : Recorded(id)' <=> id = f.id \/ Recorded(id)
    BY <1>5, <1>8, <2>1, SaveRecords, ZenonT(60) DEF Recorded
  <2>3. Fits([type |-> "pubrec", id |-> f.id], e)'
    BY <1>1, <1>4, <1>7, <1>9, ZenonT(60) DEF Fits
  <2> QED BY <1>1, <1>3, <1>4, <1>5, <1>6, <1>7, <1>9, <2>1, <2>2, <2>3, Answered, ZenonT(60)
<1>10. CASE f.m \notin Qos2
  <2>1. store' = store /\ sendAck(l, "puback", frame[l].id)
    BY <1>3, <1>10, ZenonT(60) DEF record
  <2>2. Fits([type |-> "puback", id |-> f.id], e)'
    BY <1>1, <1>4, <1>7, <1>10, ZenonT(60) DEF Fits
  <2>3. ~Recorded(f.id)
    BY <1>5, <1>6, <1>7, <1>10, OneExchange, SMTT(60) DEF Exchanging, Records
  <2>4. \A id : Recorded(id)' <=> Recorded(id)
    BY <2>1, Zenon DEF Recorded
  <2> QED BY <1>1, <1>3, <1>4, <1>5, <1>6, <1>7, <1>8, <1>10, <2>1, <2>2, <2>3, <2>4, Answered, ZenonT(60)
<1> QED BY <1>9, <1>10, Zenon

\* PUBREL: the record goes, PUBCOMP.
LEMMA PubrelKeeps ==
  ASSUME Types, InStep, Exchanging, NEW l \in Links, handleInboundPubrel(l)
  PROVE  Exchanging'
<1>1. /\ rpc[l] = "handle" /\ frame[l].type = "pubrel"
      /\ rpc' = [rpc EXCEPT ![l] = "read"] /\ stopping' = stopping /\ frame' = frame
      /\ down' = down /\ nconn' = nconn /\ inflight' = inflight /\ queue' = queue
      /\ delivered' = delivered /\ interrupted' = interrupted /\ acked' = acked
  BY Zenon DEF handleInboundPubrel, Goto, broker, history
<1>2. l = nconn /\ Carries(frame[l])
  BY <1>1, OnlyNewest, Zenon DEF Exchanging, Carries
<1>3. PICK f : f = frame[l]
  BY Zenon
<1>5. f.id \in PacketIds /\ \E e \in Open : e.id = f.id /\ Fits(f, e)
  BY <1>1, <1>2, <1>3, HeldMatches, Zenon
<1>6. PICK e \in Open : e.id = f.id /\ Fits(f, e)
  BY <1>5, Zenon
<1>7. e.stage = "rel"
  BY <1>1, <1>3, <1>6, Zenon DEF Fits
<1>8. store \in Stores
  BY Zenon DEF Exchanging, Counts
<1>9. store' \in Stores /\ \A id : Recorded(id)' <=> id # f.id /\ Recorded(id)
  <2>1. CASE Recorded(f.id)
    <3>1. store' = Delete(store, f.id, "inbound")
      BY <1>3, <2>1, Zenon DEF handleInboundPubrel, Recorded
    <3> QED BY <1>8, <3>1, DeleteForgets, ZenonT(60) DEF Recorded
  <2>2. CASE ~Recorded(f.id)
    <3>1. store' = store
      BY <1>3, <2>2, ZenonT(60) DEF handleInboundPubrel, Recorded
    <3> QED BY <1>8, <2>2, <3>1, ZenonT(60) DEF Recorded
  <2> QED BY <2>1, <2>2, Zenon
<1>10. PICK type \in {"pubcomp", "pubcomp-0x92"} : sendAck(l, type, frame[l].id)
  BY Zenon DEF handleInboundPubrel
<1>11. Fits([type |-> type, id |-> f.id], e)'
  BY <1>6, <1>7, <1>9, ZenonT(60) DEF Fits
<1> QED BY <1>1, <1>2, <1>3, <1>5, <1>6, <1>7, <1>9, <1>10, <1>11, Answered, ZenonT(60)

\* A PUBLISH reaches its handler: the first time, or again after an interruption.
LEMMA Dispatched ==
  ASSUME Types, InStep, Exchanging, NEW l \in Links, rpc[l] = "handle", frame[l].type = "publish",
         NEW f, f = frame[l], f.m \in Messages, ~Duplicate(f),
         rpc' = [rpc EXCEPT ![l] = "handler"], delivered' = [delivered EXCEPT ![f.m] = @ + 1],
         interrupted' = interrupted, acked' = acked, store' = store, stopping' = stopping, frame' = frame,
         nconn' = nconn, down' = down, up' = up, inflight' = inflight, queue' = queue
  PROVE  Exchanging'
<1>1. /\ rpc'[l] = "handler" /\ \A k \in Links \ {l} : rpc'[k] = rpc[k]
      /\ l = nconn /\ Carries(frame[l])
  BY OnlyNewest, Zenon DEF Types, LoopTypes, Exchanging, Carries
<1>2. delivered \in [Messages -> Nat] /\ store \in Stores
  BY Zenon DEF Exchanging, Counts
<1>3. /\ delivered' \in [Messages -> Nat] /\ delivered'[f.m] > 0 /\ (delivered'[f.m] > 1 => delivered[f.m] > 0)
      /\ \A m \in Messages \ {f.m} : delivered'[m] = delivered[m]
      /\ \A m \in Messages : delivered[m] > 0 => delivered'[m] > 0
  <2>1. OneMore(delivered, delivered', f.m)
    BY <1>2, Counted, Zenon
  <2> QED BY <2>1, ZenonT(60) DEF OneMore
<1>4. PICK e \in Open : e.id = f.id /\ Fits(f, e)
  BY <1>1, HeldMatches, ZenonT(60)
<1>5. e.m = f.m /\ e.stage = "sent"
  BY <1>4, Zenon DEF Fits
<1>6. \A id : Recorded(id)' <=> Recorded(id)
  BY Zenon DEF Recorded
<1>7. \A o \in Open : o.m \in Messages /\ o.id \in PacketIds
  BY ExchangeTypes, Zenon
<1>8. Counts' /\ OldLinks'
  BY <1>1, <1>3, ZenonT(60) DEF Exchanging, Counts, OldLinks, Links
<1>9. Books'
  <2>1. \A m \in Range(queue) : m \in Messages /\ m # f.m
    <3>1. Range(queue) \subseteq Messages
      BY RangeType, Zenon DEF Types, WireTypes
    <3> QED BY <1>4, <1>5, <3>1, ZenonT(60) DEF Exchanging, Books
  <2>2. \A m \in Range(queue) : delivered'[m] = 0
    BY <1>3, <2>1, ZenonT(60) DEF Exchanging, Books
  <2> QED BY <1>3, <1>7, <2>2, ZenonT(60) DEF Exchanging, Books, Open
<1>10. Records'
  <2>1. \A o \in Open : delivered[o.m] > 0 => delivered'[o.m] > 0
    BY <1>3, <1>7, ZenonT(60)
  <2> QED BY <1>6, <2>1, Zenon DEF Exchanging, Records, Open
<1>11. Handlers'
  <2>1. delivered'[f.m] > 0
    BY <1>3, ZenonT(60)
  <2>2. \A k \in Links : rpc'[k] \in {"handler", "record"} =>
                          frame[k].m \in Messages /\ delivered'[frame[k].m] > 0
    BY <1>1, <1>3, <2>1, ZenonT(60) DEF Exchanging, Handlers
  <2>3. \A k \in Links : rpc'[k] \in {"handle", "handler"} => rpc[k] \in {"handle", "handler"}
    BY <1>1, ZenonT(60)
  <2> QED BY <2>2, <2>3, Zenon DEF Exchanging, Handlers
<1>12. Pipe'
  <2>1. Held(l)' = Held(l)
    BY <1>1, ZenonT(60) DEF Held
  <2>2. \A g : Matches(g) => Matches(g)'
    BY <1>3, <1>6, MatchKept, Zenon
  <2> QED BY <1>1, <2>1, <2>2, ZenonT(60) DEF Exchanging, Pipe
<1>13. Once'
  <2> SUFFICES ASSUME NEW o \in Open, o.m \in Qos2, o.stage = "sent", delivered'[o.m] > 0, o.m \notin interrupted,
                      ~Recorded(o.id), o.id # f.id
               PROVE  FALSE
    BY <1>1, <1>6, Zenon DEF Once, Open
  <2>1. o.m # f.m
    BY <1>4, <1>5, OneExchange, ZenonT(60) DEF Exchanging
  <2>2. delivered[o.m] > 0
    BY <1>3, <1>7, <2>1, ZenonT(60)
  <2> QED BY <1>1, <2>2, ZenonT(60) DEF Exchanging, Once
<1>14. Promises'
  <2>1. f.m \in Qos2 /\ delivered[f.m] > 0 => f.m \in interrupted
    <3> SUFFICES ASSUME f.m \in Qos2, delivered[f.m] > 0, f.m \notin interrupted PROVE FALSE
      BY ZenonT(60)
    <3>1. Recorded(f.id)
      BY <1>1, <1>4, <1>5, ZenonT(60) DEF Exchanging, Once
    <3> QED BY <3>1, Zenon DEF Duplicate, Recorded
  <2>2. ExactlyOnceReceived'
    <3> SUFFICES ASSUME NEW m \in Qos2, delivered'[m] > 1 PROVE m \in interrupted
      BY Zenon DEF ExactlyOnceReceived
    <3>1. m \in Messages
      BY ReceiverAssumption, ZenonT(60)
    <3> QED BY <1>3, <2>1, <3>1, ZenonT(60) DEF Exchanging, Promises, ExactlyOnceReceived
  <2>3. AcknowledgedMeansDelivered'
    BY <1>3, Zenon DEF Exchanging, Promises, Counts, AcknowledgedMeansDelivered
  <2> QED BY <2>2, <2>3, ZenonT(60) DEF Promises
<1> QED BY <1>8, <1>9, <1>10, <1>11, <1>12, <1>13, <1>14, ZenonT(60) DEF Exchanging

\* handlePublish rejects, acknowledges a duplicate again, or dispatches.
LEMMA PublishKeeps ==
  ASSUME Types, InStep, Exchanging, NEW l \in Links, handlePublish(l)
  PROVE  Exchanging'
<1>1. rpc[l] = "handle" /\ frame[l].type = "publish"
  BY Zenon DEF handlePublish
<1>2. l = nconn
  BY <1>1, OnlyNewest, ZenonT(60) DEF Exchanging
<1>3. PICK f : f = frame[l]
  BY Zenon
<1>4. CASE protocolError(l)
  BY <1>1, <1>4, LoopEnds, Zenon DEF protocolError, Goto, broker, history
<1>5. CASE ~protocolError(l)
  <2>1. f.m \in Messages /\ Carries(frame[l])
    BY <1>1, <1>3, <1>5, ResolvedAsIntended, ZenonT(60) DEF handlePublish, Carries
  <2>2. CASE Duplicate(f)
    <3>1. /\ sendAck(l, "pubrec", frame[l].id) /\ rpc' = [rpc EXCEPT ![l] = "read"]
          /\ store' = store /\ stopping' = stopping /\ frame' = frame
          /\ down' = down /\ nconn' = nconn /\ inflight' = inflight /\ queue' = queue
          /\ delivered' = delivered /\ interrupted' = interrupted /\ acked' = acked
      BY <1>3, <1>5, <2>2, Zenon DEF handlePublish, Goto, broker, history
    <3>2. f.id \in PacketIds /\ \E e \in Open : e.id = f.id /\ Fits(f, e)
      BY <1>1, <1>2, <1>3, <2>1, HeldMatches, ZenonT(60)
    <3>3. PICK e \in Open : e.id = f.id /\ Fits(f, e)
      BY <3>2, Zenon
    <3>4. e.m = f.m /\ e.stage = "sent"
      BY <1>1, <1>3, <3>3, ZenonT(60) DEF Fits
    <3>5. f.m \in Qos2 /\ Recorded(f.id) /\ store \in Stores
      BY <2>2, ZenonT(60) DEF Duplicate, Recorded, Exchanging, Counts
    <3>6. delivered[e.m] > 0
      BY <3>2, <3>3, <3>5, OneExchange, ZenonT(60) DEF Exchanging, Records
    <3>7. \A id : Recorded(id)' <=> Recorded(id)
      BY <3>1, ZenonT(60) DEF Recorded
    <3>8. Fits([type |-> "pubrec", id |-> f.id], e)'
      BY <3>1, <3>4, <3>5, <3>6, ZenonT(60) DEF Fits
    <3> QED BY <1>1, <1>3, <2>1, <3>1, <3>2, <3>3, <3>4, <3>5, <3>6, <3>7, <3>8, Answered, ZenonT(60)
  <2>3. CASE ~Duplicate(f)
    <3>1. /\ rpc' = [rpc EXCEPT ![l] = "handler"] /\ delivered' = [delivered EXCEPT ![f.m] = @ + 1]
          /\ interrupted' = interrupted /\ acked' = acked /\ store' = store /\ stopping' = stopping
          /\ frame' = frame /\ nconn' = nconn /\ down' = down /\ up' = up
          /\ inflight' = inflight /\ queue' = queue
      BY <1>3, <1>5, <2>3, ZenonT(60) DEF handlePublish, Goto, broker, dispatch
    <3> QED BY <1>1, <1>3, <2>1, <2>3, <3>1, Dispatched, ZenonT(60)
  <2> QED BY <2>2, <2>3, ZenonT(60)
<1> QED BY <1>4, <1>5, Zenon

\* The handler returns on a link that is alive.
LEMMA HandlerKeeps ==
  ASSUME Types, InStep, Exchanging, NEW l \in Links, handlerReturns(l)
  PROVE  Exchanging'
<1>1. /\ rpc[l] = "handler" /\ stopping' = stopping /\ frame' = frame /\ up' = up
      /\ down' = down /\ nconn' = nconn /\ store' = store /\ inflight' = inflight /\ queue' = queue
      /\ delivered' = delivered /\ interrupted' = interrupted /\ acked' = acked
  BY ZenonT(60) DEF handlerReturns, broker, history
<1>2. CASE l \in stopping
  <2>1. rpc' = [rpc EXCEPT ![l] = "exit"]
    BY <1>2, ZenonT(60) DEF handlerReturns, Goto
  <2> QED BY <1>1, <1>2, <2>1, LoopEnds, ZenonT(60)
<1>3. CASE l \notin stopping
  <2>1. /\ rpc'[l] = "record" /\ \A k \in Links \ {l} : rpc'[k] = rpc[k]
    BY <1>3, Zenon DEF handlerReturns, Goto, Types, LoopTypes
  <2>2. l = nconn
    BY <1>1, <1>3, OnlyNewestLives, ZenonT(60) DEF Exchanging
  <2>3. Counts' /\ Books' /\ Records' /\ Promises'
    BY <1>1, Zenon DEF Exchanging, Counts, Books, Records, Promises, ExactlyOnceReceived, AcknowledgedMeansDelivered,
                Open, Recorded
  <2>4. OldLinks'
    BY <1>1, <2>1, <2>2, ZenonT(60) DEF Exchanging, OldLinks, Links, Types, LoopTypes
  <2>5. Handlers'
    BY <1>1, <2>1, Zenon DEF Exchanging, Handlers
  <2>6. Pipe'
    <3>1. Held(l)' = Held(l)
      BY <1>1, <2>1, Zenon DEF Held
    <3>2. \A g : Matches(g) => Matches(g)'
      BY <1>1, ZenonT(60) DEF Matches, Fits, Open, Recorded
    <3> QED BY <1>1, <2>2, <3>1, <3>2, ZenonT(60) DEF Exchanging, Pipe
  <2>7. Once'
    BY <1>1, <2>1, <2>2, Zenon DEF Exchanging, Once, Open, Recorded
  <2> QED BY <2>3, <2>4, <2>5, <2>6, <2>7, Zenon DEF Exchanging
<1> QED BY <1>2, <1>3, Zenon

\* The link is torn down around its read loop.
LEMMA TeardownKeeps ==
  ASSUME Types, InStep, Exchanging, NEW l \in Links, teardownLink(l)
  PROVE  Exchanging'
<1>1. /\ l = nconn /\ stopping' = stopping \cup {l}
      /\ interrupted \subseteq interrupted'
      /\ rpc[l] \in {"handle", "handler"} /\ frame[l].type = "publish" => frame[l].m \in interrupted'
      /\ store' = store /\ rpc' = rpc /\ frame' = frame /\ up' = up /\ acked' = acked
      /\ down' = down /\ nconn' = nconn /\ inflight' = inflight /\ queue' = queue /\ delivered' = delivered
  BY Zenon DEF teardownLink, broker
<1>2. Counts' /\ Books' /\ Records' /\ AcknowledgedMeansDelivered'
  BY <1>1, Zenon DEF Exchanging, Counts, Books, Records, Promises, AcknowledgedMeansDelivered, Open, Recorded
<1>3. ExactlyOnceReceived'
  BY <1>1, ZenonT(60) DEF Exchanging, Promises, ExactlyOnceReceived
<1>4. OldLinks'
  BY <1>1, Zenon DEF Exchanging, OldLinks, Links, Types, LoopTypes
<1>5. Handlers'
  BY <1>1, ZenonT(60) DEF Exchanging, Handlers
<1>6. Pipe'
  <2>1. (\A k \in Links : Held(k)' = Held(k)) /\ \A g : Matches(g) => Matches(g)'
    BY <1>1, ZenonT(60) DEF Held, Matches, Fits, Open, Recorded
  <2> QED BY <1>1, <2>1, Zenon DEF Exchanging, Pipe
<1>7. Once'
  BY <1>1, Zenon DEF Exchanging, Once, Open, Recorded
<1> QED BY <1>2, <1>3, <1>4, <1>5, <1>6, <1>7, ZenonT(60) DEF Exchanging, Promises

\* A first transmission is one exchange under a free identifier and one frame.
LEMMA FirstSent ==
  ASSUME BrokerSends
  PROVE  \E id, e, f :
           /\ id \in PacketIds \ {inflight[i].id : i \in DOMAIN inflight}
           /\ e = [m |-> Head(queue), id |-> id, stage |-> "sent"]
           /\ \E t, a : f = PublishFrame(e, t, a)
           /\ inflight' = Append(inflight, e) /\ down' = [down EXCEPT ![nconn] = Append(@, f)]
<1>1. PICK id \in PacketIds \ {inflight[i].id : i \in DOMAIN inflight} :
        LET e == [m |-> Head(queue), id |-> id, stage |-> "sent"]
            t == TopicOf[e.m]
        IN  /\ inflight' = Append(inflight, e)
            /\ \/ down' = [down EXCEPT ![nconn] = Append(@, PublishFrame(e, t, None))]
               \/ \E a \in Aliases : down' = [down EXCEPT ![nconn] = Append(@, PublishFrame(e, t, a))]
               \/ \E a \in Aliases : down' = [down EXCEPT ![nconn] = Append(@, PublishFrame(e, None, a))]
  BY ZenonT(60) DEF BrokerSends
<1> DEFINE e == [m |-> Head(queue), id |-> id, stage |-> "sent"]
<1>2. inflight' = Append(inflight, e)
  BY <1>1, Zenon
<1>3. \E t, a : down' = [down EXCEPT ![nconn] = Append(@, PublishFrame(e, t, a))]
  BY <1>1, ZenonT(60)
<1>4. PICK f : (\E t, a : f = PublishFrame(e, t, a)) /\ down' = [down EXCEPT ![nconn] = Append(@, f)]
  BY <1>3, Zenon
<1> QED BY <1>2, <1>4, Zenon

\* A first transmission opens an exchange under a free identifier.
LEMMA SendsKeeps ==
  ASSUME Types, InStep, Exchanging, BrokerSends
  PROVE  Exchanging'
<1> DEFINE l == nconn
<1>1. /\ l \in Links /\ queue # << >> /\ queue \in Seq(Messages) /\ inflight \in Seq(Exchanges)
      /\ queue' = Tail(queue) /\ store' = store /\ stopping' = stopping /\ rpc' = rpc /\ frame' = frame
      /\ nconn' = nconn /\ up' = up /\ delivered' = delivered /\ interrupted' = interrupted /\ acked' = acked
  BY LiveLink, ZenonT(60) DEF BrokerSends, client, history, Types, WireTypes
<1>2. PICK id, e, f :
        /\ id \in PacketIds \ {inflight[i].id : i \in DOMAIN inflight}
        /\ e = [m |-> Head(queue), id |-> id, stage |-> "sent"]
        /\ \E t, a : f = PublishFrame(e, t, a)
        /\ inflight' = Append(inflight, e) /\ down' = [down EXCEPT ![l] = Append(@, f)]
  BY FirstSent, Zenon
<1>4. /\ Range(Tail(queue)) \subseteq Range(queue) /\ Head(queue) \in Range(queue) /\ Head(queue) \in Messages
      /\ Tail(queue) \in Seq(Messages)
  BY <1>1, RangeTail, Zenon
<1>5. e \in Exchanges /\ e.m = Head(queue) /\ e.id = id /\ e.stage = "sent"
  BY <1>2, <1>4, Zenon DEF Exchanges
<1>6. f.type = "publish" /\ f.m = e.m /\ f.id = id /\ Carries(f)
  <2>1. f.type = "publish" /\ f.m = e.m /\ f.id = e.id
    BY <1>2, SMTT(60) DEF PublishFrame
  <2> QED BY <1>4, <1>5, <2>1, ZenonT(60) DEF Carries
<1>7. inflight' = Append(inflight, e) /\ down' = [down EXCEPT ![l] = Append(@, f)]
  BY <1>2, Zenon
<1>8. Open' = Open \cup {e} /\ \A o \in Open : o.id # id
  <2>1. Open' = Open \cup {e}
    <3>1. Grows(inflight', inflight, e)
      BY <1>1, <1>5, <1>7, RangeAppend, ZenonT(60)
    <3> QED BY <3>1, Zenon DEF Grows, Open
  <2> QED BY <1>2, <2>1, Zenon DEF Open, Range
<1>9. ~(delivered[e.m] > 0) /\ \A o \in Open : o.m # e.m
  <2>1. delivered[e.m] = 0 /\ \A o \in Open : o.m # e.m
    BY <1>4, <1>5, Zenon DEF Exchanging, Books
  <2> QED BY <2>1, NotPositive, Zenon
<1>10. Counts' /\ OldLinks' /\ Handlers' /\ Promises'
  BY <1>1, Zenon DEF Exchanging, Counts, OldLinks, Handlers, Promises, ExactlyOnceReceived, AcknowledgedMeansDelivered
<1>11. Records'
  BY <1>1, <1>8, Zenon DEF Exchanging, Records, Recorded
<1>12. Once'
  BY <1>1, <1>8, <1>9, ZenonT(60) DEF Exchanging, Once, Recorded
<1>13. Books'
  <2>1. Separate(inflight')
    BY <1>1, <1>5, <1>7, <1>8, <1>9, SeparateAppend, ZenonT(60) DEF Exchanging, Books, Open
  <2>2. /\ \A i, j \in DOMAIN queue' : queue'[i] = queue'[j] => i = j
        /\ \A m \in Range(queue') : m \in Range(queue) /\ m # e.m
    BY <1>1, <1>5, QueueTail, ZenonT(60) DEF Exchanging, Books
  <2> QED BY <1>1, <1>5, <1>8, <2>1, <2>2, ZenonT(60) DEF Exchanging, Books
<1>14. Pipe'
  <2>1. /\ \A g \in Range(down[l]) \cup Range(up[l]) \cup Held(l) : Carries(g) => Matches(g)
        /\ Sole(down[l]) /\ Sole(up[l]) /\ Apart(Range(down[l]), Range(up[l]))
        /\ Apart(Range(down[l]), Held(l)) /\ Apart(Range(up[l]), Held(l))
    BY <1>1, ZenonT(60) DEF Exchanging, Pipe
  <2>2. \A g \in Range(down[l]) \cup Range(up[l]) \cup Held(l) : Carries(g) => g.id # f.id
    BY <1>6, <1>8, <2>1, ZenonT(60) DEF Matches
  <2>3. \A g : Matches(g) => Matches(g)'
    BY <1>1, <1>8, ZenonT(60) DEF Matches, Fits, Recorded
  <2>4. Matches(f)'
    BY <1>5, <1>6, <1>8, ZenonT(60) DEF Matches, Fits
  <2>5. down'[l] = Append(down[l], f) /\ down[l] \in Seq(Frames) /\ f \in Frames
    <3>1. down \in [Links -> Seq(Frames)] /\ down' \in [Links -> Seq(Frames)]
      BY BrokerSendsTypes, Zenon DEF Types, WireTypes
    <3>2. down'[l] = Append(down[l], f) /\ down[l] \in Seq(Frames) /\ down'[l] \in Seq(Frames)
      BY <1>1, <1>7, <3>1, ZenonT(60)
    <3> QED BY <3>2, Appended, ZenonT(60)
  <2>6. Range(down'[l]) = Range(down[l]) \cup {f} /\ Sole(down'[l])
    <3>1. Grows(down'[l], down[l], f) /\ Sole(down'[l])
      BY <2>1, <2>2, <2>5, Sent, ZenonT(60)
    <3> QED BY <3>1, Zenon DEF Grows
  <2>7. Held(l)' = Held(l) /\ up'[l] = up[l]
    BY <1>1, Zenon DEF Held
  <2> HIDE DEF l
  <2> QED BY <1>1, <2>1, <2>2, <2>3, <2>4, <2>6, <2>7, ZenonT(60) DEF Pipe, Apart, l
<1> QED BY <1>10, <1>11, <1>12, <1>13, <1>14, ZenonT(60) DEF Exchanging

\* A frame by mistake stands for no exchange.
LEMMA ErrsKeeps ==
  ASSUME Types, InStep, Exchanging, BrokerErrs
  PROVE  Exchanging'
<1>1. /\ nconn \in Links /\ store' = store /\ stopping' = stopping /\ rpc' = rpc /\ frame' = frame
      /\ nconn' = nconn /\ up' = up /\ delivered' = delivered /\ interrupted' = interrupted /\ acked' = acked
      /\ inflight' = inflight /\ queue' = queue
  BY LiveLink, Zenon DEF BrokerErrs, client, broker, history
<1>2. PICK f \in Frames : down' = [down EXCEPT ![nconn] = Append(@, f)] /\ ~Carries(f)
  <2> DEFINE e == [m |-> None, id |-> 1]
  <2>1. PICK f \in {[type |-> "bad"]} \cup
                   {PublishFrame(e, None, a) : a \in {b \in Aliases : balias[b] = None}} :
          down' = [down EXCEPT ![nconn] = Append(@, f)]
    BY Zenon DEF BrokerErrs
  <2>2. ~Carries(f)
    <3>1. None \notin Messages
      BY ReceiverAssumption, Zenon
    <3> QED BY <2>1, <3>1, SMTT(60) DEF Carries, PublishFrame
  <2>3. f \in Frames
    <3>1. down \in [Links -> Seq(Frames)] /\ down' \in [Links -> Seq(Frames)]
      BY BrokerErrsTypes, Zenon DEF Types, WireTypes
    <3>2. down'[nconn] = Append(down[nconn], f) /\ down[nconn] \in Seq(Frames) /\ down'[nconn] \in Seq(Frames)
      BY <1>1, <2>1, <3>1, ZenonT(60)
    <3> QED BY <3>2, Appended, Zenon
  <2> QED BY <2>1, <2>2, <2>3, ZenonT(60)
<1>3. Counts' /\ Books' /\ OldLinks' /\ Records' /\ Handlers' /\ Promises'
  BY <1>1, Zenon DEF Exchanging, Counts, Books, OldLinks, Records, Handlers, Promises, ExactlyOnceReceived,
              AcknowledgedMeansDelivered, Open, Recorded
<1>4. Once'
  BY <1>1, Zenon DEF Exchanging, Once, Open, Recorded
<1>5. Pipe'
  <2>1. down'[nconn] = Append(down[nconn], f) /\ down[nconn] \in Seq(Frames)
    BY <1>1, <1>2, Zenon DEF Types, WireTypes
  <2>2. Sole(down[nconn])
    BY <1>1, Zenon DEF Exchanging, Pipe
  <2>3. Range(down'[nconn]) = Range(down[nconn]) \cup {f} /\ Sole(down'[nconn])
    <3>1. Grows(down'[nconn], down[nconn], f) /\ Sole(down'[nconn])
      BY <1>2, <2>1, <2>2, Sent, ZenonT(60)
    <3> QED BY <3>1, Zenon DEF Grows
  <2>4. Held(nconn)' = Held(nconn) /\ \A g : Matches(g) => Matches(g)'
    BY <1>1, ZenonT(60) DEF Held, Matches, Fits, Open, Recorded
  <2> QED BY <1>1, <1>2, <2>3, <2>4, ZenonT(60) DEF Exchanging, Pipe, Apart
<1> QED BY <1>3, <1>4, <1>5, ZenonT(60) DEF Exchanging

\* What the broker has open after an acknowledgement, and what it sends.
MovesOn(a, e, r) ==
  /\ acked' = acked \cup {e.m}
  /\ a.type = "pubrec" => /\ Open' = {o \in Open : o.id # a.id} \cup {r}
                          /\ down' = [down EXCEPT ![nconn] = Append(@, PubrelFrame(a))]
  /\ a.type # "pubrec" => Open' = {o \in Open : o.id # a.id} /\ down' = down
  /\ Separate(inflight')

\* BrokerReceives does that to the exchange of the oldest acknowledgement.
LEMMA AckTaken ==
  ASSUME Types, Exchanging, BrokerReceives, NEW a, a = Head(up[nconn]), NEW e \in Open, e.id = a.id,
         NEW r, r = [e EXCEPT !.stage = "rel"]
  PROVE  MovesOn(a, e, r)
<1>1. inflight \in Seq(Exchanges)
  BY Zenon DEF Types, WireTypes
<1>2. PICK n \in DOMAIN inflight : inflight[n] = e
  BY Zenon DEF Open, Range
<1>3. Separate(inflight)
  BY Zenon DEF Exchanging, Books
<1>4. \A i \in DOMAIN inflight : inflight[i].id = a.id <=> i = n
  BY <1>2, <1>3, Zenon DEF Separate
<1>5. acked' = acked \cup {e.m}
  <2>1. {j \in DOMAIN inflight : inflight[j].id = a.id} = {n}
    BY <1>4, Zenon
  <2>2. acked' = acked \cup {inflight[i].m : i \in {j \in DOMAIN inflight : inflight[j].id = a.id}}
    BY Zenon DEF BrokerReceives
  <2> QED BY <1>2, <2>1, <2>2, Zenon
<1>6. CASE a.type = "pubrec"
  <2> DEFINE released == [i \in DOMAIN inflight |->
                            IF inflight[i].id = a.id THEN [inflight[i] EXCEPT !.stage = "rel"] ELSE inflight[i]]
  <2>1. inflight' = released /\ down' = [down EXCEPT ![nconn] = Append(@, PubrelFrame(a))]
    BY <1>6, Zenon DEF BrokerReceives
  <2>2. /\ DOMAIN released = DOMAIN inflight /\ released[n] = [e EXCEPT !.stage = "rel"]
        /\ \A i \in DOMAIN inflight : i # n => released[i] = inflight[i]
    BY <1>2, <1>4, ZenonT(60)
  <2> HIDE DEF released
  <2>3. /\ [e EXCEPT !.stage = "rel"].id = e.id /\ [e EXCEPT !.stage = "rel"].m = e.m
    <3>1. e \in Exchanges
      BY ExchangeTypes, ZenonT(60)
    <3> QED BY <3>1, Zenon DEF Exchanges
  <2>4. \A i \in DOMAIN inflight : released[i].id = inflight[i].id /\ released[i].m = inflight[i].m
    BY <1>2, <2>2, <2>3, ZenonT(60)
  <2>5. Open' = {o \in Open : o.id # a.id} \cup {r}
    BY <1>2, <1>4, <2>1, <2>2, SMTT(60) DEF Open, Range
  <2>6. Separate(inflight')
    <3>1. /\ DOMAIN inflight' = DOMAIN inflight
          /\ \A i \in DOMAIN inflight : inflight'[i].id = inflight[i].id /\ inflight'[i].m = inflight[i].m
      BY <2>1, <2>2, <2>4, ZenonT(60)
    <3> QED BY <1>3, <3>1, ZenonT(60) DEF Separate
  <2> QED BY <1>5, <1>6, <2>1, <2>5, <2>6, ZenonT(60) DEF MovesOn
<1>7. CASE a.type # "pubrec"
  <2>1. inflight' = Without(inflight, a.id) /\ down' = down
    BY <1>7, Zenon DEF BrokerReceives
  <2>2. Drops(inflight', inflight, a.id) /\ Separate(inflight')
    BY <1>1, <1>3, <2>1, WithoutRange, ZenonT(60)
  <2>3. Open' = {o \in Open : o.id # a.id}
    BY <2>2, Zenon DEF Drops, Open
  <2> QED BY <1>5, <1>7, <2>1, <2>2, <2>3, Zenon DEF MovesOn
<1> QED BY <1>6, <1>7, Zenon

\* An acknowledgement moves its exchange on or ends it.
LEMMA ReceivesKeeps ==
  ASSUME Types, InStep, Exchanging, BrokerReceives
  PROVE  Exchanging'
<1> DEFINE l == nconn
<1>1. /\ l \in Links /\ up[l] # << >> /\ up[l] \in Seq(AckFrames) /\ up' = [up EXCEPT ![l] = Tail(@)]
      /\ up \in [Links -> Seq(AckFrames)]
      /\ queue' = queue /\ store' = store /\ stopping' = stopping /\ rpc' = rpc /\ frame' = frame
      /\ nconn' = nconn /\ delivered' = delivered /\ interrupted' = interrupted
  BY LiveLink, Zenon DEF BrokerReceives, client, Types, WireTypes
<1>2. /\ \A g \in Range(down[l]) \cup Range(up[l]) \cup Held(l) : Carries(g) => Matches(g)
      /\ Sole(down[l]) /\ Sole(up[l]) /\ Apart(Range(down[l]), Range(up[l]))
      /\ Apart(Range(down[l]), Held(l)) /\ Apart(Range(up[l]), Held(l))
  BY <1>1, Zenon DEF Exchanging, Pipe
<1>3. PICK a \in AckFrames : a = Head(up[l])
  BY <1>1, Dequeue, ZenonT(60)
<1>4. /\ a \in Range(up[l]) /\ Range(up'[l]) \subseteq Range(up[l]) /\ Sole(up'[l])
      /\ Apart(Range(up'[l]), {a}) /\ Carries(a) /\ a.type \in {"puback", "pubrec", "pubcomp", "pubcomp-0x92"}
  <2>1. up'[l] = Tail(up[l])
    BY <1>1, Zenon
  <2>2. Carries(a) /\ a.type \in {"puback", "pubrec", "pubcomp", "pubcomp-0x92"}
    BY <1>3, Zenon DEF Carries, AckFrames
  <2> QED BY <1>1, <1>2, <1>3, <2>1, <2>2, Taken, ZenonT(60)
<1>5. PICK e \in Open : e.id = a.id /\ Fits(a, e)
  BY <1>2, <1>4, ZenonT(60) DEF Matches
<1>6. e \in Exchanges /\ e.m \in Messages /\ delivered[e.m] > 0 /\ delivered[e.m] \in Nat
  <2>1. e \in Exchanges /\ e.m \in Messages
    BY ExchangeTypes, ZenonT(60)
  <2>2. delivered[e.m] > 0
    BY <1>4, <1>5, Zenon DEF Fits, Exchanging, Books
  <2> QED BY <2>1, <2>2, Zenon DEF Exchanging, Counts
<1>7. PICK r : r = [e EXCEPT !.stage = "rel"]
  BY ZenonT(60)
<1>8. r.id = e.id /\ r.m = e.m /\ r.stage = "rel"
  BY <1>6, <1>7, Zenon DEF Exchanges
<1>9. /\ acked' = acked \cup {e.m}
      /\ a.type = "pubrec" => /\ Open' = {o \in Open : o.id # a.id} \cup {r}
                              /\ down' = [down EXCEPT ![l] = Append(@, PubrelFrame(a))]
      /\ a.type # "pubrec" => Open' = {o \in Open : o.id # a.id} /\ down' = down
      /\ Separate(inflight')
  <2>1. MovesOn(a, e, r)
    BY <1>3, <1>5, <1>7, AckTaken, ZenonT(60)
  <2> QED BY <2>1, ZenonT(60) DEF MovesOn
<1>10. Open' \subseteq {o \in Open : o.id # a.id} \cup {r} /\ {o \in Open : o.id # a.id} \subseteq Open'
  BY <1>9, ZenonT(60)
<1>11. r \in Open' => a.type = "pubrec" \/ r \in Open
  BY <1>9, Zenon
<1>12. Counts' /\ OldLinks' /\ Handlers' /\ Promises'
  <2>1. OldLinks'
    BY <1>1, Zenon DEF Exchanging, OldLinks, Links
  <2> QED BY <1>1, <1>6, <1>9, <2>1, ZenonT(60) DEF Exchanging, Counts, Handlers, Promises, ExactlyOnceReceived,
                                        AcknowledgedMeansDelivered
<1>13. Books'
  <2>1. \A o \in Open' : \E p \in Open : p.m = o.m
    BY <1>5, <1>8, <1>10, ZenonT(60)
  <2>2. \A o \in Open' : o.stage = "rel" => o.m \in Qos2 /\ delivered[o.m] > 0
    BY <1>5, <1>6, <1>8, <1>10, <1>11, ZenonT(60) DEF Exchanging, Books, Fits
  <2>3. \A m \in Range(queue) : delivered[m] = 0 /\ \A o \in Open' : o.m # m
    BY <2>1, ZenonT(60) DEF Exchanging, Books
  <2>4. \A i, j \in DOMAIN queue : queue[i] = queue[j] => i = j
    BY Zenon DEF Exchanging, Books
  <2> QED BY <1>1, <1>9, <2>2, <2>3, <2>4, ZenonT(60) DEF Books
<1>14. Records'
  <2> SUFFICES ASSUME NEW id \in PacketIds, Recorded(id)
               PROVE  \E o \in Open' : o.id = id /\ o.m \in Qos2 /\ delivered[o.m] > 0
    BY <1>1, Zenon DEF Records, Recorded
  <2>1. PICK o \in Open : o.id = id /\ o.m \in Qos2 /\ delivered[o.m] > 0
    BY ZenonT(60) DEF Exchanging, Records
  <2>2. CASE o.id # a.id
    BY <1>10, <2>1, <2>2, ZenonT(60)
  <2>3. CASE o.id = a.id
    <3>1. o = e
      BY <1>5, <2>3, OneExchange, ZenonT(60) DEF Exchanging
    <3>2. a.type = "pubrec"
      BY <1>4, <1>5, <2>1, <3>1, ZenonT(60) DEF Fits
    <3> QED BY <1>8, <1>9, <2>1, <3>1, <3>2, ZenonT(60)
  <2> QED BY <2>2, <2>3, Zenon
<1>15. Once'
  <2>1. \A o \in Open' : o.stage = "sent" => o \in Open
    BY <1>8, <1>10, ZenonT(60)
  <2> QED BY <1>1, <2>1, Zenon DEF Exchanging, Once, Recorded
<1>16. \A g : Carries(g) /\ Matches(g) /\ g.id # a.id => Matches(g)'
  BY <1>1, <1>10, ZenonT(60) DEF Matches, Fits, Recorded
<1>17. /\ \A g \in Range(down[l]) \cup Range(up'[l]) \cup Held(l) : Carries(g) => Matches(g)' /\ g.id # a.id
  BY <1>2, <1>4, <1>16, ZenonT(60) DEF Apart
<1>18. Held(l)' = Held(l)
  BY <1>1, Zenon DEF Held
<1>19. Pipe'
  <2>1. CASE a.type = "pubrec"
    <3>1. PICK f : f = PubrelFrame(a)
      BY Zenon
    <3>2. f.type = "pubrel" /\ f.id = a.id /\ f \in Frames /\ Carries(f)
      BY <3>1, Zenon DEF PubrelFrame, Frames, AckFrames, Carries
    <3>3. down'[l] = Append(down[l], f) /\ down[l] \in Seq(Frames)
      BY <1>1, <1>9, <2>1, <3>1, ZenonT(60) DEF Types, WireTypes
    <3>4. Range(down'[l]) = Range(down[l]) \cup {f} /\ Sole(down'[l])
      <4>1. Grows(down'[l], down[l], f) /\ Sole(down'[l])
        BY <1>2, <1>17, <3>2, <3>3, Sent, ZenonT(60)
      <4> QED BY <4>1, Zenon DEF Grows
    <3>5. Matches(f)'
      BY <1>5, <1>8, <1>9, <2>1, <3>2, ZenonT(60) DEF Matches, Fits
    <3>6. \A g \in Range(down'[l]) \cup Range(up'[l]) \cup Held(l) : Carries(g) => Matches(g)'
      BY <1>17, <3>4, <3>5, ZenonT(60)
    <3>7. /\ Apart(Range(down'[l]), Range(up'[l]))
          /\ Apart(Range(down'[l]), Held(l)) /\ Apart(Range(up'[l]), Held(l))
      BY <1>2, <1>4, <1>17, <3>2, <3>4, ZenonT(60) DEF Apart
    <3> QED BY <1>1, <1>4, <1>18, <3>4, <3>6, <3>7, ZenonT(60) DEF Pipe
  <2>2. CASE a.type # "pubrec"
    <3>1. down'[l] = down[l]
      BY <1>9, <2>2, Zenon
    <3> HIDE DEF l
    <3> QED BY <1>1, <1>2, <1>4, <1>17, <1>18, <3>1, ZenonT(60) DEF Pipe, Apart, l
  <2> QED BY <2>1, <2>2, ZenonT(60)
<1> QED BY <1>12, <1>13, <1>14, <1>15, <1>19, ZenonT(60) DEF Exchanging

\* A new connection: the broker repeats each open exchange once, or the session
\* starts again on both sides.
LEMMA ConnectKeeps ==
  ASSUME Types, InStep, Exchanging, Connect, Windows = {}
  PROVE  Exchanging'
<1>1. PICK n \in Links : n = nconn + 1
  <2>1. nconn + 1 \in Links
    BY NextLink, ZenonT(60) DEF Connect
  <2> QED BY <2>1, Zenon
<1>2. /\ nconn \in Nat /\ nconn' = n /\ rpc' = [rpc EXCEPT ![n] = "read"]
      /\ nconn > 0 => nconn \in stopping
      /\ \A k \in 1 .. nconn : rpc[k] \notin {"handle", "record"}
      /\ stopping' = stopping /\ frame' = frame /\ up' = up /\ queue' = queue
      /\ delivered' = delivered /\ interrupted' = interrupted /\ acked' = acked
      /\ inflight \in Seq(Exchanges) /\ down \in [Links -> Seq(Frames)]
  <2>1. inflight \in Seq(Exchanges) /\ down \in [Links -> Seq(Frames)]
    BY Zenon DEF Types, WireTypes
  <2>2. nconn \in Nat
    BY NextLink, Zenon DEF Connect
  <2> QED BY <1>1, <2>1, <2>2, ZenonT(60) DEF Connect, history
<1>3. /\ rpc'[n] = "read" /\ \A k \in Links \ {n} : rpc'[k] = rpc[k]
      /\ up[n] = << >> /\ down[n] = << >> /\ n \notin stopping /\ Held(n)' = {}
  BY <1>1, <1>2, SMTT(60) DEF Types, LoopTypes, InStep, Unused, Exchanging, OldLinks, Held
<1>4. OldLinks'
  <2>1. \A k \in Links : k < n => k \in 1 .. nconn /\ k # n
    BY <1>1, <1>2, SMTT(60) DEF Links
  <2>2. \A k \in Links : k < n => k \in stopping
    BY <1>1, <1>2, <2>1, SMTT(60) DEF Exchanging, OldLinks, Links
  <2>3. \A k \in Links : k > n => k > nconn
    BY <1>1, <1>2, SMTT(60) DEF Links
  <2> QED BY <1>2, <1>3, <2>1, <2>2, <2>3, ZenonT(60) DEF Exchanging, OldLinks
<1>5. Handlers'
  BY <1>2, <1>3, Zenon DEF Exchanging, Handlers
<1>6. Promises'
  BY <1>2, Zenon DEF Exchanging, Promises, ExactlyOnceReceived, AcknowledgedMeansDelivered
<1>7. Range(up'[n]) = {} /\ Sole(up'[n])
  BY <1>2, <1>3, SMTT(60) DEF Range, Sole
<1>8. CASE store' = ResetStore(store) /\ inflight' = << >> /\ down' = down
  <2>1. Open' = {} /\ store' \in Stores /\ \A id : ~Recorded(id)'
    BY <1>8, SMTT(60) DEF Open, Range, ResetStore, NewStore, Stores, Recorded, Contains, Entry
  <2>2. Counts' /\ Records' /\ Once'
    BY <1>2, <2>1, Zenon DEF Exchanging, Counts, Records, Once
  <2>3. Books'
    <3>1. Separate(inflight')
      BY <1>8, SMTT(60) DEF Separate
    <3> QED BY <1>2, <2>1, <3>1, ZenonT(60) DEF Exchanging, Books
  <2>4. Range(down'[n]) = {} /\ Sole(down'[n])
    BY <1>3, <1>8, SMTT(60) DEF Range, Sole
  <2>5. Pipe'
    BY <1>2, <1>3, <1>7, <2>4, Zenon DEF Pipe, Apart
  <2> QED BY <1>4, <1>5, <1>6, <2>2, <2>3, <2>5, Zenon DEF Exchanging
<1>9. CASE down' = [down EXCEPT ![n] = Retransmissions] /\ store' = store /\ inflight' = inflight
  <2>1. Open' = Open /\ \A id : Recorded(id)' <=> Recorded(id)
    BY <1>9, Zenon DEF Open, Recorded
  <2>2. Counts' /\ Books' /\ Records'
    BY <1>2, <1>9, <2>1, ZenonT(60) DEF Exchanging, Counts, Books, Records
  <2>3. Once'
    <3> SUFFICES ASSUME NEW e \in Open, e.m \in Qos2, e.stage = "sent", delivered[e.m] > 0, e.m \notin interrupted,
                        ~Recorded(e.id)
                 PROVE  FALSE
      BY <1>2, <2>1, ZenonT(60) DEF Once
    <3>1. PICK k \in Links : k = nconn /\ rpc[k] \in {"handler", "record"} /\ frame[k].id = e.id
      BY Zenon DEF Exchanging, Once
    <3>2. k \in 1 .. nconn /\ k \in stopping
      BY <1>2, <3>1, SMTT(60) DEF Links
    <3>3. rpc[k] = "handler"
      BY <1>2, <3>1, <3>2, Zenon
    <3> QED BY <3>1, <3>2, <3>3, WasInterrupted, ZenonT(60)
  <2>4. down'[n] = Retransmissions
    BY <1>2, <1>9, Zenon
  <2>5. DOMAIN Retransmissions = DOMAIN inflight
    BY Zenon DEF Retransmissions
  <2>6. ASSUME NEW i \in DOMAIN inflight
        PROVE  /\ Retransmissions[i].id = inflight[i].id
               /\ \A f : f = Retransmissions[i] => Matches(f)'
    <3>1. PICK e \in Open : e = inflight[i]
      BY Zenon DEF Open, Range
    <3>2. PICK f : f = Retransmissions[i]
      BY Zenon
    <3>3. e.stage \in {"sent", "rel"}
      BY ExchangeTypes, Zenon
    <3>4. f = IF e.stage = "rel" THEN PubrelFrame(e) ELSE PublishFrame(e, TopicOf[e.m], None)
      BY <3>1, <3>2, Zenon DEF Retransmissions
    <3>5. f.id = e.id /\ Fits(f, e)'
      BY <3>3, <3>4, Zenon DEF PubrelFrame, PublishFrame, Fits
    <3> QED BY <2>1, <3>1, <3>2, <3>5, Zenon DEF Matches
  <2>7. Sole(down'[n])
    BY <2>4, <2>5, <2>6, ZenonT(60) DEF Sole, Exchanging, Books, Separate
  <2>8. \A f \in Range(down'[n]) : Matches(f)'
    BY <2>4, <2>5, <2>6, ZenonT(60) DEF Range
  <2>9. Pipe'
    BY <1>2, <1>3, <1>7, <2>7, <2>8, ZenonT(60) DEF Pipe, Apart
  <2> QED BY <1>4, <1>5, <1>6, <2>2, <2>3, <2>9, Zenon DEF Exchanging
<1> QED BY <1>1, <1>2, <1>8, <1>9, ZenonT(60) DEF Connect

-----------------------------------------------------------------------------
\* The exchanges stay in order, in a client whose reconnects fall outside the
\* two windows of the read loop.
LEMMA StaysExchanging == Windows = {} => (Spec => []Exchanging)
<1> SUFFICES ASSUME Windows = {} PROVE Spec => []Exchanging
  BY ZenonT(60)
<1>1. Init => Exchanging
  <2> SUFFICES ASSUME Init PROVE Exchanging
    BY Zenon
  <2>1. /\ store = NewStore /\ nconn = 0 /\ stopping = {} /\ inflight = << >>
        /\ \A l \in Links : rpc[l] = "off" /\ up[l] = << >> /\ down[l] = << >>
        /\ delivered = [m \in Messages |-> 0] /\ acked = {} /\ interrupted = {}
        /\ queue \in [1 .. Cardinality(Messages) -> Messages]
        /\ \A i, j \in 1 .. Cardinality(Messages) : queue[i] = queue[j] => i = j
    BY Zenon DEF Init, Bijection, Injection, IsInjective
  <2>2. Open = {} /\ store \in Stores /\ \A id : ~Recorded(id)
    BY <2>1, SMTT(60) DEF Open, Range, NewStore, Stores, Recorded, Contains, Entry
  <2>3. Counts /\ OldLinks /\ Records /\ Handlers /\ Once
    BY <2>1, <2>2, SMTT(60) DEF Counts, OldLinks, Records, Handlers, Once, Links
  <2>4. Promises
    BY <2>1, ReceiverAssumption, SMTT(60) DEF Promises, ExactlyOnceReceived, AcknowledgedMeansDelivered
  <2>5. Books
    BY <2>1, <2>2, SMTT(60) DEF Books, Separate, Range
  <2>6. Pipe
    BY <2>1, SMTT(60) DEF Pipe, Links
  <2> QED BY <2>3, <2>4, <2>5, <2>6, ZenonT(60) DEF Exchanging
<1>2. Types /\ InStep /\ Exchanging /\ [Next]_vars => Exchanging'
  <2> SUFFICES ASSUME Types, InStep, Exchanging, [Next]_vars PROVE Exchanging'
    BY Zenon
  <2>1. CASE BrokerSends
    BY <2>1, SendsKeeps, Zenon
  <2>2. CASE BrokerReceives
    BY <2>2, ReceivesKeeps, Zenon
  <2>3. CASE BrokerErrs
    BY <2>3, ErrsKeeps, Zenon
  <2>4. ASSUME NEW l \in Links, Reader(l) PROVE Exchanging'
    <3>1. CASE readLoop(l)
      BY <3>1, FrameTaken, Zenon
    <3>2. CASE readError(l)
      BY <3>2, LoopEnds, Zenon DEF readError, Goto, broker, history
    <3>3. CASE Malformed(l)
      BY <3>3, LoopEnds, Zenon DEF Malformed, protocolError, Goto, broker, history
    <3>4. CASE handlePublish(l)
      BY <3>4, PublishKeeps, Zenon
    <3>5. CASE handlerReturns(l)
      BY <3>5, HandlerKeeps, Zenon
    <3>6. CASE record(l)
      BY <3>6, RecordKeeps, Zenon
    <3>7. CASE handleInboundPubrel(l)
      BY <3>7, PubrelKeeps, Zenon
    <3> QED BY <2>4, <3>1, <3>2, <3>3, <3>4, <3>5, <3>6, <3>7, Zenon DEF Reader
  <2>5. ASSUME NEW l \in Links, teardownLink(l) PROVE Exchanging'
    BY <2>5, TeardownKeeps, Zenon
  <2>6. CASE Connect
    BY <2>6, ConnectKeeps, Zenon
  <2>7. CASE UNCHANGED vars
    <3>1. /\ store' = store /\ stopping' = stopping /\ rpc' = rpc /\ frame' = frame /\ nconn' = nconn
          /\ down' = down /\ up' = up /\ queue' = queue /\ inflight' = inflight
          /\ delivered' = delivered /\ interrupted' = interrupted /\ acked' = acked
      BY <2>7, Zenon DEF vars, client, broker, history
    <3>2. Counts' /\ Books' /\ OldLinks' /\ Records' /\ Handlers' /\ Promises'
      BY <3>1, ZenonT(60) DEF Exchanging, Counts, Books, OldLinks, Records, Handlers, Promises, ExactlyOnceReceived,
                  AcknowledgedMeansDelivered, Open, Recorded
    <3>3. Pipe' /\ Once'
      <4>1. Open' = Open /\ (\A k \in Links : Held(k)' = Held(k)) /\ Pipe /\ Once
        BY <3>1, ZenonT(60) DEF Exchanging, Open, Held
      <4>2. ASSUME NEW f PROVE Matches(f) => Matches(f)'
        BY <3>1, <4>1, Zenon DEF Matches, Fits, Recorded
      <4>3. Pipe'
        BY <3>1, <4>1, <4>2, ZenonT(60) DEF Pipe
      <4>4. Once'
        BY <3>1, <4>1, Zenon DEF Once, Recorded
      <4> QED BY <4>3, <4>4, Zenon
    <3> QED BY <3>2, <3>3, ZenonT(60) DEF Exchanging
  <2> QED BY <2>1, <2>2, <2>3, <2>4, <2>5, <2>6, <2>7, Zenon DEF Next
<1> QED BY <1>1, <1>2, StaysInStep, PTL DEF Spec

\* The application gets a QoS 2 message at most once, on any number of links,
\* connection losses and redeliveries, except one whose link died while its
\* handler ran: handleInboundQoS2 checks for the record
\* before it runs the handler and saves it afterwards, and only the PUBREL
\* removes it.  Windows = {} leaves out a reconnect between a check of the
\* link and the act it guards, for which ReceiverHandleWindow.cfg and
\* ReceiverRecordWindow.cfg have counterexamples.
THEOREM ReceivedOnce == Windows = {} => (Spec => []ExactlyOnceReceived)
<1>1. Exchanging => ExactlyOnceReceived
  BY Zenon DEF Exchanging, Promises
<1> QED BY <1>1, StaysExchanging, PTL

\* An acknowledged message was delivered: whenever the broker has taken the
\* PUBREC or PUBACK of a message, handlePublish had run the handler for that
\* message, not for another one that used its packet identifier before.
\* No record of an earlier exchange swallows a new message.
THEOREM NothingSwallowed == Windows = {} => (Spec => []AcknowledgedMeansDelivered)
<1>1. Exchanging => AcknowledgedMeansDelivered
  BY ZenonT(60) DEF Exchanging, Promises
<1> QED BY <1>1, StaysExchanging, PTL

\* handleInboundPubrel removes what handleInboundQoS2 saved: each record in the
\* store belongs to a QoS 2 exchange the broker still has open, so that the
\* next message with its identifier is not mistaken for a redelivery.
THEOREM RecordsHaveExchanges == Windows = {} => (Spec => []NoOrphanRecord)
<1>1. Exchanging => NoOrphanRecord
  <2> SUFFICES ASSUME Exchanging, NEW r \in store.msgs
               PROVE  \E i \in DOMAIN inflight : inflight[i].id = r.id /\ inflight[i].m \in Qos2
    BY Zenon DEF NoOrphanRecord
  <2>1. r.id \in PacketIds /\ r.kind = "inbound"
    BY Zenon DEF Exchanging, Counts, Stores
  <2>2. Recorded(r.id)
    BY <2>1, Zenon DEF Recorded, Contains, Entry
  <2> QED BY <2>1, <2>2, SMTT(60) DEF Exchanging, Records, Open, Range
<1> QED BY <1>1, StaysExchanging, PTL

===========================================================================
