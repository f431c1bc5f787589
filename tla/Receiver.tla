------------------------------ MODULE Receiver ------------------------------
(***************************************************************************)
(* The inbound half of pump.go: the read loop of every link, topic         *)
(* aliases, dispatch to a handler that may block, and the receiver side of *)
(* QoS 1 and QoS 2 with its dedup record in the session store.  A read     *)
(* loop that is blocked in a handler outlives its link, so the read loops  *)
(* of several links run side by side on one store.                         *)
(*                                                                         *)
(* The broker is external: it sends every message once per session and     *)
(* repeats what is unacknowledged when a session is resumed.               *)
(***************************************************************************)
EXTENDS SessionState, Sequences, Functions

CONSTANTS
  Messages, Qos2,       \* what the broker forwards; the ones at QoS 2, the others at QoS 1
  Topics, TopicOf,      \* the topic of a message
  TopicAliasMaximum,    \* 0: no aliases
  None,
  Windows,              \* check-then-act windows a reconnect may fall into
  MaxLinks              \* bound: connections

ASSUME ReceiverAssumption ==
  /\ IsFiniteSet(Messages) /\ Qos2 \subseteq Messages /\ TopicOf \in [Messages -> Topics]
  /\ TopicAliasMaximum \in Nat /\ MaxLinks \in Nat \ {0}
  /\ None \notin Topics \cup Messages \cup 1 .. TopicAliasMaximum
  /\ Windows \subseteq {"handle", "record"}

Links == 1 .. MaxLinks
Aliases == 1 .. TopicAliasMaximum

VARIABLES
  store,                \* TCPClient.store, its StoredInboundID entries
  nconn,                \* the newest link
  stopping,             \* the links whose stop channel is closed
  aliases,              \* link.aliases
  rpc, frame,           \* per link: where the read loop is, the frame it handles
  down, up,             \* per link: what the two sides have sent
  queue, inflight,      \* broker: messages not sent; the exchanges it has open
  balias,               \* broker: the aliases it has sent on this connection
  delivered,            \* history: how often a message reached a handler
  misrouted,            \* history: messages that reached a handler under another topic
  interrupted,          \* history: messages whose handler ran while the link died
  acked                 \* history: messages the client has taken responsibility for

client == <<store, stopping, aliases, rpc, frame>>
broker == <<queue, inflight, balias>>
history == <<delivered, misrouted, interrupted, acked>>
vars == <<client, nconn, down, up, broker, history>>

-----------------------------------------------------------------------------
(* Broker (external).                                                      *)

PublishFrame(e, topic, alias) == [type |-> "publish", m |-> e.m, id |-> e.id, topic |-> topic, alias |-> alias]
PubrelFrame(e) == [type |-> "pubrel", id |-> e.id]

\* A first transmission: the topic alone, the topic with an alias it
\* (re)defines, or a defined alias alone.
BrokerSends ==
  /\ queue # <<>> /\ nconn > 0
  /\ \E id \in PacketIds \ {inflight[i].id : i \in DOMAIN inflight} :
       LET e == [m |-> Head(queue), id |-> id, stage |-> "sent"]
           t == TopicOf[e.m]
       IN  /\ inflight' = Append(inflight, e)
           /\ \/ /\ down' = [down EXCEPT ![nconn] = Append(@, PublishFrame(e, t, None))]
                 /\ UNCHANGED balias
              \/ \E a \in Aliases :
                   /\ down' = [down EXCEPT ![nconn] = Append(@, PublishFrame(e, t, a))]
                   /\ balias' = [balias EXCEPT ![a] = t]
              \/ \E a \in Aliases :
                   /\ balias[a] = t
                   /\ down' = [down EXCEPT ![nconn] = Append(@, PublishFrame(e, None, a))]
                   /\ UNCHANGED balias
  /\ queue' = Tail(queue)
  /\ UNCHANGED <<client, nconn, up, history>>

\* The exchanges without the one that uses id.
Without(exchanges, id) ==
  LET uses == {i \in DOMAIN exchanges : exchanges[i].id = id}
      n    == CHOOSE i \in uses : TRUE
  IN  IF uses = {} THEN exchanges
      ELSE SubSeq(exchanges, 1, n - 1) \o SubSeq(exchanges, n + 1, Len(exchanges))

\* An acknowledgement: PUBREC is answered with PUBREL, PUBACK and PUBCOMP
\* end the exchange.
BrokerReceives ==
  /\ nconn > 0 /\ up[nconn] # <<>>
  /\ up' = [up EXCEPT ![nconn] = Tail(@)]
  /\ LET a    == Head(up[nconn])
         mine(e) == e.id = a.id
         released == [i \in DOMAIN inflight |->
                        IF mine(inflight[i]) THEN [inflight[i] EXCEPT !.stage = "rel"] ELSE inflight[i]]
     IN  /\ IF a.type = "pubrec"
            THEN /\ inflight' = released
                 /\ down' = [down EXCEPT ![nconn] = Append(@, PubrelFrame(a))]
            ELSE /\ inflight' = Without(inflight, a.id)
                 /\ UNCHANGED down
         /\ acked' = acked \cup {inflight[i].m : i \in {j \in DOMAIN inflight : mine(inflight[j])}}
  /\ UNCHANGED <<client, nconn, queue, balias, delivered, misrouted, interrupted>>

\* A frame that does not decode, or names an alias nobody defined.
BrokerErrs ==
  /\ nconn > 0 /\ nconn < MaxLinks /\ nconn \notin stopping /\ down[nconn] = <<>>
  /\ \E f \in {[type |-> "bad"]} \cup
              {PublishFrame([m |-> None, id |-> 1], None, a) : a \in {b \in Aliases : balias[b] = None}} :
       down' = [down EXCEPT ![nconn] = Append(@, f)]
  /\ UNCHANGED <<client, nconn, up, broker, history>>

-----------------------------------------------------------------------------
(* The read loop.                                                          *)

Goto(l, label) == rpc' = [rpc EXCEPT ![l] = label]

\* writeFrame: a link that was torn down takes nothing.
sendAck(l, type, id) ==
  up' = IF l \in stopping THEN up ELSE [up EXCEPT ![l] = Append(@, [type |-> type, id |-> id])]

\* Read a frame; the link may have been torn down meanwhile.
readLoop(l) ==
  /\ rpc[l] = "read" /\ down[l] # <<>>
  /\ down' = [down EXCEPT ![l] = Tail(@)]
  /\ IF l \in stopping
     THEN Goto(l, "exit") /\ UNCHANGED frame
     ELSE Goto(l, "handle") /\ frame' = [frame EXCEPT ![l] = Head(down[l])]
  /\ UNCHANGED <<store, stopping, aliases, nconn, up, broker, history>>

\* The read fails because the link was torn down.
readError(l) ==
  /\ rpc[l] = "read" /\ l \in stopping /\ Goto(l, "exit")
  /\ UNCHANGED <<store, stopping, aliases, frame, nconn, down, up, broker, history>>

\* Tears the link down and ends the loop.
protocolError(l) ==
  /\ Goto(l, "exit") /\ stopping' = stopping \cup {l}
  /\ UNCHANGED <<store, aliases, frame, nconn, down, up, broker, history>>

Malformed(l) ==
  /\ rpc[l] = "handle" /\ frame[l].type = "bad"
  /\ protocolError(l)

\* resolveTopicAlias: the topic, None when the alias is invalid.
resolveTopicAlias(l, f) ==
  IF f.alias = None THEN f.topic
  ELSE IF f.alias \notin Aliases THEN None
  ELSE IF f.topic = None THEN aliases[l][f.alias] ELSE f.topic

\* Mutant: an alias that is in the table is not redefined.
registerAliasOnce(l, f) ==
  aliases' = IF f.alias # None /\ f.topic # None /\ aliases[l][f.alias] = None
             THEN [aliases EXCEPT ![l][f.alias] = f.topic] ELSE aliases

registerAlias(l, f) ==
  aliases' = IF f.alias # None /\ f.topic # None
             THEN [aliases EXCEPT ![l][f.alias] = f.topic] ELSE aliases

\* Mutant: a duplicate is dispatched again.
DuplicateNever(f) == FALSE

\* storeContains of an inbound QoS 2 PUBLISH.
Duplicate(f) == f.m \in Qos2 /\ Contains(store, f.id, "inbound")

dispatch(m, topic) ==
  /\ delivered' = [delivered EXCEPT ![m] = @ + 1]
  /\ misrouted' = IF topic = TopicOf[m] THEN misrouted ELSE misrouted \cup {m}
  /\ UNCHANGED <<interrupted, acked>>

\* handlePublish up to the handler: reject, re-acknowledge, or dispatch.
handlePublish(l) ==
  /\ rpc[l] = "handle" /\ frame[l].type = "publish"
  /\ LET f == frame[l]
         topic == resolveTopicAlias(l, f)
     IN  \/ topic = None /\ protocolError(l)
         \/ /\ topic # None /\ Duplicate(f)
            /\ registerAlias(l, f) /\ sendAck(l, "pubrec", f.id) /\ Goto(l, "read")
            /\ UNCHANGED <<store, stopping, frame, nconn, down, broker, history>>
         \/ /\ topic # None /\ ~Duplicate(f)
            /\ registerAlias(l, f) /\ dispatch(f.m, topic) /\ Goto(l, "handler")
            /\ UNCHANGED <<store, stopping, frame, nconn, down, up, broker>>

\* Mutant: the loop does not look at the link again after the handler.
handlerReturnsBlindly(l) ==
  /\ rpc[l] = "handler" /\ Goto(l, "record")
  /\ UNCHANGED <<store, stopping, aliases, frame, nconn, down, up, broker, history>>

\* The handler returns; a link that died meanwhile is not acknowledged on.
handlerReturns(l) ==
  /\ rpc[l] = "handler"
  /\ Goto(l, IF l \in stopping THEN "exit" ELSE "record")
  /\ UNCHANGED <<store, stopping, aliases, frame, nconn, down, up, broker, history>>

\* QoS 1: PUBACK.  handleInboundQoS2: the dedup record, then PUBREC.
record(l) ==
  /\ rpc[l] = "record" /\ Goto(l, "read")
  /\ LET f == frame[l]
     IN  IF f.m \in Qos2
         THEN store' = Save(store, f.id, "inbound", None) /\ sendAck(l, "pubrec", f.id)
         ELSE sendAck(l, "puback", f.id) /\ UNCHANGED store
  /\ UNCHANGED <<stopping, aliases, frame, nconn, down, broker, history>>

\* Mutant: the dedup record outlives the exchange.
handleInboundPubrelKeeps(l) ==
  /\ rpc[l] = "handle" /\ frame[l].type = "pubrel"
  /\ Goto(l, "read")
  /\ UNCHANGED store /\ sendAck(l, "pubcomp", frame[l].id)
  /\ UNCHANGED <<stopping, aliases, frame, nconn, down, broker, history>>

\* Mutant: a PUBREL with no dedup record is not answered.
handleInboundPubrelSilent(l) ==
  /\ rpc[l] = "handle" /\ frame[l].type = "pubrel"
  /\ Goto(l, "read")
  /\ LET id == frame[l].id
     IN  IF Contains(store, id, "inbound")
         THEN store' = Delete(store, id, "inbound") /\ sendAck(l, "pubcomp", id)
         ELSE UNCHANGED <<store, up>>
  /\ UNCHANGED <<stopping, aliases, frame, nconn, down, broker, history>>

\* PUBCOMP, with the reason 0x92 when there is no dedup record.
handleInboundPubrel(l) ==
  /\ rpc[l] = "handle" /\ frame[l].type = "pubrel"
  /\ Goto(l, "read")
  /\ LET id == frame[l].id
     IN  IF Contains(store, id, "inbound")
         THEN store' = Delete(store, id, "inbound") /\ sendAck(l, "pubcomp", id)
         ELSE sendAck(l, "pubcomp-0x92", id) /\ UNCHANGED store
  /\ UNCHANGED <<stopping, aliases, frame, nconn, down, broker, history>>

Reader(l) == readLoop(l) \/ readError(l) \/ Malformed(l) \/ handlePublish(l)
             \/ handlerReturns(l) \/ record(l) \/ handleInboundPubrel(l)

-----------------------------------------------------------------------------
\* teardownLink from outside the read loop: the socket dies, the watchdog
\* fires, the caller disconnects.
teardownLink(l) ==
  /\ l = nconn /\ l \notin stopping /\ nconn < MaxLinks
  /\ stopping' = stopping \cup {l}
  /\ interrupted' = interrupted \cup
       {frame[l].m : x \in {y \in {l} : rpc[y] \in {"handle", "handler"} /\ frame[y].type = "publish"}}
  /\ UNCHANGED <<store, aliases, rpc, frame, nconn, down, up, broker, delivered, misrouted, acked>>

\* What a resuming broker repeats, in the order it sent it.
Retransmissions ==
  [i \in DOMAIN inflight |->
     IF inflight[i].stage = "rel" THEN PubrelFrame(inflight[i])
     ELSE PublishFrame(inflight[i], TopicOf[inflight[i].m], None)]

\* Connect, with applySession: a session the broker does not resume is
\* reset on both sides.  A read loop of an old link may still be running.
Connect ==
  /\ nconn < MaxLinks /\ (nconn > 0 => nconn \in stopping)
  /\ \A l \in 1 .. nconn : rpc[l] \in {"handle", "record"} => rpc[l] \in Windows
  /\ nconn' = nconn + 1
  /\ rpc' = [rpc EXCEPT ![nconn'] = "read"]
  /\ balias' = [a \in Aliases |-> None]
  /\ \E resumed \in BOOLEAN :
       IF resumed
       THEN /\ down' = [down EXCEPT ![nconn'] = Retransmissions]
            /\ UNCHANGED <<store, inflight>>
       ELSE store' = ResetStore(store) /\ inflight' = <<>> /\ UNCHANGED down
  /\ UNCHANGED <<stopping, aliases, frame, up, queue, history>>

-----------------------------------------------------------------------------
Init ==
  /\ store = NewStore /\ nconn = 0 /\ stopping = {}
  /\ aliases = [l \in Links |-> [a \in Aliases |-> None]]
  /\ rpc = [l \in Links |-> "off"] /\ frame = [l \in Links |-> [type |-> "none"]]
  /\ down = [l \in Links |-> <<>>] /\ up = [l \in Links |-> <<>>]
  /\ queue \in Bijection(1 .. Cardinality(Messages), Messages) /\ inflight = <<>> /\ balias = [a \in Aliases |-> None]
  /\ delivered = [m \in Messages |-> 0] /\ misrouted = {} /\ interrupted = {} /\ acked = {}

Next ==
  \/ BrokerSends \/ BrokerReceives \/ BrokerErrs
  \/ \E l \in Links : Reader(l) \/ teardownLink(l)
  \/ Connect

Spec == Init /\ [][Next]_vars

\* The broker answers, read loops run, handlers return, the lifecycle
\* reconnects.  A link need not fail.
Fairness ==
  /\ WF_vars(BrokerSends) /\ WF_vars(BrokerReceives) /\ WF_vars(Connect)
  /\ \A l \in Links : WF_vars(Reader(l))

FairSpec == Spec /\ Fairness

-----------------------------------------------------------------------------
\* Every variable of the client holds a value its Go counterpart can hold.
TypeOK ==
  /\ \A e \in store.msgs : e.id \in PacketIds /\ e.kind = "inbound"
  /\ nconn \in 0 .. MaxLinks /\ stopping \subseteq 1 .. nconn
  /\ aliases \in [Links -> [Aliases -> Topics \cup {None}]]
  /\ rpc \in [Links -> {"off", "read", "handle", "handler", "record", "exit"}]
  /\ delivered \in [Messages -> Nat]

\* handleInboundQoS2, "exactly-once receiver": a QoS 2 message reaches a
\* handler once over all retransmissions and resumed sessions, except when
\* the link died while its handler ran, the "documented at-least-once cost".
ExactlyOnceReceived ==
  \A m \in Qos2 : delivered[m] > 1 => m \in interrupted

\* A dedup record never makes the client swallow a message: what it has
\* acknowledged has reached a handler.
AcknowledgedMeansDelivered == \A m \in acked : delivered[m] > 0

\* "recording its dedup entry now would poison the NEW session's state": a
\* dedup record belongs to an exchange the broker has open.
NoOrphanRecord ==
  \A e \in store.msgs : \E i \in DOMAIN inflight : inflight[i].id = e.id /\ inflight[i].m \in Qos2

\* resolveTopicAlias: a handler is chosen by the topic the message was
\* published on, whichever aliases were defined and redefined.
TopicsResolved == misrouted = {}

\* handleInboundPubrel, "leaving it unanswered strands the peer's exchange":
\* every exchange the broker opens is closed, by an acknowledgement or with
\* the session.
ExchangesComplete ==
  \A m \in Messages : (\E i \in DOMAIN inflight : inflight[i].m = m) ~> (\A i \in DOMAIN inflight : inflight[i].m # m)

=============================================================================
