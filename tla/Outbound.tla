------------------------------ MODULE Outbound ------------------------------
(***************************************************************************)
(* The outbound half of TCPClient: the QoS 1/2 Publish calls, the          *)
(* Subscribe/Unsubscribe requests, the read loop that applies their        *)
(* acknowledgements, the teardown of a link, and the reconnect that        *)
(* re-accounts and replays the session.  All of them share the allocator,  *)
(* the store, the quota (SessionState) and the waiter table, and none of   *)
(* them holds a lock across two of these: an action is one critical        *)
(* section, so every interleaving of the goroutines is a behaviour.        *)
(*                                                                         *)
(* A call is one goroutine inside Publish, Subscribe or Unsubscribe, and   *)
(* is also the name of the message or request it sends.  Link number n is  *)
(* the one built by the n-th Connect that reached applySession; link = 0   *)
(* is the nil pointer.  The broker and the socket are external.            *)
(***************************************************************************)
EXTENDS SessionState, Sequences

CONSTANTS
  Qos1, Qos2,       \* Publish calls
  Subs, Unsubs,     \* Subscribe and Unsubscribe calls
  Filters,          \* filters that may be registered when a link comes up
  LeftoverIds,      \* identifiers the broker's session holds from an earlier process
  Previous,         \* the message that process left half way through QoS 2
  None,             \* no call, no result
  MaxLinks,         \* bound: Connects that get as far as applySession
  RecvMaxes,        \* the Receive Maximum values a CONNACK may advertise
  CleanStart,       \* TRUE: Clean Start, or a v5 Session Expiry of 0; the
                    \* broker then keeps no session between connections
  Stalls            \* the races another goroutine may win, see below

(* Stalls names the places where the code acts on something it looked up   *)
(* in an earlier critical section.  With a name left out, the goroutine is *)
(* taken to leave that place before the racing step happens.               *)
(*   "publish"   a reconnect overtakes a call between loading the link and *)
(*               registering its waiter                                    *)
(*   "cleanup"   a reconnect overtakes a failed Publish between its        *)
(*               generation check and its last release                     *)
(*   "dispatch"  a reconnect overtakes the read loop after isStopping      *)
(*   "reuse"     a call acquires an identifier the read loop has released  *)
(*               but whose waiter it has not signalled yet                 *)
StallNames == {"publish", "cleanup", "dispatch", "reuse"}

Links      == 1 .. MaxLinks
Publishers == Qos1 \cup Qos2
Requests   == Subs \cup Unsubs
Resubs     == Filters \X Links       \* awaitResubscribe goroutines, one per link
Calls      == Publishers \cup Requests \cup Resubs

ASSUME OutboundAssumption ==
  /\ MaxLinks \in Nat
  /\ RecvMaxes \subseteq Nat \ {0}
  /\ LeftoverIds \subseteq PacketIds
  /\ CleanStart \in BOOLEAN
  /\ Stalls \subseteq StallNames
  /\ Qos1 \cap Qos2 = {} /\ Subs \cap Unsubs = {}
  /\ Publishers \cap Requests = {}
  /\ (Publishers \cup Requests) \cap Resubs = {}
  /\ {None, Previous} \cap Calls = {}

\* ackClass: the acknowledgement a call's waiter accepts.
Class(p) == IF p \in Publishers THEN "publish"
            ELSE IF p \in Unsubs THEN "unsuback" ELSE "suback"

VARIABLES
  ids, store, quota,            \* SessionState
  waiters,                      \* packet id -> the call whose channel is registered
  link, nconn, td,              \* c.link; the newest link; how far its teardown is
  quotaGen, idGen,              \* link.quotaGen, link.idGen
  pc, myLink, myId, myQuotaGen, myIdGen,   \* a call's program counter and locals
  chan, result,                 \* its ackResult channel; what it returned
  rpc, frame,                   \* a link's read loop and the frame it handles
  cpc, recvMax, counted, replay, resubs,  \* Connect
  netUp, toClient, broker, delivered, refused       \* external: socket and broker

sessVars == <<ids, store, quota, waiters>>
linkVars == <<link, nconn, td, quotaGen, idGen>>
callVars == <<pc, myLink, myId, myQuotaGen, myIdGen, chan, result>>
readVars == <<rpc, frame>>
connVars == <<cpc, recvMax, counted, replay, resubs>>
netVars  == <<netUp, toClient, broker, delivered, refused>>
vars     == <<sessVars, linkVars, callVars, readVars, connVars, netVars>>

\* isStopping(l) is ~Up(l): only the newest link can have an open stop channel.
Up(l)   == l = nconn /\ td = "up"
Down(l) == l < nconn \/ td = "down"     \* closeOnce.Do has returned

-----------------------------------------------------------------------------
(* The broker, as far as the client's packets drive it (external).         *)

\* An exchange at the broker: "pub" is to be answered, accepted or refused
\* (ok); "rec" is a QoS 2 message accepted and waiting for its PUBREL.
Entries == [id : PacketIds, msg : Calls \cup {Previous}, stage : {"pub", "rec"}, ok : BOOLEAN]
Acks    == [type : {"PUBACK", "PUBREC", "PUBCOMP", "SUBACK", "UNSUBACK"},
            id : PacketIds, ok : BOOLEAN]
NoFrame == [type |-> None, id |-> 0, ok |-> FALSE]

Ack(type, id, ok) == [type |-> type, id |-> id, ok |-> ok]

\* The QoS 2 exchanges the broker's session state remembers.
Remembered == {e \in broker : e.msg \in Qos2 \cup {Previous} /\ e.ok}

\* A QoS 2 PUBLISH under an identifier the broker holds is a retransmission.
IsResend(p, id) == p \in Qos2 /\ \E e \in Remembered : e.id = id

BrokerReceives(p, id) ==
  IF ~netUp THEN UNCHANGED <<broker, delivered, refused>>
  ELSE IF IsResend(p, id)
  THEN /\ broker' = {IF e.id = id /\ e \in Remembered THEN [e EXCEPT !.stage = "pub"] ELSE e
                       : e \in broker}
       /\ UNCHANGED <<delivered, refused>>
  ELSE \E ok \in BOOLEAN :
       /\ broker' = broker \cup {[id |-> id, msg |-> p, stage |-> "pub", ok |-> ok]}
       /\ delivered' = IF ok /\ p \in Publishers \cup Requests
                       THEN [delivered EXCEPT ![p] = IF @ < 2 THEN @ + 1 ELSE @] ELSE delivered
       /\ refused' = IF ok THEN refused ELSE refused \cup ({p} \cap Publishers)

\* PUBREL: the broker completes the exchange, or does not know it (0x92).
BrokerReceivesPubrel(id) ==
  LET known == {e \in Remembered : e.id = id} IN
  IF ~netUp THEN UNCHANGED <<broker, toClient>>
  ELSE /\ broker' = broker \ known
       /\ toClient' = Append(toClient, Ack("PUBCOMP", id, known # {}))

\* The broker sends the acknowledgement that answers a packet it received.
BrokerAnswers(e) ==
  /\ netUp /\ e.stage = "pub"
  /\ toClient' = Append(toClient, Ack(CASE e.msg \in Qos1 -> "PUBACK"
                                        [] e.msg \in Qos2 \cup {Previous} -> "PUBREC"
                                        [] e.msg \in Unsubs -> "UNSUBACK"
                                        [] OTHER -> "SUBACK", e.id, e.ok))
  /\ broker' = (broker \ {e}) \cup
               (IF e \in Remembered THEN {[e EXCEPT !.stage = "rec"]} ELSE {})
  /\ UNCHANGED <<sessVars, linkVars, callVars, readVars, connVars, netUp, delivered, refused>>

\* The path to the broker dies: what is written from now on is lost.
PeerVanishes ==
  /\ netUp /\ netUp' = FALSE
  /\ UNCHANGED <<sessVars, linkVars, callVars, readVars, connVars, toClient, broker, delivered, refused>>

-----------------------------------------------------------------------------
(* teardownLink.  closeOnce runs the body once and makes every other       *)
(* caller wait for it (Down).  A link that Connect has not published yet   *)
(* only has its socket closed.                                             *)

BeginTeardown ==
  /\ td' = IF td # "up" THEN td ELSE IF link = nconn THEN "closed" ELSE "down"
  /\ netUp' = FALSE

\* A read error, the ping watchdog, a broker DISCONNECT, a protocol error or
\* the caller's Disconnect tears the published link down.
LinkLost ==
  /\ link = nconn /\ link # 0 /\ td = "up"
  /\ BeginTeardown
  /\ UNCHANGED <<sessVars, link, nconn, quotaGen, idGen, callVars, readVars, connVars,
                 toClient, broker, delivered, refused>>

failAllWaiters ==
  /\ td = "closed" /\ td' = "waitersFailed"
  /\ chan' = [p \in Calls |->
                IF chan[p] = None /\ \E i \in PacketIds : waiters[i] = p THEN "lost" ELSE chan[p]]
  /\ waiters' = [i \in PacketIds |-> None]
  /\ UNCHANGED <<ids, store, quota, link, nconn, quotaGen, idGen, pc, myLink, myId,
                 myQuotaGen, myIdGen, result, readVars, connVars, netVars>>

failQuota ==
  /\ td = "waitersFailed" /\ td' = "quotaFailed"
  /\ quota' = fail(quota)
  /\ UNCHANGED <<ids, store, waiters, link, nconn, quotaGen, idGen, callVars, readVars,
                 connVars, netVars>>

clearLink ==
  /\ td = "quotaFailed" /\ td' = "down"
  /\ link' = 0
  /\ UNCHANGED <<sessVars, nconn, quotaGen, idGen, callVars, readVars, connVars, netVars>>

Teardown == LinkLost \/ failAllWaiters \/ failQuota \/ clearLink

-----------------------------------------------------------------------------
(* Publish / publishAcked and Subscribe, Unsubscribe / requestAck.         *)

Goto(p, label) == pc' = [pc EXCEPT ![p] = label]
Return(p, r)   == Goto(p, "done") /\ result' = [result EXCEPT ![p] = r]

\* Publish, Subscribe, Unsubscribe: load the link, fail fast without one.
Start(p) ==
  /\ p \notin Resubs /\ pc[p] = "idle"
  /\ \/ link = 0 /\ Return(p, "refused") /\ UNCHANGED myLink
     \/ /\ link # 0
        /\ myLink' = [myLink EXCEPT ![p] = link]
        /\ Goto(p, IF p \in Publishers THEN "acquire" ELSE "id")
        /\ UNCHANGED result
  /\ UNCHANGED <<sessVars, linkVars, myId, myQuotaGen, myIdGen, chan, readVars, connVars, netVars>>

\* quota.acquire: a permit, ErrConnectionLost, or ctx.Err() while it is parked.
AcquireQuota(p) ==
  /\ pc[p] = "acquire"
  /\ \/ /\ CanAcquire(quota)
        /\ quota' = acquire(quota)
        /\ myQuotaGen' = [myQuotaGen EXCEPT ![p] = quota.gen]
        /\ Goto(p, "id") /\ UNCHANGED result
     \/ ~CanAcquire(quota) /\ Return(p, "refused") /\ UNCHANGED <<quota, myQuotaGen>>
  /\ UNCHANGED <<ids, store, waiters, linkVars, myLink, myId, myIdGen, chan,
                 readVars, connVars, netVars>>

\* The read loop is between ids.ReleaseAt(id) and signalWaiter(id).
Unsignalled(id) == \E l \in Links : rpc[l] \in {"releaseQuota", "signal"} /\ frame[l].id = id
                                     /\ frame[l].type \in {"PUBACK", "PUBREC", "PUBCOMP"}

\* ids.Acquire; when every identifier is taken the call gives its permit back.
AcquireIdentifier(p) ==
  /\ pc[p] = "id"
  /\ \/ \E id \in PacketIds :
          /\ IsNextId(ids, id)
          /\ "reuse" \notin Stalls => ~Unsignalled(id)
          /\ ids' = AcquireId(ids, id)
          /\ myId' = [myId EXCEPT ![p] = id]
          /\ myIdGen' = [myIdGen EXCEPT ![p] = ids.gen]
          /\ Goto(p, IF p \in Publishers THEN "save" ELSE "register")
          /\ UNCHANGED <<quota, result>>
     \/ /\ FreeIds(ids) = {}
        /\ quota' = IF p \in Publishers THEN releaseAt(quota, myQuotaGen[p]) ELSE quota
        /\ Return(p, "refused") /\ UNCHANGED <<ids, myId, myIdGen>>
  /\ UNCHANGED <<store, waiters, linkVars, myLink, myQuotaGen, chan, readVars, connVars, netVars>>

\* store.Save of the PUBLISH, before it is on the wire.  A store of the
\* application's may fail: the identifier and the permit are given back.
SavePublish(p) ==
  /\ pc[p] = "save"
  /\ \/ /\ store' = Save(store, myId[p], "publish", p)
        /\ Goto(p, "register") /\ UNCHANGED result
     \/ /\ Goto(p, "releaseId") /\ result' = [result EXCEPT ![p] = "refused"]
        /\ UNCHANGED store
  /\ UNCHANGED <<ids, quota, waiters, linkVars, myLink, myId, myQuotaGen, myIdGen, chan,
                 readVars, connVars, netVars>>

registerWaiter(p) ==
  /\ pc[p] = "register"
  /\ waiters' = [waiters EXCEPT ![myId[p]] = p]
  /\ Goto(p, "write")
  /\ UNCHANGED <<ids, store, quota, linkVars, myLink, myId, myQuotaGen, myIdGen, chan, result,
                 readVars, connVars, netVars>>

\* writeFrame: the frame is on the wire, or it was refused before the wire
\* (ErrPacketTooLarge), or the socket failed and the link is torn down.
WriteRequest(p) ==
  /\ pc[p] = "write"
  /\ \/ /\ Up(myLink[p]) /\ BrokerReceives(p, myId[p])
        /\ Goto(p, "wait") /\ UNCHANGED <<td, netUp>>
     \/ Goto(p, "unwait") /\ UNCHANGED <<td, netUp, broker, delivered, refused>>
     \/ /\ IF Up(myLink[p]) THEN BeginTeardown ELSE UNCHANGED <<td, netUp>>
        /\ Goto(p, "failed") /\ UNCHANGED <<broker, delivered, refused>>
  /\ UNCHANGED <<sessVars, link, nconn, quotaGen, idGen, myLink, myId, myQuotaGen, myIdGen,
                 chan, result, readVars, connVars, toClient>>

\* Mutant: removeWaiter does not look whose channel is registered.
UnregisteredAny(p) == [waiters EXCEPT ![myId[p]] = None]

Unregistered(p) == IF waiters[myId[p]] = p THEN [waiters EXCEPT ![myId[p]] = None] ELSE waiters

\* The write failed: removeWaiter, once the teardown has returned.
removeWaiter(p) ==
  /\ pc[p] = "unwait" \/ (pc[p] = "failed" /\ Down(myLink[p]))
  /\ waiters' = Unregistered(p)
  /\ Goto(p, IF p \in Publishers THEN "generation" ELSE "releaseId")
  /\ result' = [result EXCEPT ![p] = "refused"]
  /\ UNCHANGED <<ids, store, quota, linkVars, myLink, myId, myQuotaGen, myIdGen, chan,
                 readVars, connVars, netVars>>

Accounting == {"resetStore", "resetIds", "count", "resetQuota"}

\* quota.generation() == quotaGen decides whether this call owns its cleanup.
CheckGeneration(p) ==
  /\ pc[p] = "generation"
  /\ "cleanup" \notin Stalls => cpc \notin Accounting
  /\ Goto(p, IF quota.gen = myQuotaGen[p] THEN "delete" ELSE "done")
  /\ UNCHANGED <<sessVars, linkVars, myLink, myId, myQuotaGen, myIdGen, chan, result,
                 readVars, connVars, netVars>>

DeleteUnsent(p) ==
  /\ pc[p] = "delete"
  /\ store' = Delete(store, myId[p], "publish")
  /\ Goto(p, "releaseId")
  /\ UNCHANGED <<ids, quota, waiters, linkVars, myLink, myId, myQuotaGen, myIdGen, chan, result,
                 readVars, connVars, netVars>>

ReleaseIdentifier(p) ==
  /\ pc[p] = "releaseId"
  /\ ids' = ReleaseIdAt(ids, myId[p], myIdGen[p])
  /\ Goto(p, IF p \in Publishers THEN "releaseQuota" ELSE "done")
  /\ UNCHANGED <<store, quota, waiters, linkVars, myLink, myId, myQuotaGen, myIdGen, chan, result,
                 readVars, connVars, netVars>>

ReleaseQuota(p) ==
  /\ pc[p] = "releaseQuota"
  /\ quota' = releaseAt(quota, myQuotaGen[p])
  /\ Goto(p, "done")
  /\ UNCHANGED <<ids, store, waiters, linkVars, myLink, myId, myQuotaGen, myIdGen, chan, result,
                 readVars, connVars, netVars>>

\* Mutant: a Publish that stops waiting drops its message and frees the rest.
WaitAckDrops(p) ==
  /\ pc[p] = "wait"
  /\ result' = [result EXCEPT ![p] = IF chan[p] \in {None, "lost"} THEN "unacked" ELSE chan[p]]
  /\ waiters' = Unregistered(p)
  /\ Goto(p, IF chan[p] = "ok" THEN "done" ELSE IF p \in Publishers THEN "delete" ELSE "releaseId")
  /\ UNCHANGED <<ids, store, quota, linkVars, myLink, myId, myQuotaGen, myIdGen, chan,
                 readVars, connVars, netVars>>

\* waitAck: the result; or ctx / AckTimeout, after which only the waiter goes.
\* awaitResubscribe has no timeout but gives up when its link stops.
WaitAck(p) ==
  /\ pc[p] = "wait"
  /\ \/ /\ chan[p] # None
        /\ result' = [result EXCEPT ![p] = IF chan[p] = "lost" THEN "unacked" ELSE chan[p]]
        /\ UNCHANGED waiters
     \/ /\ p \in Resubs => ~Up(myLink[p])
        /\ result' = [result EXCEPT ![p] = "unacked"]
        /\ waiters' = Unregistered(p)
  /\ Goto(p, IF p \in Publishers THEN "done" ELSE "releaseId")
  /\ UNCHANGED <<ids, store, quota, linkVars, myLink, myId, myQuotaGen, myIdGen, chan,
                 readVars, connVars, netVars>>

Call(p) ==
  \/ Start(p) \/ AcquireQuota(p) \/ AcquireIdentifier(p) \/ SavePublish(p)
  \/ registerWaiter(p) \/ WriteRequest(p) \/ removeWaiter(p) \/ CheckGeneration(p)
  \/ DeleteUnsent(p) \/ ReleaseIdentifier(p) \/ ReleaseQuota(p) \/ WaitAck(p)

-----------------------------------------------------------------------------
(* readLoop: handleAck, completeOutbound, handlePubrec, handleSuback.      *)

RGoto(l, label) == rpc' = [rpc EXCEPT ![l] = label]

readFrame(l) ==
  /\ rpc[l] = "read"
  /\ \/ /\ l = nconn /\ toClient # << >>
        /\ frame' = [frame EXCEPT ![l] = Head(toClient)]
        /\ toClient' = Tail(toClient)
        /\ RGoto(l, "stopping?")
     \/ ~Up(l) /\ RGoto(l, "exit") /\ UNCHANGED <<frame, toClient>>
  /\ UNCHANGED <<sessVars, linkVars, callVars, connVars, netUp, broker, delivered, refused>>

\* A frame that surfaces after the link stopped is dropped and the loop exits.
checkStopping(l) ==
  /\ rpc[l] = "stopping?"
  /\ RGoto(l, IF ~Up(l) THEN "exit"
              ELSE IF frame[l].type \in {"SUBACK", "UNSUBACK"} THEN "signal" ELSE "contains")
  /\ UNCHANGED <<sessVars, linkVars, callVars, frame, connVars, netVars>>

\* The stored kind an acknowledgement completes.
AckKind(f) == IF f.type = "PUBCOMP" THEN "pubrel" ELSE "publish"

\* storeContains: PUBACK and PUBCOMP for an unknown identifier are ignored,
\* an unknown or repeated PUBREC is answered with a PUBREL all the same.
storeContains(l) ==
  /\ rpc[l] = "contains"
  /\ RGoto(l, LET f == frame[l] IN
              IF Contains(store, f.id, AckKind(f))
              THEN IF f.type = "PUBREC" /\ f.ok THEN "savePubrel" ELSE "delete"
              ELSE IF f.type = "PUBREC" THEN "sendPubrel" ELSE "read")
  /\ UNCHANGED <<sessVars, linkVars, callVars, frame, connVars, netVars>>

deleteAcked(l) ==
  /\ rpc[l] = "delete"
  /\ store' = Delete(store, frame[l].id, AckKind(frame[l]))
  /\ RGoto(l, "releaseId")
  /\ UNCHANGED <<ids, quota, waiters, linkVars, callVars, frame, connVars, netVars>>

releaseAckedId(l) ==
  /\ rpc[l] = "releaseId"
  /\ ids' = ReleaseIdAt(ids, frame[l].id, idGen[l])
  /\ RGoto(l, "releaseQuota")
  /\ UNCHANGED <<store, quota, waiters, linkVars, callVars, frame, connVars, netVars>>

releaseAckedQuota(l) ==
  /\ rpc[l] = "releaseQuota"
  /\ quota' = releaseAt(quota, quotaGen[l])
  /\ RGoto(l, "signal")
  /\ UNCHANGED <<ids, store, waiters, linkVars, callVars, frame, connVars, netVars>>

FrameClass(f) == CASE f.type = "SUBACK" -> "suback" [] f.type = "UNSUBACK" -> "unsuback"
                   [] OTHER -> "publish"

\* Mutant: signalWaiter resolves whatever waiter holds the identifier.
signalWaiterAnyClass(l) ==
  /\ rpc[l] = "signal"
  /\ LET w == waiters[frame[l].id] IN
     IF w = None THEN UNCHANGED <<waiters, chan>>
     ELSE /\ waiters' = [waiters EXCEPT ![frame[l].id] = None]
          /\ chan' = [chan EXCEPT ![w] = IF frame[l].ok THEN "ok" ELSE "reason"]
  /\ RGoto(l, "read")
  /\ UNCHANGED <<ids, store, quota, linkVars, pc, myLink, myId, myQuotaGen, myIdGen, result,
                 frame, connVars, netVars>>

\* signalWaiter: only a waiter of the acknowledgement's own class is resolved.
signalWaiter(l) ==
  /\ rpc[l] = "signal"
  /\ LET f == frame[l]
         w == waiters[f.id]
     IN  IF w # None /\ Class(w) = FrameClass(f)
         THEN /\ waiters' = [waiters EXCEPT ![f.id] = None]
              /\ chan' = [chan EXCEPT ![w] = IF @ # None THEN @ ELSE IF f.ok THEN "ok" ELSE "reason"]
         ELSE UNCHANGED <<waiters, chan>>
  /\ RGoto(l, "read")
  /\ UNCHANGED <<ids, store, quota, linkVars, pc, myLink, myId, myQuotaGen, myIdGen, result,
                 frame, connVars, netVars>>

\* handlePubrec: the PUBLISH is superseded by its PUBREL, in two store calls.
savePubrel(l) ==
  /\ rpc[l] = "savePubrel"
  /\ store' = Save(store, frame[l].id, "pubrel", None)
  /\ RGoto(l, "deletePublish")
  /\ UNCHANGED <<ids, quota, waiters, linkVars, callVars, frame, connVars, netVars>>

\* Mutant: the PUBLISH stays stored next to its PUBREL.
deletePublishSkipped(l) ==
  /\ rpc[l] = "deletePublish"
  /\ RGoto(l, "sendPubrel")
  /\ UNCHANGED <<sessVars, linkVars, callVars, frame, connVars, netVars>>

deletePublish(l) ==
  /\ rpc[l] = "deletePublish"
  /\ store' = Delete(store, frame[l].id, "publish")
  /\ RGoto(l, "sendPubrel")
  /\ UNCHANGED <<ids, quota, waiters, linkVars, callVars, frame, connVars, netVars>>

\* sendAck(PUBREL); a failed write tears the link down and the loop reads on.
sendPubrel(l) ==
  /\ rpc[l] = "sendPubrel"
  /\ \/ Up(l) /\ BrokerReceivesPubrel(frame[l].id) /\ UNCHANGED <<td, netUp>>
     \/ /\ IF Up(l) THEN BeginTeardown ELSE UNCHANGED <<td, netUp>>
        /\ UNCHANGED <<broker, toClient>>
  /\ RGoto(l, "read")
  /\ UNCHANGED <<sessVars, link, nconn, quotaGen, idGen, callVars, frame, connVars, delivered, refused>>

ReadLoop(l) ==
  \/ readFrame(l) \/ checkStopping(l) \/ storeContains(l) \/ deleteAcked(l)
  \/ releaseAckedId(l) \/ releaseAckedQuota(l) \/ signalWaiter(l)
  \/ savePubrel(l) \/ deletePublish(l) \/ sendPubrel(l)

-----------------------------------------------------------------------------
(* Connect: applySession, replaySession, replaySubscriptions, publication. *)

\* The goroutines a reconnect must not overtake when Stalls leaves them out.
NobodyStalled ==
  /\ "publish" \notin Stalls =>
       \A p \in Calls : pc[p] \notin {"acquire", "id", "save", "register"}
  /\ "cleanup" \notin Stalls =>
       \A p \in Publishers : pc[p] \notin {"delete", "releaseId", "releaseQuota"}
  /\ "dispatch" \notin Stalls =>
       \A l \in Links : rpc[l] \in {"off", "read", "stopping?", "exit"}

\* connMu is held and no link is live: dial and CONNECT/CONNACK succeed.  A
\* Clean Start answered with Session Present is refused, which changes nothing.
Connack(sessionPresent, rm) ==
  /\ cpc = "idle" /\ link = 0 /\ nconn < MaxLinks
  /\ CleanStart => ~sessionPresent
  /\ NobodyStalled
  /\ nconn' = nconn + 1 /\ td' = "up" /\ netUp' = TRUE /\ toClient' = << >>
  /\ broker' = IF sessionPresent THEN {[e EXCEPT !.stage = "rec"] : e \in Remembered} ELSE {}
  /\ recvMax' = rm
  /\ cpc' = IF sessionPresent THEN "count" ELSE "resetStore"
  /\ UNCHANGED <<sessVars, link, quotaGen, idGen, callVars, readVars, counted, replay, resubs,
                 delivered, refused>>

\* Mutant: a session the broker did not resume keeps its stored messages.
resetStoreSkipped ==
  /\ cpc = "resetStore" /\ cpc' = "resetIds"
  /\ UNCHANGED <<sessVars, linkVars, callVars, readVars, recvMax, counted, replay, resubs, netVars>>

resetStore ==
  /\ cpc = "resetStore" /\ cpc' = "resetIds"
  /\ store' = ResetStore(store)
  /\ UNCHANGED <<ids, quota, waiters, linkVars, callVars, readVars, recvMax, counted,
                 replay, resubs, netVars>>

resetIds ==
  /\ cpc = "resetIds" /\ cpc' = "count"
  /\ ids' = ResetIds(ids)
  /\ UNCHANGED <<store, quota, waiters, linkVars, callVars, readVars, recvMax, counted,
                 replay, resubs, netVars>>

inflightPermits ==
  /\ cpc = "count" /\ cpc' = "resetQuota"
  /\ counted' = Cardinality(Inflight(store))
  /\ UNCHANGED <<sessVars, linkVars, callVars, readVars, recvMax, replay, resubs, netVars>>

\* Mutant: the replayed messages are not counted.
QuotaSeedUncounted == recvMax

\* max(quotaSize - inflightPermits, 0)
QuotaSeed == IF recvMax > counted THEN recvMax - counted ELSE 0

\* quota.reset, then the link captures the generations it will release under.
resetQuota ==
  /\ cpc = "resetQuota" /\ cpc' = "load"
  /\ quota' = reset(quota, QuotaSeed)
  /\ quotaGen' = [quotaGen EXCEPT ![nconn] = quota'.gen]
  /\ idGen' = [idGen EXCEPT ![nconn] = ids.gen]
  /\ UNCHANGED <<ids, store, waiters, link, nconn, td, callVars, readVars, recvMax,
                 counted, replay, resubs, netVars>>

\* What replaySession and replaySubscriptions work through.
loadReplay ==
  /\ cpc = "load" /\ cpc' = "replay"
  /\ replay' = Inflight(store)
  /\ resubs' \in SUBSET Filters        \* the registry, see Subscriptions
  /\ UNCHANGED <<sessVars, linkVars, callVars, readVars, recvMax, counted, netVars>>

\* One writeFrame of replaySession, in ascending Seq order.
replayOne(m) ==
  /\ cpc = "replay" /\ First(replay, m)
  /\ replay' = replay \ {m}
  /\ \/ /\ Up(nconn)
        /\ \/ /\ m.kind = "publish" /\ BrokerReceives(m.msg, m.id) /\ UNCHANGED toClient
           \/ m.kind = "pubrel" /\ BrokerReceivesPubrel(m.id) /\ UNCHANGED <<delivered, refused>>
        /\ UNCHANGED <<td, netUp>>
     \/ Up(nconn) /\ UNCHANGED <<td, netVars>>              \* too large for this broker
     \/ BeginTeardown /\ UNCHANGED <<toClient, broker, delivered, refused>>
  /\ UNCHANGED <<sessVars, link, nconn, quotaGen, idGen, callVars, readVars, cpc, recvMax,
                 counted, resubs>>

\* Connect itself takes the steps of a replayed SUBSCRIBE up to the write, and
\* cleans up after a failed one; awaitResubscribe takes the rest.
Resubscribing(p) ==
  \/ pc[p] \in {"id", "register", "write", "failed", "unwait"}
  \/ pc[p] = "releaseId" /\ result[p] = "refused"

\* replaySubscriptions: hand the next filter to the request steps above, once
\* the previous one is on the wire (or given up).
resubscribe(f) ==
  /\ cpc = "replay" /\ replay = {} /\ f \in resubs
  /\ \A g \in Filters : ~Resubscribing(<<g, nconn>>)
  /\ resubs' = resubs \ {f}
  /\ Goto(<<f, nconn>>, "id")
  /\ myLink' = [myLink EXCEPT ![<<f, nconn>>] = nconn]
  /\ UNCHANGED <<sessVars, linkVars, myId, myQuotaGen, myIdGen, chan, result, readVars,
                 cpc, recvMax, counted, replay, netVars>>

\* The link is published and its loops start, unless the replay killed it.
publishLink ==
  /\ cpc = "replay" /\ replay = {} /\ resubs = {}
  /\ \A g \in Filters : ~Resubscribing(<<g, nconn>>)
  /\ cpc' = "idle"
  /\ IF Up(nconn) THEN link' = nconn /\ RGoto(nconn, "read") ELSE UNCHANGED <<link, rpc>>
  /\ UNCHANGED <<sessVars, nconn, td, quotaGen, idGen, callVars, frame, recvMax, counted,
                 replay, resubs, netVars>>

Connect ==
  \/ \E sp \in BOOLEAN, rm \in RecvMaxes : Connack(sp, rm)
  \/ resetStore \/ resetIds \/ inflightPermits \/ resetQuota \/ loadReplay
  \/ \E m \in replay : replayOne(m)
  \/ \E f \in Filters : resubscribe(f)
  \/ publishLink

-----------------------------------------------------------------------------
Init ==
  /\ ids = NewIds /\ store = NewStore /\ quota = newQuota(0)
  /\ waiters = [i \in PacketIds |-> None]
  /\ link = 0 /\ nconn = 0 /\ td = "down"
  /\ quotaGen = [l \in Links |-> 0] /\ idGen = [l \in Links |-> 0]
  /\ pc = [p \in Calls |-> "idle"] /\ myLink = [p \in Calls |-> 0]
  /\ myId = [p \in Calls |-> 0]
  /\ myQuotaGen = [p \in Calls |-> 0] /\ myIdGen = [p \in Calls |-> 0]
  /\ chan = [p \in Calls |-> None] /\ result = [p \in Calls |-> None]
  /\ rpc = [l \in Links |-> "off"] /\ frame = [l \in Links |-> NoFrame]
  /\ cpc = "idle" /\ recvMax = 0 /\ counted = 0 /\ replay = {} /\ resubs = {}
  /\ netUp = FALSE /\ toClient = << >>
  /\ broker = {[id |-> i, msg |-> Previous, stage |-> "rec", ok |-> TRUE] : i \in LeftoverIds}
  /\ delivered = [p \in Publishers \cup Requests |-> 0] /\ refused = {}

Next ==
  \/ \E p \in Calls : Call(p)
  \/ \E l \in Links : ReadLoop(l)
  \/ Teardown
  \/ Connect
  \/ PeerVanishes
  \/ \E e \in broker : BrokerAnswers(e)

Spec == Init /\ [][Next]_vars

\* A goroutine inside a call keeps running, but neither its context nor
\* AckTimeout is relied upon: a parked acquire or an unresolved waiter waits.
Proceed(p) ==
  /\ pc[p] # "idle"
  /\ pc[p] = "acquire" => CanAcquire(quota) \/ quota.failed
  /\ pc[p] = "wait" => chan[p] # None \/ p \in Resubs
  /\ Call(p)

\* The Go scheduler runs every runnable goroutine: the callers, the read
\* loops, the goroutine in teardownLink and the one in Connect (which need
\* not dial again).  Nothing is assumed of the network or the broker.
Fairness ==
  /\ \A p \in Calls : WF_vars(Proceed(p))
  /\ \A l \in Links : WF_vars(ReadLoop(l))
  /\ WF_vars(failAllWaiters \/ failQuota \/ clearLink)
  /\ WF_vars(cpc # "idle" /\ Connect)

FairSpec == Spec /\ Fairness

-----------------------------------------------------------------------------
CallLabels == {"idle", "acquire", "id", "save", "register", "write", "failed", "unwait",
               "generation", "delete", "releaseId", "releaseQuota", "wait", "done"}
ReadLabels == {"off", "read", "stopping?", "contains", "delete", "releaseId", "releaseQuota",
               "signal", "savePubrel", "deletePublish", "sendPubrel", "exit"}
ConnectLabels == Accounting \cup {"idle", "load", "replay"}
TeardownStages == {"up", "closed", "waitersFailed", "quotaFailed", "down"}
StoredMessages == [id : PacketIds, kind : {"publish"}, msg : Calls, seq : Nat]
                    \cup [id : PacketIds, kind : {"pubrel"}, msg : {None}, seq : Nat]
Stores == [msgs : SUBSET StoredMessages, seq : Nat]

\* Every variable holds a value its Go counterpart can hold; in particular
\* the send quota of session.go never goes negative.
TypeOK ==
  /\ ids \in IdAllocators /\ quota \in Quotas
  /\ store \in Stores
  /\ waiters \in [PacketIds -> Calls \cup {None}]
  /\ link \in 0 .. MaxLinks /\ nconn \in 0 .. MaxLinks /\ td \in TeardownStages
  /\ quotaGen \in [Links -> Nat] /\ idGen \in [Links -> Nat]
  /\ pc \in [Calls -> CallLabels] /\ myLink \in [Calls -> 0 .. MaxLinks]
  /\ myId \in [Calls -> 0 .. MaxId]
  /\ myQuotaGen \in [Calls -> Nat] /\ myIdGen \in [Calls -> Nat]
  /\ chan \in [Calls -> {None, "ok", "reason", "lost"}]
  /\ result \in [Calls -> {None, "ok", "reason", "unacked", "refused"}]
  /\ rpc \in [Links -> ReadLabels] /\ frame \in [Links -> Acks \cup {NoFrame}]
  /\ cpc \in ConnectLabels /\ recvMax \in Nat /\ counted \in Nat
  /\ replay \subseteq StoredMessages /\ resubs \subseteq Filters
  /\ netUp \in BOOLEAN /\ toClient \in Seq(Acks)
  /\ broker \subseteq Entries /\ delivered \in [Publishers \cup Requests -> 0 .. 2]
  /\ refused \subseteq Publishers

\* teardownLink poisons the shared quota before it clears the link pointer,
\* so a stale teardown never leaves a failed quota behind a link that reports
\* IsConnected: every QoS>0 publish on it would be rejected for good.
HealthyLinkHasHealthyQuota == link # 0 /\ td = "up" => ~quota.failed

\* MQTT 4.9: the QoS>0 PUBLISHes the broker has not answered finally never
\* exceed the Receive Maximum of the connection, replayed ones included.
Unanswered == {e \in broker : e.msg \in Publishers}
ReceiveMaximumRespected == netUp => Cardinality(Unanswered) <= recvMax

\* session.go: "avail never transiently exceeds the ceiling": the semaphore
\* never offers more permits than the Receive Maximum it enforces.
CeilingRespected == cpc \in {"idle", "load", "replay"} => quota.avail <= recvMax

\* A permit is free, or belongs to one exchange: a publish that has not saved
\* its message yet, a stored message, a failed publish that has not given it
\* back, or a completed one the read loop has not credited.  None leaks and
\* none is credited twice, across acks, timeouts, failed writes and reconnects.
PermitHolders ==
  {p \in Publishers : myQuotaGen[p] = quota.gen
                      /\ pc[p] \in {"id", "save", "releaseId", "releaseQuota"}}
Crediting == {l \in Links : rpc[l] \in {"releaseId", "releaseQuota"} /\ quotaGen[l] = quota.gen}
PermitsConserved ==
  cpc \in {"idle", "load", "replay"} /\ nconn > 0 =>
    quota.avail + Cardinality({m.id : m \in Inflight(store)})
      + Cardinality(PermitHolders) + Cardinality(Crediting) = recvMax

\* publish.go: "at most one lost permit per occurrence, never an over-credit
\* past Receive Maximum": whatever race a cleanup or a read loop loses, free
\* permits and exchanges together never exceed the ceiling.
NoOverCredit ==
  cpc \in {"idle", "load", "replay"} /\ nconn > 0 =>
    quota.avail + Cardinality({m.id : m \in Inflight(store)}) <= recvMax

\* session.go: "freeing it here would let two concurrent exchanges share one
\* identifier on the wire".  An identifier that is on the wire is in use, and
\* is in use for one exchange only.
NoSharedIdentifier ==
  /\ \A m, n \in Inflight(store) : m.id = n.id /\ m.kind = n.kind => m = n
  /\ cpc \notin Accounting => \A m \in Inflight(store) : m.id \in ids.used
  /\ \A e, f \in Unanswered : e.id = f.id => e = f
  /\ netUp /\ cpc = "idle" => \A e \in Unanswered : e.id \in ids.used

\* A Publish, Subscribe or Unsubscribe that reports success had its own packet
\* accepted by the broker: no acknowledgement of another exchange, of an
\* earlier holder of the identifier or of an earlier connection completes it.
SuccessMeansDelivered == \A p \in Publishers \cup Requests : result[p] = "ok" => delivered[p] > 0

\* QoS 2: no message is delivered twice, however often it is replayed.
ExactlyOnce == \A p \in Qos2 : delivered[p] <= 1

\* A message whose Publish gave up waiting (timeout, cancelled context, lost
\* connection) was answered by the broker or is still stored for replay, as
\* long as the session it belongs to has not been discarded.
NothingLost ==
  \A p \in Publishers : pc[p] \in {"wait", "done"} /\ result[p] \in {None, "unacked"}
                        /\ myIdGen[p] = ids.gen /\ cpc # "resetIds" =>
    delivered[p] > 0 \/ p \in refused \/ \E m \in store.msgs : m.kind = "publish" /\ m.msg = p

\* A call that waits for its acknowledgement has its channel registered, or
\* its result waiting in it: no other goroutine strands it until AckTimeout.
NobodyStranded ==
  \A p \in Calls : pc[p] = "wait" /\ chan[p] = None /\ Up(myLink[p]) => waiters[myId[p]] = p

\* teardownLink frees everybody: a call whose link is gone returns, even one
\* with neither a deadline nor an AckTimeout, parked in quota.acquire or
\* waiting for an acknowledgement that will never come.
LostLinkFreesCalls ==
  \A p \in Calls : pc[p] \notin {"idle", "done"} /\ ~Up(myLink[p]) ~> pc[p] = "done"

=============================================================================
