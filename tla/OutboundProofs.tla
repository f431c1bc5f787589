--------------------------- MODULE OutboundProofs ---------------------------
(***************************************************************************)
(* Type correctness of the outbound half, and the order in which teardown  *)
(* and reconnect touch the shared quota, for any number of calls,          *)
(* identifiers and links and with every race of Stalls allowed.            *)
(***************************************************************************)
EXTENDS Outbound, FiniteSetTheorems, TLAPS

-----------------------------------------------------------------------------
(* session.go: the methods keep the types of their records.                *)

\* idAllocator: Acquire and its wrap-around, ReleaseAt and Reset.
LEMMA IdsTypes ==
  ASSUME NEW a \in IdAllocators, NEW id \in PacketIds, NEW gen
  PROVE  /\ AcquireId(a, id) \in IdAllocators
         /\ ReleaseIdAt(a, id, gen) \in IdAllocators
         /\ ResetIds(a) \in IdAllocators
<1>1. (id + 1) % packetIDSpace \in 0 .. MaxId
  BY MaxIdAssumption, SMTT(60) DEF PacketIds, packetIDSpace
<1>2. AcquireId(a, id) \in IdAllocators
  BY <1>1, Zenon DEF AcquireId, IdAllocators
<1>3. ReleaseIdAt(a, id, gen) \in IdAllocators
  BY Zenon DEF ReleaseIdAt, IdAllocators
<1>4. ResetIds(a) \in IdAllocators
  BY MaxIdAssumption, SMTT(60) DEF ResetIds, IdAllocators
<1> QED BY <1>2, <1>3, <1>4, Zenon

\* quota: a permit is granted only from a positive count.
LEMMA QuotaTypes ==
  ASSUME NEW q \in Quotas, NEW gen, NEW n \in Nat
  PROVE  /\ CanAcquire(q) => acquire(q) \in Quotas /\ acquire(q).failed = q.failed
         /\ releaseAt(q, gen) \in Quotas /\ releaseAt(q, gen).failed = q.failed
         /\ reset(q, n) \in Quotas /\ reset(q, n).failed = FALSE
         /\ fail(q) \in Quotas
<1> USE DEF Quotas
<1>1. CanAcquire(q) => acquire(q) \in Quotas /\ acquire(q).failed = q.failed
  BY SMTT(60) DEF CanAcquire, acquire
<1>2. releaseAt(q, gen) \in Quotas /\ releaseAt(q, gen).failed = q.failed
  BY SMTT(60) DEF releaseAt
<1>3. reset(q, n) \in Quotas /\ reset(q, n).failed = FALSE
  BY SMTT(60) DEF reset
<1>4. fail(q) \in Quotas
  BY Zenon DEF fail
<1> QED BY <1>1, <1>2, <1>3, <1>4, Zenon

\* memStore.Save keeps well-formed entries, finitely many.
LEMMA StoreTypes ==
  ASSUME NEW s \in Stores, IsFiniteSet(s.msgs), NEW id \in PacketIds, NEW kind, NEW msg,
         \/ kind = "publish" /\ msg \in Calls
         \/ kind = "pubrel" /\ msg = None
  PROVE  Save(s, id, kind, msg) \in Stores /\ IsFiniteSet(Save(s, id, kind, msg).msgs)
<1> DEFINE prev == Entry(s, id, kind)
           n    == IF prev = {} THEN s.seq + 1 ELSE (CHOOSE m \in prev : TRUE).seq
           new  == [id |-> id, kind |-> kind, msg |-> msg, seq |-> n]
           msgs == (s.msgs \ prev) \cup {new}
<1>1. n \in Nat
  BY SMTT(60) DEF Entry, Stores, StoredMessages
<1>2. new \in StoredMessages
  BY <1>1, Zenon DEF StoredMessages
<1>3. IsFiniteSet(msgs)
  BY FS_Difference, FS_AddElement, Zenon
<1>4. Save(s, id, kind, msg) = [msgs |-> msgs, seq |-> IF prev = {} THEN n ELSE s.seq]
  BY Zenon DEF Save
<1> HIDE DEF n, new
<1> QED BY <1>1, <1>2, <1>3, <1>4, SMTT(60) DEF Stores

\* memStore.Delete does, too.
LEMMA DeleteTypes ==
  ASSUME NEW s \in Stores, IsFiniteSet(s.msgs), NEW id, NEW kind
  PROVE  Delete(s, id, kind) \in Stores /\ IsFiniteSet(Delete(s, id, kind).msgs)
<1>1. Delete(s, id, kind) \in Stores /\ Delete(s, id, kind).msgs = s.msgs \ Entry(s, id, kind)
  BY Zenon DEF Delete, Stores
<1> QED BY <1>1, FS_Difference, Zenon

-----------------------------------------------------------------------------
(* The broker's side of a write.                                           *)

\* An acknowledgement is built from a type, an identifier and a verdict.
LEMMA AckType ==
  ASSUME NEW type \in {"PUBACK", "PUBREC", "PUBCOMP", "SUBACK", "UNSUBACK"}, NEW id \in PacketIds,
         NEW ok \in BOOLEAN
  PROVE  Ack(type, id, ok) \in Acks
BY Zenon DEF Ack, Acks

\* An exchange keeps its type when its stage changes.
LEMMA EntryTypes ==
  /\ \A e \in Entries, stage \in {"pub", "rec"} : [e EXCEPT !.stage = stage] \in Entries
  /\ \A id \in PacketIds, p \in Calls \cup {Previous}, stage \in {"pub", "rec"}, ok \in BOOLEAN :
       [id |-> id, msg |-> p, stage |-> stage, ok |-> ok] \in Entries
BY Zenon DEF Entries

\* A PUBLISH, SUBSCRIBE or UNSUBSCRIBE leaves the broker well formed.
LEMMA BrokerReceivesTypes ==
  ASSUME TypeOK, NEW p \in Calls, NEW id \in PacketIds, BrokerReceives(p, id)
  PROVE  /\ broker' \subseteq Entries /\ refused' \subseteq Publishers
         /\ delivered' \in [Publishers \cup Requests -> 0 .. 2]
<1>1. CASE ~netUp
  BY <1>1, Zenon DEF BrokerReceives, TypeOK
<1>2. CASE netUp /\ IsResend(p, id)
  <2> DEFINE again(e) == IF e.id = id /\ e \in Remembered THEN [e EXCEPT !.stage = "pub"] ELSE e
  <2>1. \A e \in broker : again(e) \in Entries
    BY EntryTypes, Zenon DEF TypeOK
  <2>2. broker' = {again(e) : e \in broker} /\ UNCHANGED <<delivered, refused>>
    BY <1>2, Zenon DEF BrokerReceives
  <2> HIDE DEF again
  <2> QED BY <2>1, <2>2, Zenon DEF TypeOK
<1>3. CASE netUp /\ ~IsResend(p, id)
  <2>1. PICK ok \in BOOLEAN :
          /\ broker' = broker \cup {[id |-> id, msg |-> p, stage |-> "pub", ok |-> ok]}
          /\ delivered' = IF ok /\ p \in Publishers \cup Requests
                          THEN [delivered EXCEPT ![p] = IF @ < 2 THEN @ + 1 ELSE @] ELSE delivered
          /\ refused' = IF ok THEN refused ELSE refused \cup ({p} \cap Publishers)
    BY <1>3, Zenon DEF BrokerReceives
  <2>2. broker' \subseteq Entries
    BY <2>1, EntryTypes, SMTT(60) DEF TypeOK
  <2>3. delivered' \in [Publishers \cup Requests -> 0 .. 2]
    BY <2>1, SMTT(60) DEF TypeOK
  <2>4. refused' \subseteq Publishers
    BY <2>1, Zenon DEF TypeOK
  <2> QED BY <2>2, <2>3, <2>4, Zenon
<1> QED BY <1>1, <1>2, <1>3, Zenon

\* A PUBREL is answered with one PUBCOMP.
LEMMA BrokerReceivesPubrelTypes ==
  ASSUME TypeOK, NEW id \in PacketIds, BrokerReceivesPubrel(id)
  PROVE  broker' \subseteq Entries /\ toClient' \in Seq(Acks)
<1> DEFINE known == {e \in Remembered : e.id = id}
<1>1. CASE ~netUp
  BY <1>1, Zenon DEF BrokerReceivesPubrel, TypeOK
<1>2. CASE netUp
  <2>1. Ack("PUBCOMP", id, known # {}) \in Acks
    BY AckType, Zenon
  <2>2. broker' = broker \ known /\ toClient' = Append(toClient, Ack("PUBCOMP", id, known # {}))
    BY <1>2, Zenon DEF BrokerReceivesPubrel
  <2> HIDE DEF known
  <2> QED BY <2>1, <2>2, SMTT(60) DEF TypeOK
<1> QED BY <1>1, <1>2, Zenon

\* Closing the socket leaves the teardown at one of its stages.
LEMMA BeginTeardownTypes ==
  ASSUME TypeOK, BeginTeardown PROVE td' \in TeardownStages /\ netUp' \in BOOLEAN
BY Zenon DEF BeginTeardown, TypeOK, TeardownStages

-----------------------------------------------------------------------------
(* Type correctness.  A call past ids.Acquire has an identifier, a read    *)
(* loop past readFrame has a frame, and the store is finite: without these *)
(* three facts TypeOK is not inductive.                                    *)

Identified == {"save", "register", "write", "failed", "unwait", "generation", "delete",
               "releaseId", "releaseQuota", "wait"}

WellFormed ==
  /\ IsFiniteSet(store.msgs)
  /\ \A p \in Calls : pc[p] \in Identified => myId[p] \in PacketIds
  /\ \A l \in Links : rpc[l] \notin {"off", "read", "exit"} => frame[l] \in Acks

\* The type of the variables a call may change; the others are untouched.
LEMMA CallTypes ==
  ASSUME TypeOK, WellFormed, NEW p \in Calls, Call(p) PROVE (TypeOK /\ WellFormed)'
<1> USE DEF TypeOK, WellFormed, Identified, CallLabels, Goto, Return,
            sessVars, linkVars, readVars, connVars, netVars
<1>1. CASE Start(p)
  <2>1. /\ pc' \in [Calls -> CallLabels] /\ myLink' \in [Calls -> 0 .. MaxLinks]
        /\ result' \in [Calls -> {None, "ok", "reason", "unacked", "refused"}]
        /\ \A q \in Calls : pc'[q] \in Identified => myId[q] \in PacketIds
    <3>1. CASE link = 0
      BY <1>1, <3>1, ZenonT(60) DEF Start
    <3>2. CASE link # 0
      <4>1. myLink' = [myLink EXCEPT ![p] = link] /\ result' = result
            /\ pc' = [pc EXCEPT ![p] = IF p \in Publishers THEN "acquire" ELSE "id"]
        BY <1>1, <3>2, Zenon DEF Start
      <4>2. myLink' \in [Calls -> 0 .. MaxLinks]
        BY <4>1, Zenon
      <4>3. pc' \in [Calls -> CallLabels]
            /\ \A q \in Calls : pc'[q] \in Identified => myId[q] \in PacketIds
        BY <4>1, Zenon
      <4> QED BY <4>1, <4>2, <4>3, Zenon
    <3> QED BY <3>1, <3>2, Zenon
  <2> QED BY <1>1, <2>1, Zenon DEF Start
<1>2. CASE AcquireQuota(p)
  <2>1. quota.gen \in Nat /\ quota' \in Quotas
    BY <1>2, QuotaTypes, ZenonT(60) DEF AcquireQuota, Quotas
  <2> QED BY <1>2, <2>1, ZenonT(60) DEF AcquireQuota
<1>3. CASE AcquireIdentifier(p)
  <2>1. ids.gen \in Nat /\ PacketIds \subseteq 0 .. MaxId
    BY MaxIdAssumption, SMTT(60) DEF IdAllocators, PacketIds
  <2>2. ASSUME NEW id \in PacketIds, ids' = AcquireId(ids, id),
               myId' = [myId EXCEPT ![p] = id], myIdGen' = [myIdGen EXCEPT ![p] = ids.gen],
               Goto(p, IF p \in Publishers THEN "save" ELSE "register"), UNCHANGED <<quota, result>>
        PROVE  (TypeOK /\ WellFormed)'
    <3>1. ids' \in IdAllocators
      BY <2>2, IdsTypes, Zenon
    <3> QED BY <1>3, <2>1, <2>2, <3>1, Zenon DEF AcquireIdentifier
  <2>3. ASSUME Return(p, "refused"), UNCHANGED <<ids, myId, myIdGen>>,
               quota' = IF p \in Publishers THEN releaseAt(quota, myQuotaGen[p]) ELSE quota
        PROVE  (TypeOK /\ WellFormed)'
    <3>1. quota' \in Quotas
      BY <2>3, QuotaTypes, Zenon
    <3> QED BY <1>3, <2>3, <3>1, Zenon DEF AcquireIdentifier
  <2> QED BY <1>3, <2>2, <2>3, Zenon DEF AcquireIdentifier
<1>4. CASE SavePublish(p)
  <2>1. store' \in Stores /\ IsFiniteSet(store'.msgs)
    BY <1>4, StoreTypes, SMTT(60) DEF SavePublish
  <2> QED BY <1>4, <2>1, Zenon DEF SavePublish
<1>5. CASE registerWaiter(p)
  BY <1>5, Zenon DEF registerWaiter
<1>6. CASE WriteRequest(p)
  <2>1. broker' \subseteq Entries /\ refused' \subseteq Publishers
        /\ delivered' \in [Publishers \cup Requests -> 0 .. 2]
    BY <1>6, BrokerReceivesTypes, Zenon DEF WriteRequest
  <2>2. td' \in TeardownStages /\ netUp' \in BOOLEAN
    BY <1>6, BeginTeardownTypes, Zenon DEF WriteRequest
  <2>3. pc' \in [Calls -> CallLabels]
        /\ \A q \in Calls : pc'[q] \in Identified => myId[q] \in PacketIds
    BY <1>6, Zenon DEF WriteRequest
  <2> QED BY <1>6, <2>1, <2>2, <2>3, Zenon DEF WriteRequest
<1>7. CASE removeWaiter(p)
  BY <1>7, Zenon DEF removeWaiter, Unregistered
<1>8. CASE CheckGeneration(p)
  BY <1>8, Zenon DEF CheckGeneration
<1>9. CASE DeleteUnsent(p)
  <2>1. store' \in Stores /\ IsFiniteSet(store'.msgs)
    BY <1>9, DeleteTypes, Zenon DEF DeleteUnsent
  <2> QED BY <1>9, <2>1, Zenon DEF DeleteUnsent
<1>10. CASE ReleaseIdentifier(p)
  <2>1. ids' \in IdAllocators
    BY <1>10, IdsTypes, Zenon DEF ReleaseIdentifier
  <2> QED BY <1>10, <2>1, Zenon DEF ReleaseIdentifier
<1>11. CASE ReleaseQuota(p)
  <2>1. quota' \in Quotas
    BY <1>11, QuotaTypes, Zenon DEF ReleaseQuota
  <2> QED BY <1>11, <2>1, Zenon DEF ReleaseQuota
<1>12. CASE WaitAck(p)
  BY <1>12, ZenonT(60) DEF WaitAck, Unregistered
<1> QED BY <1>1, <1>2, <1>3, <1>4, <1>5, <1>6, <1>7, <1>8, <1>9, <1>10, <1>11, <1>12, Zenon DEF Call

\* The same for a step of a link's read loop.
LEMMA ReadLoopTypes ==
  ASSUME TypeOK, WellFormed, NEW l \in Links, ReadLoop(l) PROVE (TypeOK /\ WellFormed)'
<1> USE DEF TypeOK, WellFormed, ReadLabels, RGoto, sessVars, linkVars, callVars, connVars, netVars
<1>0. rpc[l] \notin {"off", "read", "exit"} => frame[l] \in Acks /\ frame[l].id \in PacketIds
  BY Zenon DEF Acks
<1>1. CASE readFrame(l)
  <2>1. CASE toClient # << >> /\ frame' = [frame EXCEPT ![l] = Head(toClient)]
             /\ toClient' = Tail(toClient) /\ RGoto(l, "stopping?")
    <3>1. Head(toClient) \in Acks /\ toClient' \in Seq(Acks)
      BY <2>1, SMTT(60)
    <3> QED BY <1>1, <2>1, <3>1, Zenon DEF readFrame
  <2>2. CASE RGoto(l, "exit") /\ UNCHANGED <<frame, toClient>>
    BY <1>1, <2>2, Zenon DEF readFrame
  <2> QED BY <1>1, <2>1, <2>2, Zenon DEF readFrame
<1>2. CASE checkStopping(l)
  BY <1>2, Zenon DEF checkStopping
<1>3. CASE storeContains(l)
  BY <1>3, Zenon DEF storeContains
<1>4. CASE deleteAcked(l)
  <2>1. store' \in Stores /\ IsFiniteSet(store'.msgs)
    BY <1>4, DeleteTypes, Zenon DEF deleteAcked
  <2> QED BY <1>4, <2>1, Zenon DEF deleteAcked
<1>5. CASE releaseAckedId(l)
  <2>1. ids' \in IdAllocators
    BY <1>0, <1>5, IdsTypes, Zenon DEF releaseAckedId
  <2> QED BY <1>5, <2>1, Zenon DEF releaseAckedId
<1>6. CASE releaseAckedQuota(l)
  <2>1. quota' \in Quotas
    BY <1>6, QuotaTypes, Zenon DEF releaseAckedQuota
  <2> QED BY <1>6, <2>1, Zenon DEF releaseAckedQuota
<1>7. CASE signalWaiter(l)
  <2>1. waiters' \in [PacketIds -> Calls \cup {None}]
    BY <1>7, Zenon DEF signalWaiter
  <2>2. chan' \in [Calls -> {None, "ok", "reason", "lost"}]
    <3> DEFINE w == waiters[frame[l].id]
               v == IF chan[w] # None THEN chan[w] ELSE IF frame[l].ok THEN "ok" ELSE "reason"
    <3>1. CASE w # None /\ Class(w) = FrameClass(frame[l])
      <4>1. chan' = [chan EXCEPT ![w] = v]
        BY <1>7, <3>1, Zenon DEF signalWaiter
      <4>2. w \in Calls
        BY <1>0, <1>7, <3>1, Zenon DEF signalWaiter
      <4>3. v \in {None, "ok", "reason", "lost"}
        BY <4>2, Zenon
      <4> HIDE DEF w, v
      <4> QED BY <4>1, <4>3, Zenon
    <3>2. CASE ~(w # None /\ Class(w) = FrameClass(frame[l]))
      BY <1>7, <3>2, Zenon DEF signalWaiter
    <3> QED BY <3>1, <3>2, Zenon
  <2> QED BY <1>7, <2>1, <2>2, Zenon DEF signalWaiter
<1>8. CASE savePubrel(l)
  <2>1. store' \in Stores /\ IsFiniteSet(store'.msgs)
    BY <1>0, <1>8, StoreTypes, Zenon DEF savePubrel
  <2> QED BY <1>8, <2>1, Zenon DEF savePubrel
<1>9. CASE deletePublish(l)
  <2>1. store' \in Stores /\ IsFiniteSet(store'.msgs)
    BY <1>9, DeleteTypes, Zenon DEF deletePublish
  <2> QED BY <1>9, <2>1, Zenon DEF deletePublish
<1>10. CASE sendPubrel(l)
  <2>1. broker' \subseteq Entries /\ toClient' \in Seq(Acks)
    BY <1>0, <1>10, BrokerReceivesPubrelTypes, ZenonT(60) DEF sendPubrel
  <2>2. td' \in TeardownStages /\ netUp' \in BOOLEAN
    BY <1>10, BeginTeardownTypes, Zenon DEF sendPubrel
  <2> QED BY <1>10, <2>1, <2>2, Zenon DEF sendPubrel
<1> QED BY <1>1, <1>2, <1>3, <1>4, <1>5, <1>6, <1>7, <1>8, <1>9, <1>10, Zenon DEF ReadLoop

\* The same for a step of teardownLink.
LEMMA TeardownTypes == ASSUME TypeOK, WellFormed, Teardown PROVE (TypeOK /\ WellFormed)'
<1> USE DEF TypeOK, WellFormed, sessVars, callVars, readVars, connVars, netVars
<1>1. CASE LinkLost
  BY <1>1, BeginTeardownTypes, Zenon DEF LinkLost
<1>2. CASE failAllWaiters
  BY <1>2, Zenon DEF failAllWaiters, TeardownStages
<1>3. CASE failQuota
  BY <1>3, QuotaTypes, Zenon DEF failQuota, TeardownStages
<1>4. CASE clearLink
  BY <1>4, OutboundAssumption, SMTT(60) DEF clearLink, TeardownStages
<1> QED BY <1>1, <1>2, <1>3, <1>4, ZenonT(60) DEF Teardown

\* The same for a step of Connect.
LEMMA ConnectTypes == ASSUME TypeOK, WellFormed, Connect PROVE (TypeOK /\ WellFormed)'
<1> USE DEF TypeOK, WellFormed, ConnectLabels, Accounting, Goto,
            sessVars, linkVars, callVars, readVars, netVars
<1>1. ASSUME NEW sp \in BOOLEAN, NEW rm \in RecvMaxes, Connack(sp, rm)
      PROVE  (TypeOK /\ WellFormed)'
  <2>1. broker' \subseteq Entries
    <3>1. \A e \in Remembered : [e EXCEPT !.stage = "rec"] \in Entries
      BY EntryTypes, Zenon DEF Remembered
    <3>2. CASE sp
      BY <1>1, <3>1, <3>2, Zenon DEF Connack
    <3>3. CASE ~sp
      BY <1>1, <3>3, Zenon DEF Connack
    <3> QED BY <3>2, <3>3, Zenon
  <2>2. recvMax' \in Nat /\ nconn' \in 0 .. MaxLinks /\ toClient' \in Seq(Acks)
    BY <1>1, OutboundAssumption, SMTT(60) DEF Connack
  <2>3. td' \in TeardownStages /\ netUp' \in BOOLEAN /\ cpc' \in ConnectLabels
    BY <1>1, Zenon DEF Connack, TeardownStages
  <2> QED BY <1>1, <2>1, <2>2, <2>3, Zenon DEF Connack
<1>2. CASE resetStore
  <2>1. store' \in Stores /\ IsFiniteSet(store'.msgs)
    BY <1>2, FS_EmptySet, Zenon DEF resetStore, ResetStore, NewStore, Stores
  <2> QED BY <1>2, <2>1, Zenon DEF resetStore
<1>3. CASE resetIds
  <2>1. ids' \in IdAllocators
    BY <1>3, MaxIdAssumption, SMTT(60) DEF resetIds, ResetIds, IdAllocators
  <2> QED BY <1>3, <2>1, Zenon DEF resetIds
<1>4. CASE inflightPermits
  <2>1. counted' \in Nat
    BY <1>4, FS_Subset, FS_CardinalityType, Zenon DEF inflightPermits, Inflight
  <2> QED BY <1>4, <2>1, Zenon DEF inflightPermits
<1>5. CASE resetQuota
  <2>1. QuotaSeed \in Nat
    BY SMTT(60) DEF QuotaSeed
  <2>2. quota' \in Quotas /\ quota'.gen \in Nat /\ ids.gen \in Nat
    BY <1>5, <2>1, QuotaTypes, Zenon DEF resetQuota, Quotas, IdAllocators
  <2> QED BY <1>5, <2>2, Zenon DEF resetQuota
<1>6. CASE loadReplay
  BY <1>6, Zenon DEF loadReplay, Inflight, Stores
<1>7. ASSUME NEW m \in replay, replayOne(m) PROVE (TypeOK /\ WellFormed)'
  <2>1. m.id \in PacketIds /\ (m.kind = "publish" => m.msg \in Calls)
    BY Zenon DEF StoredMessages
  <2>2. broker' \subseteq Entries /\ refused' \subseteq Publishers
        /\ delivered' \in [Publishers \cup Requests -> 0 .. 2] /\ toClient' \in Seq(Acks)
    BY <1>7, <2>1, BrokerReceivesTypes, BrokerReceivesPubrelTypes, ZenonT(60) DEF replayOne
  <2>3. td' \in TeardownStages /\ netUp' \in BOOLEAN
    BY <1>7, BeginTeardownTypes, Zenon DEF replayOne
  <2> QED BY <1>7, <2>2, <2>3, Zenon DEF replayOne
<1>8. ASSUME NEW f \in Filters, resubscribe(f) PROVE (TypeOK /\ WellFormed)'
  BY <1>8, Zenon DEF resubscribe, CallLabels, Identified
<1>9. CASE publishLink
  BY <1>9, ZenonT(60) DEF publishLink, RGoto, ReadLabels
<1> QED BY <1>1, <1>2, <1>3, <1>4, <1>5, <1>6, <1>7, <1>8, <1>9, ZenonT(60) DEF Connect

\* The same for the broker and the network.
LEMMA NetworkTypes ==
  ASSUME TypeOK, WellFormed, PeerVanishes \/ \E e \in broker : BrokerAnswers(e)
  PROVE  (TypeOK /\ WellFormed)'
<1> USE DEF TypeOK, WellFormed, sessVars, linkVars, callVars, readVars, connVars
<1>1. CASE PeerVanishes
  BY <1>1, Zenon DEF PeerVanishes
<1>2. ASSUME NEW e \in broker, BrokerAnswers(e) PROVE (TypeOK /\ WellFormed)'
  <2> DEFINE type == CASE e.msg \in Qos1 -> "PUBACK"
                       [] e.msg \in Qos2 \cup {Previous} -> "PUBREC"
                       [] e.msg \in Unsubs -> "UNSUBACK"
                       [] OTHER -> "SUBACK"
  <2>1. e.id \in PacketIds /\ e.ok \in BOOLEAN
    BY Zenon DEF Entries
  <2>2. type \in {"PUBACK", "PUBREC", "PUBCOMP", "SUBACK", "UNSUBACK"}
    BY Zenon
  <2>3. toClient' = Append(toClient, Ack(type, e.id, e.ok))
    BY <1>2, Zenon DEF BrokerAnswers
  <2> HIDE DEF type
  <2>4. Ack(type, e.id, e.ok) \in Acks
    BY <2>1, <2>2, AckType, Zenon
  <2>5. toClient' \in Seq(Acks)
    BY <2>3, <2>4, SMTT(60)
  <2>6. broker' \subseteq Entries
    BY <1>2, EntryTypes, ZenonT(60) DEF BrokerAnswers
  <2> QED BY <1>2, <2>5, <2>6, Zenon DEF BrokerAnswers
<1> QED BY <1>1, <1>2, Zenon

\* The first state: a new client that has never been connected.
LEMMA InitTypes == Init => TypeOK /\ WellFormed
<1> SUFFICES ASSUME Init PROVE TypeOK /\ WellFormed
  BY Zenon
<1>0. ids = NewIds /\ store = NewStore /\ quota = newQuota(0)
  BY Zenon DEF Init
<1>1. ids \in IdAllocators /\ store \in Stores /\ quota \in Quotas
  <2>1. NewIds \in IdAllocators
    BY MaxIdAssumption, SMTT(60) DEF NewIds, IdAllocators
  <2>2. NewStore \in Stores
    BY Zenon DEF NewStore, Stores
  <2>3. newQuota(0) \in Quotas
    BY Zenon DEF newQuota, Quotas
  <2> QED BY <1>0, <2>1, <2>2, <2>3, Zenon
<1> USE MaxIdAssumption, OutboundAssumption DEF Init
<1>2. IsFiniteSet(store.msgs)
  BY FS_EmptySet, Zenon DEF NewStore
<1>3. broker \subseteq Entries
  <2>1. \A i \in PacketIds : [id |-> i, msg |-> Previous, stage |-> "rec", ok |-> TRUE] \in Entries
    BY EntryTypes, Zenon
  <2> QED BY <2>1, Zenon
<1>4. /\ waiters \in [PacketIds -> Calls \cup {None}] /\ link \in 0 .. MaxLinks
      /\ nconn \in 0 .. MaxLinks /\ td \in TeardownStages
      /\ quotaGen \in [Links -> Nat] /\ idGen \in [Links -> Nat]
  BY SMTT(60) DEF TeardownStages
<1>5. /\ pc \in [Calls -> CallLabels] /\ myLink \in [Calls -> 0 .. MaxLinks]
      /\ myId \in [Calls -> 0 .. MaxId]
      /\ myQuotaGen \in [Calls -> Nat] /\ myIdGen \in [Calls -> Nat]
      /\ chan \in [Calls -> {None, "ok", "reason", "lost"}]
      /\ result \in [Calls -> {None, "ok", "reason", "unacked", "refused"}]
  BY SMTT(60) DEF CallLabels
<1>6. rpc \in [Links -> ReadLabels] /\ frame \in [Links -> Acks \cup {NoFrame}]
  BY Zenon DEF ReadLabels
<1>7. /\ cpc \in ConnectLabels /\ recvMax \in Nat /\ counted \in Nat
      /\ replay \subseteq StoredMessages /\ resubs \subseteq Filters
  BY Zenon DEF ConnectLabels
<1>8. netUp \in BOOLEAN /\ toClient \in Seq(Acks)
  <2>1. netUp \in BOOLEAN
    BY Zenon
  <2>2. toClient \in Seq(Acks)
    BY SMTT(60)
  <2> QED BY <2>1, <2>2, Zenon
<1>9. delivered \in [Publishers \cup Requests -> 0 .. 2] /\ refused \subseteq Publishers
  BY SMTT(60)
<1>10. WellFormed
  BY <1>2, Zenon DEF WellFormed, Identified
<1> QED BY <1>1, <1>3, <1>4, <1>5, <1>6, <1>7, <1>8, <1>9, <1>10, Zenon DEF TypeOK

\* A step of any goroutine keeps TypeOK and WellFormed.
LEMMA StepTypes == TypeOK /\ WellFormed /\ [Next]_vars => (TypeOK /\ WellFormed)'
<1> SUFFICES ASSUME TypeOK, WellFormed, [Next]_vars PROVE (TypeOK /\ WellFormed)'
  BY Zenon
<1>1. CASE Next
  BY <1>1, CallTypes, ReadLoopTypes, TeardownTypes, ConnectTypes, NetworkTypes, Zenon DEF Next
<1>2. CASE UNCHANGED vars
  BY <1>2, Zenon DEF vars, sessVars, linkVars, callVars, readVars, connVars, netVars, TypeOK, WellFormed
<1> QED BY <1>1, <1>2, Zenon

\* Whatever the goroutines, the network and the broker do, every variable
\* keeps its type; the permit count of the quota never goes below zero.
THEOREM TypeCorrect == Spec => []TypeOK
BY InitTypes, StepTypes, PTL DEF Spec

-----------------------------------------------------------------------------
(* Teardown and reconnect.                                                 *)

\* Connect runs only without a published link, and a failed quota belongs to
\* a teardown that is over or to a Connect that has yet to reset it.
QuotaOrder ==
  /\ cpc # "idle" => link = 0
  /\ quota.failed => td \in {"quotaFailed", "down"} \/ cpc \in Accounting

\* Only teardownLink fails the quota, and it clears the link pointer after it.
LEMMA QuotaOrderPreserved == TypeOK /\ QuotaOrder /\ [Next]_vars => QuotaOrder'
<1> SUFFICES ASSUME TypeOK, QuotaOrder, [Next]_vars PROVE QuotaOrder'
  BY Zenon
<1> USE DEF QuotaOrder
<1>0. quota \in Quotas /\ td \in TeardownStages
  BY Zenon DEF TypeOK
<1>1. ASSUME NEW p \in Calls, Call(p) PROVE QuotaOrder'
  <2>0. \/ quota' = quota
        \/ quota' = acquire(quota)
        \/ quota' = releaseAt(quota, myQuotaGen[p])
    BY <1>1, Zenon
    DEF Call, Start, AcquireQuota, AcquireIdentifier, SavePublish, registerWaiter, WriteRequest,
        removeWaiter, CheckGeneration, DeleteUnsent, ReleaseIdentifier, ReleaseQuota, WaitAck,
        sessVars
  <2>1. quota'.failed = quota.failed
    BY <1>0, <2>0, Zenon DEF Quotas, acquire, releaseAt
  <2>2. cpc' = cpc /\ link' = link
    BY <1>1, Zenon
    DEF Call, Start, AcquireQuota, AcquireIdentifier, SavePublish, registerWaiter, WriteRequest,
        removeWaiter, CheckGeneration, DeleteUnsent, ReleaseIdentifier, ReleaseQuota, WaitAck,
        connVars, linkVars
  <2>3. td' = td \/ BeginTeardown
    BY <1>1, Zenon
    DEF Call, Start, AcquireQuota, AcquireIdentifier, SavePublish, registerWaiter, WriteRequest,
        removeWaiter, CheckGeneration, DeleteUnsent, ReleaseIdentifier, ReleaseQuota, WaitAck,
        linkVars
  <2> QED BY <1>0, <2>1, <2>2, <2>3, Zenon DEF BeginTeardown, TeardownStages
<1>2. ASSUME NEW l \in Links, ReadLoop(l) PROVE QuotaOrder'
  <2>0. quota' = quota \/ quota' = releaseAt(quota, quotaGen[l])
    BY <1>2, Zenon
    DEF ReadLoop, readFrame, checkStopping, storeContains, deleteAcked, releaseAckedId,
        releaseAckedQuota, signalWaiter, savePubrel, deletePublish, sendPubrel, sessVars
  <2>1. quota'.failed = quota.failed
    BY <1>0, <2>0, Zenon DEF Quotas, acquire, releaseAt
  <2>2. cpc' = cpc /\ link' = link /\ (td' = td \/ BeginTeardown)
    BY <1>2, Zenon
    DEF ReadLoop, readFrame, checkStopping, storeContains, deleteAcked, releaseAckedId,
        releaseAckedQuota, signalWaiter, savePubrel, deletePublish, sendPubrel, connVars, linkVars
  <2> QED BY <1>0, <2>1, <2>2, Zenon DEF BeginTeardown, TeardownStages
<1>3. CASE Teardown
  BY <1>0, <1>3, Zenon
  DEF Teardown, LinkLost, BeginTeardown, failAllWaiters, failQuota, clearLink, sessVars, connVars
<1>4. CASE Connect
  <2>1. ASSUME NEW sp \in BOOLEAN, NEW rm \in RecvMaxes, Connack(sp, rm) PROVE QuotaOrder'
    BY <2>1, Zenon DEF Connack, sessVars, Accounting
  <2>2. CASE resetStore \/ resetIds \/ inflightPermits
    BY <2>2, Zenon DEF resetStore, resetIds, inflightPermits, sessVars, linkVars, Accounting
  <2>3. CASE resetQuota
    <3>1. QuotaSeed \in Nat
      BY SMTT(60) DEF QuotaSeed, TypeOK
    <3>2. quota'.failed = FALSE
      BY <1>0, <2>3, <3>1, QuotaTypes, Zenon DEF resetQuota
    <3> QED BY <2>3, <3>2, Zenon DEF resetQuota
  <2>4. CASE loadReplay
    BY <2>4, Zenon DEF loadReplay, sessVars, linkVars, Accounting
  <2>5. ASSUME NEW m \in replay, replayOne(m) PROVE QuotaOrder'
    BY <1>0, <2>5, Zenon DEF replayOne, BeginTeardown, TeardownStages, sessVars, netVars, Accounting
  <2>6. ASSUME NEW f \in Filters, resubscribe(f) PROVE QuotaOrder'
    BY <2>6, Zenon DEF resubscribe, sessVars, linkVars
  <2>7. CASE publishLink
    BY <2>7, Zenon DEF publishLink, sessVars, Accounting
  <2> QED BY <1>4, <2>1, <2>2, <2>3, <2>4, <2>5, <2>6, <2>7, ZenonT(60) DEF Connect
<1>5. CASE PeerVanishes \/ \E e \in broker : BrokerAnswers(e)
  BY <1>5, Zenon DEF PeerVanishes, BrokerAnswers, sessVars, linkVars, connVars
<1>6. CASE UNCHANGED vars
  BY <1>6, Zenon DEF vars, sessVars, linkVars, connVars
<1> QED BY <1>1, <1>2, <1>3, <1>4, <1>5, <1>6, Zenon DEF Next

\* teardownLink and applySession: no interleaving of a teardown, a reconnect
\* and any number of calls leaves a live, published link with a failed quota,
\* on which every QoS>0 publish would be rejected for good.
THEOREM HealthyQuota == Spec => []HealthyLinkHasHealthyQuota
<1>1. Init => QuotaOrder
  BY Zenon DEF Init, QuotaOrder, newQuota
<1>2. QuotaOrder => HealthyLinkHasHealthyQuota
  BY Zenon DEF QuotaOrder, HealthyLinkHasHealthyQuota, Accounting
<1> QED BY <1>1, <1>2, QuotaOrderPreserved, TypeCorrect, PTL DEF Spec

=============================================================================
