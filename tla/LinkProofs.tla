----------------------------- MODULE LinkProofs -----------------------------
(***************************************************************************)
(* Who tears a link down and what is signalled, for any number of writers, *)
(* frames and pings.                                                       *)
(***************************************************************************)
EXTENDS Link, TLAPS

\* Where each goroutine can be; the loops run once Connect is done; whoever is inside closeOnce is at its
\* teardownLink call.
Roles ==
  /\ pc["connect"] \in {"handshake", "stop", "clear", "replay", "lock", "write", "teardown", "failed", "done"}
  /\ pc["reader"] \in {"new", "read", "lock", "write", "await", "teardown", "closeOwn", "exit"}
  /\ pc["keepalive"] \in {"new", "tick", "lock", "write", "teardown", "exit"}
  /\ pc["disconnect"] \in {"idle", "lock", "write", "teardown", "close", "closeOwn", "wait", "done"}
  /\ \A g \in Writers : pc[g] \in {"idle", "lock", "write", "await", "teardown"}
  /\ pc["connect"] # "done" => pc["reader"] = "new" /\ pc["keepalive"] = "new"
  /\ \A g \in acks : pc[g] = "await"
  /\ \A g \in Goroutines : once = g => pc[g] \in {"teardown", "closeOwn"}

\* Goroutines that exist, and differ from each other.
LEMMA Distinct ==
  /\ "connect" \in Goroutines /\ "reader" \in Goroutines /\ "keepalive" \in Goroutines /\ "disconnect" \in Goroutines
  /\ Writers \subseteq Goroutines
  /\ "connect" \notin Writers /\ "reader" \notin Writers /\ "keepalive" \notin Writers /\ "disconnect" \notin Writers
  /\ Publishers = Writers \cup {"reader"} /\ Publishers \subseteq Goroutines /\ "connect" \notin Publishers
BY LinkAssumption, Zenon DEF Goroutines, Publishers

\* Where writeFrame and teardownLink return to, per caller.
LEMMA Continuations ==
  /\ AfterWrite("connect") = "replay" /\ AfterTeardown("connect") = "replay"
  /\ AfterWrite("keepalive") = "tick" /\ AfterWrite("disconnect") = "close"
  /\ \A g \in Publishers : AfterWrite(g) = "await"
  /\ AfterPublish("reader") = "read" /\ \A g \in Writers : AfterPublish(g) = "idle"
  /\ AfterTeardown("keepalive") = "exit" /\ AfterTeardown("reader") \in {"exit", "read"}
  /\ AfterTeardown("disconnect") \in {"wait", "close"}
  /\ \A g \in Writers : pc[g] # "closeOwn" => AfterTeardown(g) = "idle"
BY Distinct, Zenon DEF AfterWrite, AfterTeardown, AfterPublish

\* A return from teardownLink, of the goroutine inside closeOnce, with all who
\* wait, or of one that found it done.
LEMMA Returns ==
  ASSUME TypeOK, Roles, NEW g \in Goroutines, pc[g] \in {"teardown", "closeOwn"}, once' = "done",
         \/ acks' = acks /\ pc' = [pc EXCEPT ![g] = AfterTeardown(g)]
         \/ /\ acks' = {}
            /\ pc' = [h \in Goroutines |-> IF h = g THEN AfterTeardown(g)
                                            ELSE IF pc[h] = "await" THEN AfterPublish(h) ELSE pc[h]]
  PROVE  /\ pc' \in [Goroutines -> Labels]
         /\ Roles'
<1>1. /\ pc'[g] = AfterTeardown(g)
      /\ \A h \in Goroutines : h # g => \/ pc'[h] = pc[h]
                                        \/ pc[h] = "await" /\ pc'[h] = AfterPublish(h) /\ acks' = {}
  BY Zenon DEF TypeOK
<1>2. pc'[g] \in {"idle", "read", "exit", "wait", "close", "replay"}
  BY <1>1, Distinct, Continuations, SMTT(60) DEF Roles, Goroutines
<1>3. \A h \in Goroutines : pc[h] = "await" => AfterPublish(h) \in {"idle", "read"}
  BY Zenon DEF AfterPublish
<1>4. /\ pc'["connect"] \in {"handshake", "stop", "clear", "replay", "lock", "write", "teardown", "failed", "done"}
      /\ pc'["reader"] \in {"new", "read", "lock", "write", "await", "teardown", "closeOwn", "exit"}
      /\ pc'["keepalive"] \in {"new", "tick", "lock", "write", "teardown", "exit"}
      /\ pc'["disconnect"] \in {"idle", "lock", "write", "teardown", "close", "closeOwn", "wait", "done"}
  BY <1>1, Distinct, Continuations, SMTT(60) DEF Roles
<1>9. pc'["connect"] # "done" => pc'["reader"] = "new" /\ pc'["keepalive"] = "new"
  BY <1>1, Distinct, Continuations, Zenon DEF Roles
<1>5. ASSUME NEW h \in Writers PROVE pc'[h] \in {"idle", "lock", "write", "await", "teardown"}
  BY <1>1, <1>5, Distinct, Continuations, ZenonT(60) DEF Roles
<1>6. ASSUME NEW h \in acks' PROVE pc'[h] = "await"
  BY <1>1, <1>6, Distinct, Zenon DEF Roles, TypeOK
<1>7. \A h \in Goroutines : once' # h
  BY LinkAssumption, Zenon DEF Goroutines
<1>8. pc' \in [Goroutines -> Labels]
  BY <1>2, <1>3, SMTT(60) DEF TypeOK, Labels
<1> QED BY <1>4, <1>5, <1>6, <1>7, <1>8, <1>9, Zenon DEF Roles

\* Every step of every goroutine keeps the types and the roles.
LEMMA StepTypes == TypeOK /\ Roles /\ [Next]_vars => (TypeOK /\ Roles)'
<1> SUFFICES ASSUME TypeOK, Roles, [Next]_vars PROVE (TypeOK /\ Roles)'
  BY Zenon
<1> USE Distinct, LinkAssumption DEF TypeOK, Roles, Goto, Labels, setup
<1>1. CASE PeerFails
  BY <1>1, SMTT(60) DEF PeerFails
<1>2. CASE PeerAnswers
  BY <1>2, SMTT(60) DEF PeerAnswers
<1>3. ASSUME NEW g \in Writers, Publish(g) PROVE (TypeOK /\ Roles)'
  BY <1>3, SMTT(60) DEF Publish
<1>17. ASSUME NEW g \in Writers, PeerAcks(g) PROVE (TypeOK /\ Roles)'
  BY <1>17, SMTT(60) DEF PeerAcks
<1>18. ASSUME NEW g \in Publishers, waitAckEnds(g) PROVE (TypeOK /\ Roles)'
  BY <1>18, Continuations, SMTT(60) DEF waitAckEnds
<1>19. ASSUME NEW g \in Writers, readAck(g) PROVE (TypeOK /\ Roles)'
  BY <1>19, Continuations, SMTT(60) DEF readAck
<1>20. CASE dispatch
  BY <1>20, SMTT(60) DEF dispatch
<1>4. ASSUME NEW g \in Goroutines, lockSend(g) PROVE (TypeOK /\ Roles)'
  BY <1>4, SMTT(60) DEF lockSend, Goroutines
<1>5. ASSUME NEW g \in Goroutines, writeFrame(g) PROVE (TypeOK /\ Roles)'
  BY <1>5, Continuations, SMTT(60) DEF writeFrame, Goroutines, None
<1>6. ASSUME NEW g \in Goroutines, teardownBegins(g) PROVE (TypeOK /\ Roles)'
  BY <1>6, SMTT(60) DEF teardownBegins
<1>7. ASSUME NEW g \in Goroutines, teardownEnds(g) PROVE (TypeOK /\ Roles)'
  <2>1. pc[g] \in {"teardown", "closeOwn"} /\ once' = "done" /\ acks' \subseteq Writers
    BY <1>7, Zenon DEF teardownEnds
  <2>2. \/ acks' = acks /\ pc' = [pc EXCEPT ![g] = AfterTeardown(g)]
        \/ /\ acks' = {}
           /\ pc' = [h \in Goroutines |-> IF h = g THEN AfterTeardown(g)
                                           ELSE IF pc[h] = "await" THEN AfterPublish(h) ELSE pc[h]]
    BY <1>7, Zenon DEF teardownEnds
  <2>3. pc' \in [Goroutines -> Labels] /\ Roles'
    BY ONLY TypeOK, Roles, <2>1, <2>2, Returns, Zenon
  <2>4. link' \in BOOLEAN /\ lost' \in BOOLEAN
    BY <1>7, Zenon DEF teardownEnds, signalLost
  <2> QED BY <1>7, <2>1, <2>3, <2>4, ZenonT(60) DEF teardownEnds
<1>8. ASSUME NEW g \in Goroutines, teardownLater(g) PROVE (TypeOK /\ Roles)'
  <2>1. pc[g] \in {"teardown", "closeOwn"} /\ once' = "done" /\ acks' = acks
    BY <1>8, Zenon DEF teardownLater
  <2>2. pc' = [pc EXCEPT ![g] = AfterTeardown(g)]
    BY <1>8, Zenon DEF teardownLater
  <2>3. pc' \in [Goroutines -> Labels] /\ Roles'
    BY ONLY TypeOK, Roles, <2>1, <2>2, Returns, Zenon
  <2> QED BY <1>8, <2>1, <2>3, SMTT(60) DEF teardownLater
<1>9. CASE readPingresp
  BY <1>9, SMTT(60) DEF readPingresp, pingTimeoutThreshold
<1>10. CASE readError
  BY <1>10, SMTT(60) DEF readError
<1>11. CASE keepAliveStops
  BY <1>11, SMTT(60) DEF keepAliveStops
<1>12. CASE keepAliveTicks
  <2>1. CASE outstandingPings >= pingTimeoutThreshold
    <3>1. TypeOK'
      BY <1>12, <2>1, SMTT(60) DEF keepAliveTicks
    <3>2. Roles'
      BY <1>12, <2>1, SMTT(60) DEF keepAliveTicks
    <3> QED BY <3>1, <3>2, Zenon
  <2>2. CASE outstandingPings < pingTimeoutThreshold
    <3>1. outstandingPings' \in 0 .. pingTimeoutThreshold /\ ~(outstandingPings >= pingTimeoutThreshold)
      BY <1>12, <2>2, SMTT(60) DEF keepAliveTicks, pingTimeoutThreshold
    <3>2. TypeOK'
      BY <1>12, <3>1, SMTT(60) DEF keepAliveTicks
    <3>3. Roles'
      BY <1>12, <3>1, SMTT(60) DEF keepAliveTicks
    <3> QED BY <3>2, <3>3, Zenon
  <2> QED BY <2>1, <2>2, SMTT(60) DEF pingTimeoutThreshold
<1>13. CASE disconnectBegins
  <2>1. PICK l \in {"lock", "done"} : pc' = [pc EXCEPT !["disconnect"] = l]
    BY <1>13, Zenon DEF disconnectBegins
  <2>2. graceful' \in BOOLEAN
    BY <1>13, Zenon DEF disconnectBegins
  <2> QED BY <1>13, <2>1, <2>2, SMTT(60) DEF disconnectBegins
<1>14. CASE disconnectCloses
  BY <1>14, SMTT(60) DEF disconnectCloses
<1>15. CASE disconnectReturns
  BY <1>15, SMTT(60) DEF disconnectReturns
<1>16. CASE UNCHANGED vars
  BY <1>16, SMTT(60) DEF vars
<1>21. CASE contextEnds
  BY <1>21, SMTT(60) DEF contextEnds
<1>22. CASE poisonDeadline
  BY <1>22, SMTT(60) DEF poisonDeadline
<1>23. CASE Connect
  <2>1. CASE connectHandshakes
    BY <2>1, SMTT(60) DEF connectHandshakes
  <2>2. CASE connectStops
    BY <2>2, SMTT(60) DEF connectStops
  <2>3. CASE connectClears
    <3>1. poisoned' \in BOOLEAN
      BY <2>3, Zenon DEF connectClears
    <3> QED BY <2>3, <3>1, SMTT(60) DEF connectClears
  <2>4. CASE connectReplays
    BY <2>4, SMTT(60) DEF connectReplays
  <2>5. CASE connectPublishes
    <3>1. pc' \in [Goroutines -> Labels]
      BY <2>5, SMTT(60) DEF connectPublishes, Running
    <3>6. link' \in BOOLEAN
      BY <2>5, Zenon DEF connectPublishes
    <3>7. frames' \in [Publishers \cup {"connect"} -> 0 .. MaxFrames]
      BY <2>5, SMTT(60) DEF connectPublishes
    <3>2. /\ pc'["connect"] \in {"done", "failed"}
          /\ pc'["reader"] \in {pc["reader"], "read"} /\ pc'["keepalive"] \in {pc["keepalive"], "tick"}
          /\ pc'["connect"] = "failed" => pc'["reader"] = pc["reader"] /\ pc'["keepalive"] = pc["keepalive"]
          /\ \A g \in Writers \cup {"disconnect"} : pc'[g] = pc[g]
      BY <2>5, SMTT(60) DEF connectPublishes, Running
    <3>3. \A g \in Goroutines : once = g => pc[g] = pc'[g]
      BY <2>5, <3>2, SMTT(60) DEF connectPublishes, Running, Goroutines
    <3>4. Roles'
      <4>1. \A g \in acks' : pc'[g] = "await"
        BY <2>5, <3>2, ZenonT(60) DEF connectPublishes
      <4>2. \A g \in Goroutines : once' = g => pc'[g] \in {"teardown", "closeOwn"}
        BY <2>5, <3>3, Zenon DEF connectPublishes
      <4>3. pc["connect"] = "replay"
        BY <2>5, Zenon DEF connectPublishes
      <4> QED BY <3>2, <4>1, <4>2, <4>3, ZenonT(60)
    <3> QED BY <2>5, <3>1, <3>4, <3>6, <3>7, SMTT(60) DEF connectPublishes
  <2> QED BY <1>23, <2>1, <2>2, <2>3, <2>4, <2>5, Zenon DEF Connect
<1> QED BY <1>1, <1>2, <1>3, <1>4, <1>5, <1>6, <1>7, <1>8, <1>9, <1>10, <1>11, <1>12, <1>13,
           <1>14, <1>15, <1>16, <1>17, <1>18, <1>19, <1>20, <1>21, <1>22, <1>23, ZenonT(60)
        DEF Next, Step, teardownLink, readLoop, keepAliveLoop, Disconnect

\* The types and the roles, in every reachable state.
LEMMA TypesHold == Spec => [](TypeOK /\ Roles)
<1>1. Init => TypeOK /\ Roles
  <2> SUFFICES ASSUME Init PROVE TypeOK /\ Roles
    BY Zenon
  <2>1. /\ pc["connect"] = "handshake" /\ pc["reader"] = "new" /\ pc["keepalive"] = "new" /\ pc["disconnect"] = "idle"
        /\ \A g \in Writers : pc[g] = "idle"
    BY Distinct, Zenon DEF Init
  <2>2. pc \in [Goroutines -> {"idle", "new", "handshake"}]
    BY <2>1, Distinct, Zenon DEF Init, Goroutines
  <2>3. Roles
    BY <2>1, Distinct, LinkAssumption, ZenonT(60) DEF Init, Roles, Goroutines
  <2>4. /\ frames \in [Publishers \cup {"connect"} -> 0 .. MaxFrames] /\ acks \subseteq Writers
        /\ outstandingPings \in 0 .. pingTimeoutThreshold /\ timeout \in Nat \cup {-1}
    BY LinkAssumption, SMTT(60) DEF Init, pingTimeoutThreshold
  <2>5. arg \in [Goroutines -> BOOLEAN] /\ sendMu \in Goroutines \cup {None}
    BY Zenon DEF Init
  <2>6. pc \in [Goroutines -> Labels]
    BY <2>2, Zenon DEF Labels
  <2>7. TypeOK
    BY <2>4, <2>5, <2>6, Zenon DEF Init, TypeOK
  <2> QED BY <2>3, <2>7, Zenon
<1> QED BY <1>1, StepTypes, PTL DEF Spec

\* Every variable keeps its type, and the watchdog's counter its bound.
THEOREM TypeCorrect == Spec => []TypeOK
BY TypesHold, PTL

-----------------------------------------------------------------------------
(* Connect: nothing of the link is visible before it is established, and   *)
(* its context's function can no longer run then.                          *)

Established ==
  /\ poisoned => watcher = "done"
  /\ pc["connect"] \in {"clear", "replay", "lock", "write", "teardown", "done"} => watcher = "stopped"
  /\ link \/ lost => pc["connect"] = "done"

\* Every step keeps Established.
LEMMA StepEstablished == TypeOK /\ Roles /\ Established /\ [Next]_vars => Established'
<1> SUFFICES ASSUME TypeOK, Roles, Established, [Next]_vars PROVE Established'
  BY Zenon
<1> USE Distinct DEF Established
<1> DEFINE Rest == pc'["connect"] = pc["connect"] /\ UNCHANGED <<link, lost, watcher, poisoned>>
<1>0. pc \in [Goroutines -> Labels]
  BY Zenon DEF TypeOK
<1>1. PeerFails \/ PeerAnswers \/ readPingresp \/ UNCHANGED vars => Rest
  BY Zenon DEF PeerFails, PeerAnswers, readPingresp, vars, setup
<1>2. ASSUME NEW g \in Publishers, Publish(g) \/ PeerAcks(g) \/ readAck(g) \/ waitAckEnds(g) PROVE Rest
  BY <1>0, <1>2, Zenon DEF Publish, PeerAcks, readAck, waitAckEnds, Goto, setup
<1>3. readError \/ dispatch \/ keepAliveLoop \/ Disconnect \/ disconnectBegins => Rest
  BY <1>0, Zenon DEF readError, dispatch, keepAliveLoop, keepAliveStops, keepAliveTicks, Disconnect, disconnectBegins, disconnectCloses,
              disconnectReturns, Goto, setup
<1>6. ASSUME NEW g \in Goroutines, Step(g) PROVE Established'
  <2>1. CASE lockSend(g)
    BY <1>0, <2>1, Zenon DEF lockSend, Goto, setup
  <2>2. CASE writeFrame(g)
    <3>1. PICK l \in {"teardown", AfterWrite(g)} : pc' = [pc EXCEPT ![g] = l]
      BY <2>2, Zenon DEF writeFrame, Goto
    <3>2. pc[g] = "write" /\ UNCHANGED <<link, lost, watcher, poisoned>>
      BY <2>2, Zenon DEF writeFrame, setup
    <3> QED BY <1>0, <3>1, <3>2, Continuations, Zenon DEF Goroutines
  <2>3. CASE teardownBegins(g)
    BY <2>3, Zenon DEF teardownBegins, setup
  <2>4. CASE teardownEnds(g)
    <3>1. pc[g] \in {"teardown", "closeOwn"} /\ UNCHANGED <<watcher, poisoned>>
      BY <2>4, Zenon DEF teardownEnds, Roles
    <3>2. CASE link
      <4>1. pc["connect"] = "done" /\ watcher = "stopped" /\ g # "connect"
        BY <3>1, <3>2, Zenon
      <4>2. pc'["connect"] = "done"
        BY <2>4, <3>2, <4>1, Zenon DEF teardownEnds
      <4> QED BY <3>1, <4>1, <4>2, Zenon
    <3>3. CASE ~link
      <4>1. pc' = [pc EXCEPT ![g] = AfterTeardown(g)] /\ UNCHANGED <<link, lost>>
        BY <2>4, <3>3, Zenon DEF teardownEnds, Goto
      <4>2. g = "connect" => pc'["connect"] = "replay"
        BY <1>0, <4>1, Continuations, Zenon
      <4>3. g # "connect" => pc'["connect"] = pc["connect"]
        BY <1>0, <4>1, Zenon
      <4> QED BY <3>1, <4>1, <4>2, <4>3, Zenon DEF Roles
    <3> QED BY <3>2, <3>3, Zenon
  <2>5. CASE teardownLater(g)
    <3>1. g = "connect" => pc'["connect"] = "replay" /\ pc["connect"] = "teardown"
      BY <1>0, <2>5, Continuations, Zenon DEF teardownLater, Goto, Roles
    <3>2. g # "connect" => pc'["connect"] = pc["connect"]
      BY <1>0, <2>5, Zenon DEF teardownLater, Goto
    <3> QED BY <2>5, <3>1, <3>2, Zenon DEF teardownLater, setup
  <2> QED BY <1>6, <2>1, <2>2, <2>3, <2>4, <2>5, Zenon DEF Step, teardownLink
<1>7. contextEnds \/ poisonDeadline => Established'
  BY SMTT(60) DEF contextEnds, poisonDeadline
<1>8. CASE Connect
  <2>1. connectHandshakes \/ connectClears \/ connectReplays => Established'
    BY <1>0, SMTT(60) DEF connectHandshakes, connectClears, connectReplays, Goto, setup
  <2>2. connectStops => Established'
    BY <1>0, SMTT(60) DEF connectStops, Goto
  <2>3. connectPublishes => Established'
    BY <1>0, SMTT(60) DEF connectPublishes, Running, Goto
  <2> QED BY <1>8, <2>1, <2>2, <2>3, Zenon DEF Connect
<1> HIDE DEF Rest
<1>9. Rest => Established'
  BY SMTT(60) DEF Rest
<1> QED BY <1>1, <1>2, <1>3, <1>6, <1>7, <1>8, <1>9, Zenon DEF Next, readLoop

\* The states of Connect, in every reachable state.
LEMMA EstablishedHolds == Spec => []Established
<1>1. Init => Established
  BY Distinct, Zenon DEF Init, Established
<1> QED BY <1>1, StepEstablished, TypesHold, PTL DEF Spec

-----------------------------------------------------------------------------
(* signalLost: only a connection that failed is reported.                  *)

\* Whatever takes the link down before Disconnect has marked it is a fault,
\* and a goroutine that reads the mark reads it before or after, never both.
Silence ==
  /\ lost => fault
  /\ ~graceful => (peer # "alive" \/ stopped => fault)
  /\ pc["disconnect"] \notin {"idle", "done"} => graceful
  /\ \A g \in Goroutines : arg[g] => graceful
  /\ \A g \in Goroutines : pc[g] \in {"teardown", "closeOwn"} /\ ~arg[g] => fault

\* The writer that fails read the mark after its write did.
LEMMA WriteSilence ==
  ASSUME TypeOK, Roles, Silence, NEW g \in Goroutines, writeFrame(g)
  PROVE  Silence'
<1> USE Distinct, Continuations DEF TypeOK, Roles, Silence, Goto
<1>1. PICK r \in WriteOutcomes : writeFrame(g)!2!(r)
  BY Zenon DEF writeFrame
<1>2. CASE r = "ok"
  BY <1>1, <1>2, SMTT(60) DEF writeFrame, Goroutines
<1>3. CASE r # "ok"
  <2>1. ~graceful => fault
    BY <1>3, Zenon DEF WriteOutcomes
  <2> QED BY <1>1, <1>3, <2>1, SMTT(60) DEF writeFrame, Goroutines
<1> QED BY <1>2, <1>3, Zenon

\* Every step keeps Silence.
LEMMA StepSilence == TypeOK /\ Roles /\ Established /\ Silence /\ [Next]_vars => Silence'
<1> SUFFICES ASSUME TypeOK, Roles, Established, Silence, [Next]_vars PROVE Silence'
  BY Zenon
<1> USE Distinct, LinkAssumption DEF TypeOK, Roles, Silence, Goto, Labels, setup
<1>1. CASE PeerFails
  BY <1>1, Zenon DEF PeerFails
<1>2. CASE PeerAnswers
  BY <1>2, Zenon DEF PeerAnswers
<1>3. ASSUME NEW g \in Writers, Publish(g) PROVE Silence'
  BY <1>3, ZenonT(60) DEF Publish
<1>17. ASSUME NEW g \in Writers, PeerAcks(g) PROVE Silence'
  BY <1>17, Zenon DEF PeerAcks
<1>18. ASSUME NEW g \in Publishers, waitAckEnds(g) PROVE Silence'
  BY <1>18, Continuations, ZenonT(60) DEF waitAckEnds
<1>19. ASSUME NEW g \in Writers, readAck(g) PROVE Silence'
  BY <1>19, Continuations, ZenonT(60) DEF readAck
<1>20. CASE dispatch
  BY <1>20, ZenonT(60) DEF dispatch
<1>4. ASSUME NEW g \in Goroutines, lockSend(g) PROVE Silence'
  BY <1>4, ZenonT(60) DEF lockSend
<1>5. ASSUME NEW g \in Goroutines, writeFrame(g) PROVE Silence'
  BY <1>5, WriteSilence, Zenon
<1>6. ASSUME NEW g \in Goroutines, teardownBegins(g) PROVE Silence'
  BY <1>6, Zenon DEF teardownBegins
<1>7. ASSUME NEW g \in Goroutines, teardownEnds(g) PROVE Silence'
  BY <1>7, Continuations, SMTT(60) DEF teardownEnds, signalLost, Goroutines
<1>8. ASSUME NEW g \in Goroutines, teardownLater(g) PROVE Silence'
  BY <1>8, Continuations, ZenonT(60) DEF teardownLater, Goroutines
<1>9. CASE readPingresp
  BY <1>9, Zenon DEF readPingresp
<1>10. CASE readError
  BY <1>10, ZenonT(60) DEF readError, Established
<1>11. CASE keepAliveStops
  BY <1>11, ZenonT(60) DEF keepAliveStops
<1>12. CASE keepAliveTicks
  BY <1>12, SMTT(60) DEF keepAliveTicks
<1>13. CASE disconnectBegins
  BY <1>13, SMTT(60) DEF disconnectBegins
<1>14. CASE disconnectCloses
  BY <1>14, ZenonT(60) DEF disconnectCloses
<1>15. CASE disconnectReturns
  BY <1>15, ZenonT(60) DEF disconnectReturns
<1>16. CASE UNCHANGED vars
  BY <1>16, Zenon DEF vars
<1>21. contextEnds \/ poisonDeadline => Silence'
  BY SMTT(60) DEF contextEnds, poisonDeadline
<1>22. CASE Connect
  <2>1. connectHandshakes \/ connectStops \/ connectClears \/ connectReplays => Silence'
    BY SMTT(60) DEF connectHandshakes, connectStops, connectClears, connectReplays
  <2>2. connectPublishes => Silence'
    BY SMTT(60) DEF connectPublishes, Running
  <2> QED BY <1>22, <2>1, <2>2, Zenon DEF Connect
<1> QED BY <1>1, <1>2, <1>3, <1>4, <1>5, <1>6, <1>7, <1>8, <1>9, <1>10, <1>11, <1>12, <1>13,
           <1>14, <1>15, <1>16, <1>17, <1>18, <1>19, <1>20, <1>21, <1>22, Zenon
        DEF Next, Step, teardownLink, readLoop, keepAliveLoop, Disconnect

\* link.graceful and Connect's own order: a lost connection is signalled only
\* of a session that was established and failed, whichever goroutine tears
\* the link down and whenever the context of Connect is cancelled.
THEOREM SilentShutdown == Spec => []LostMeansFailed
<1>1. Init => Silence
  BY Distinct, ZenonT(60) DEF Init, Silence, Goroutines
<1>2. Silence /\ Established => LostMeansFailed
  BY Zenon DEF Silence, Established, LostMeansFailed
<1> QED BY <1>1, <1>2, StepSilence, TypesHold, EstablishedHolds, PTL DEF Spec

-----------------------------------------------------------------------------
(* keepAliveLoop: the watchdog counts a PINGREQ before it is written.      *)

\* The counter runs ahead of the wire by at most the PINGREQ being written.
Patience ==
  /\ timeout # -1 => timeout >= pingTimeoutThreshold
  /\ pc["keepalive"] \in {"new", "tick"} => outstandingPings <= unanswered
  /\ pc["keepalive"] \in {"lock", "write"} => outstandingPings <= unanswered + 1

\* Steps that leave the keep-alive loop and its counters alone keep Patience.
LEMMA ElsewherePatience ==
  ASSUME Patience, pc'["keepalive"] = pc["keepalive"],
         UNCHANGED <<outstandingPings, unanswered, timeout>>
  PROVE  Patience'
BY Zenon DEF Patience

\* Every step keeps Patience.
LEMMA StepPatience == TypeOK /\ Roles /\ Patience /\ [Next]_vars => Patience'
<1> SUFFICES ASSUME TypeOK, Roles, Patience, [Next]_vars PROVE Patience'
  BY Zenon
<1> DEFINE Rest == pc'["keepalive"] = pc["keepalive"] /\ UNCHANGED <<outstandingPings, unanswered, timeout>>
<1>0. pc \in [Goroutines -> Labels]
  BY Zenon DEF TypeOK
<1>1. PeerFails \/ PeerAnswers \/ contextEnds \/ poisonDeadline \/ UNCHANGED vars => Rest
  BY Zenon DEF PeerFails, PeerAnswers, contextEnds, poisonDeadline, vars
<1>2. ASSUME NEW g \in Publishers, Publish(g) \/ PeerAcks(g) \/ waitAckEnds(g) \/ readAck(g) PROVE Rest
  BY <1>0, <1>2, Distinct, Zenon DEF Publish, PeerAcks, waitAckEnds, readAck, Goto
<1>3. readError \/ dispatch \/ Disconnect \/ disconnectBegins => Rest
  BY <1>0, Distinct, Zenon DEF readError, dispatch, Disconnect, disconnectBegins, disconnectCloses, disconnectReturns, Goto
<1>4. ASSUME NEW g \in Goroutines, g # "keepalive", Step(g) PROVE Rest
  <2>1. CASE teardownEnds(g)
    <3>1. pc'["keepalive"] = pc["keepalive"]
      BY <1>0, <1>4, <2>1, Distinct, Zenon DEF teardownEnds, Roles, Goto
    <3> QED BY <2>1, <3>1, Zenon DEF teardownEnds
  <2> QED BY <1>0, <1>4, <2>1, Distinct, Zenon DEF Step, lockSend, writeFrame, teardownLink, teardownBegins,
                                            teardownLater, Goto
<1>5. CASE lockSend("keepalive")
  BY <1>0, <1>5, Distinct, Zenon DEF lockSend, Goto, Patience
<1>6. CASE writeFrame("keepalive")
  BY <1>0, <1>6, Distinct, Continuations, ZenonT(60) DEF writeFrame, Goto, Patience, TypeOK
<1>7. CASE teardownLink("keepalive")
  <2>1. pc["keepalive"] \in {"teardown", "closeOwn"}
    BY <1>7, Distinct, Zenon DEF teardownLink, teardownBegins, teardownEnds, teardownLater, Roles
  <2>2. pc'["keepalive"] \in {"teardown", "closeOwn", "exit"} /\ timeout' = timeout
    BY <1>0, <1>7, <2>1, Distinct, Continuations, Zenon
       DEF teardownLink, teardownBegins, teardownEnds, teardownLater, Goto
  <2> QED BY <2>2, Zenon DEF Patience
<1>8. CASE readPingresp
  BY <1>8, SMTT(60) DEF readPingresp, Patience
<1>9. CASE keepAliveStops
  BY <1>0, <1>9, Distinct, Zenon DEF keepAliveStops, Goto, Patience
<1>10. CASE keepAliveTicks
  BY <1>0, <1>10, Distinct, SMTT(60) DEF keepAliveTicks, Goto, Patience, TypeOK, pingTimeoutThreshold
<1>13. connectHandshakes \/ connectStops \/ connectClears \/ connectReplays => Rest
  BY <1>0, Distinct, Zenon DEF connectHandshakes, connectStops, connectClears, connectReplays, Goto
<1>14. connectPublishes => Patience'
  BY <1>0, Distinct, Zenon DEF connectPublishes, Running, Goto, Roles, Patience
<1> HIDE DEF Rest
<1>11. Rest => Patience'
  BY ElsewherePatience, Zenon DEF Rest
<1>12. \A g \in Goroutines : Step(g) => Patience'
  BY <1>4, <1>5, <1>6, <1>7, <1>11, Zenon DEF Step
<1> QED BY <1>1, <1>2, <1>3, <1>8, <1>9, <1>10, <1>11, <1>12, <1>13, <1>14, Distinct, Zenon DEF Next, readLoop, keepAliveLoop, Connect

\* pingTimeoutThreshold: the watchdog gives a connection up only after two
\* PINGREQs went out unanswered, however ticks, writes and answers interleave.
THEOREM PatientWatchdog == Spec => []WatchdogIsPatient
<1>1. Init => Patience
  BY SMTT(60) DEF Init, Patience
<1>2. Patience => WatchdogIsPatient
  BY Zenon DEF Patience, WatchdogIsPatient
<1> QED BY <1>1, <1>2, StepPatience, TypesHold, PTL DEF Spec

=============================================================================
