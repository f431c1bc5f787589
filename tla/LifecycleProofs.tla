-------------------------- MODULE LifecycleProofs --------------------------
(***************************************************************************)
(* Start, Stop, the reconnect loop and ConnectWithRetry, for any number of *)
(* calls, drops and connects.                                              *)
(***************************************************************************)
EXTENDS Lifecycle, TLAPS

CallLabels == {"idle", "drain", "connect", "connecting", "publish", "fail", "undo", "failed", "ok",
               "cancel", "wait", "hurry", "disconnect"}
LoopLabels == {"off", "select", "flapWait", "connect", "connecting", "exit"}

\* The part of the type invariant that the control of the calls rests on.
Types ==
  /\ pc \in [Starts \cup Stops -> CallLabels] /\ loop \in [Starts -> LoopLabels]
  /\ started \in BOOLEAN /\ cancel \in Starts \cup {None} /\ loopDone \in Starts \cup {None}
  /\ myCancel \in [Stops -> Starts \cup {None}] /\ myDone \in [Stops -> Starts \cup {None}]
  /\ cancelled \subseteq Starts /\ stopped \subseteq Starts
  /\ link \in BOOLEAN /\ token \in BOOLEAN /\ signalling \in Nat /\ drops \in Nat
  /\ flapStreak \in [Starts -> Nat] /\ recent \in [Starts -> BOOLEAN]
  /\ retry \in {"off", "idle", "starting", "pause", "nil", "shutdown", "gaveUp"}
  /\ attempt \in Nat /\ ctxDone \in BOOLEAN /\ late \in BOOLEAN

\* The calls exist, and a Start is no Stop.
LEMMA Calls ==
  /\ Starts \cap Stops = {} /\ None \notin Starts /\ None \notin Stops
  /\ \A s \in Starts : s \in Starts \cup Stops /\ s \notin Stops
  /\ \A t \in Stops : t \in Starts \cup Stops /\ t \notin Starts
BY LifecycleAssumption, Zenon

\* Every step of a Start keeps the types.
LEMMA StartTypes == ASSUME Types, NEW s \in Starts, Start(s) PROVE Types'
<1> USE Calls DEF Types, CallLabels, LoopLabels, Goto, LGoto, callVars, loopVars, connVars, histVars, retryVars
<1>1. CASE StartBegins(s)
  BY <1>1, ZenonT(60) DEF StartBegins
<1>2. CASE DrainLost(s)
  BY <1>2, Zenon DEF DrainLost
<1>3. CASE StartConnects(s)
  BY <1>3, ZenonT(60) DEF StartConnects, ConnectBegins
<1>4. CASE StartConnected(s)
  <2>1. PICK r \in {"ok", "already", "error"} :
          /\ ConnectEnds(s, r) /\ pc' = [pc EXCEPT ![s] = IF r = "ok" THEN "publish" ELSE "fail"]
          /\ cancelled' = IF r = "ok" THEN cancelled ELSE cancelled \cup {s}
    BY <1>4, Zenon DEF StartConnected
  <2>2. link' \in BOOLEAN
    BY <2>1, Zenon DEF ConnectEnds
  <2>3. pc' \in [Starts \cup Stops -> CallLabels] /\ cancelled' \subseteq Starts
    BY <2>1, Zenon
  <2> QED BY <1>4, <2>1, <2>2, <2>3, ZenonT(60) DEF StartConnected, ConnectEnds
<1>5. CASE StartFails(s)
  BY <1>5, Zenon DEF StartFails
<1>6. CASE StartPublishes(s)
  BY <1>6, ZenonT(120) DEF StartPublishes
<1>7. CASE StartUndoes(s)
  BY <1>7, ZenonT(60) DEF StartUndoes, Disconnects
<1> QED BY <1>1, <1>2, <1>3, <1>4, <1>5, <1>6, <1>7, Zenon DEF Start

\* Every step of a reconnect loop keeps the types.
LEMMA LoopTypes == ASSUME Types, NEW s \in Starts, Loop(s) \/ Stabilises(s) \/ CallerCancels(s) PROVE Types'
<1> USE Calls DEF Types, CallLabels, LoopLabels, Goto, LGoto, callVars, loopVars, connVars, histVars, retryVars
<1>1. CASE LoopExits(s)
  BY <1>1, ZenonT(60) DEF LoopExits
<1>2. CASE LoopNotices(s)
  <2>1. token' = FALSE /\ loop' \in [Starts -> LoopLabels] /\ flapStreak' \in [Starts -> Nat]
    BY <1>2, SMTT(60) DEF LoopNotices
  <2>2. UNCHANGED <<callVars, recent, link, signalling, drops, histVars, retryVars>>
    BY <1>2, Zenon DEF LoopNotices
  <2> QED BY <2>1, <2>2, Zenon
<1>3. CASE LoopTimer(s)
  BY <1>3, ZenonT(60) DEF LoopTimer
<1>4. CASE LoopConnects(s)
  BY <1>4, ZenonT(60) DEF LoopConnects, ConnectBegins
<1>5. CASE LoopConnected(s)
  <2>1. PICK r \in {"ok", "already", "error"} :
          ConnectEnds(s, r) /\ recent' = [recent EXCEPT ![s] = @ \/ r = "ok"]
    BY <1>5, Zenon DEF LoopConnected
  <2>2. link' \in BOOLEAN /\ recent' \in [Starts -> BOOLEAN]
    BY <2>1, Zenon DEF ConnectEnds
  <2> QED BY <1>5, <2>1, <2>2, Zenon DEF LoopConnected, ConnectEnds
<1>6. CASE Stabilises(s)
  BY <1>6, ZenonT(60) DEF Stabilises
<1>7. CASE CallerCancels(s)
  BY <1>7, Zenon DEF CallerCancels
<1> QED BY <1>1, <1>2, <1>3, <1>4, <1>5, <1>6, <1>7, Zenon DEF Loop

\* Every other step keeps the types.
LEMMA OtherTypes ==
  ASSUME Types, \/ \E t \in Stops : Stop(t)
                \/ Drop \/ SignalLost \/ retryBegins \/ ConnectWithRetry \/ ctxCancelled
                \/ UNCHANGED vars
  PROVE  Types'
<1> USE Calls DEF Types, CallLabels, LoopLabels, Goto, callVars, loopVars, connVars, histVars, retryVars
<1>1. ASSUME NEW t \in Stops, StopBegins(t) PROVE Types'
  BY <1>1, Zenon DEF StopBegins
<1>2. ASSUME NEW t \in Stops, StopCancels(t) PROVE Types'
  BY <1>2, ZenonT(60) DEF StopCancels
<1>3. ASSUME NEW t \in Stops, StopWaits(t) \/ StopExpires(t) PROVE Types'
  BY <1>3, SMTT(60) DEF StopWaits, StopExpires
<1>4. ASSUME NEW t \in Stops, StopDisconnects(t) PROVE Types'
  BY <1>4, ZenonT(60) DEF StopDisconnects, Disconnects
<1>5. CASE Drop
  <2>1. drops' \in Nat /\ signalling' \in Nat
    BY <1>5, SMTT(60) DEF Drop
  <2>2. link' \in BOOLEAN
    BY <1>5, Zenon DEF Drop
  <2>3. UNCHANGED <<callVars, loopVars, token, stopped, retryVars>>
    BY <1>5, Zenon DEF Drop
  <2> QED BY <2>1, <2>2, <2>3, Zenon
<1>6. CASE SignalLost
  BY <1>6, SMTT(60) DEF SignalLost
<1>7. CASE retryBegins
  BY <1>7, Zenon DEF retryBegins
<1>8. CASE ConnectWithRetry
  BY <1>8, SMTT(60) DEF ConnectWithRetry, startReturns, retryResumes, retryEnds
<1>9. CASE ctxCancelled
  BY <1>9, Zenon DEF ctxCancelled
<1>10. CASE UNCHANGED vars
  BY <1>10, ZenonT(60) DEF vars
<1> QED BY <1>1, <1>2, <1>3, <1>4, <1>5, <1>6, <1>7, <1>8, <1>9, <1>10, Zenon DEF Stop

\* The types, in every reachable state.
LEMMA TypesHold == Spec => []Types
<1>1. Init => Types
  <2> SUFFICES ASSUME Init PROVE Types
    BY Zenon
  <2>1. /\ pc \in [Starts \cup Stops -> CallLabels] /\ loop \in [Starts -> LoopLabels]
        /\ flapStreak \in [Starts -> Nat] /\ recent \in [Starts -> BOOLEAN]
        /\ myCancel \in [Stops -> Starts \cup {None}] /\ myDone \in [Stops -> Starts \cup {None}]
    BY Zenon DEF Init, CallLabels, LoopLabels
  <2>2. /\ retry \in {"off", "idle", "starting", "pause", "nil", "shutdown", "gaveUp"}
        /\ started \in BOOLEAN /\ link \in BOOLEAN /\ token \in BOOLEAN
        /\ ctxDone \in BOOLEAN /\ late \in BOOLEAN
    BY Zenon DEF Init
  <2>3. attempt \in Nat /\ signalling \in Nat /\ drops \in Nat
    BY Zenon DEF Init
  <2> QED BY <2>1, <2>2, <2>3, Zenon DEF Init, Types
<1>2. Types /\ [Next]_vars => Types'
  BY StartTypes, LoopTypes, OtherTypes, Zenon DEF Next
<1> QED BY <1>1, <1>2, PTL DEF Spec

-----------------------------------------------------------------------------
(* The inductive invariants.                                               *)

\* A Start that succeeded, and no other, has a loop; the loop ends only with
\* its context.
Loops ==
  \A s \in Starts :
    /\ (pc[s] = "ok") <=> (loop[s] # "off")
    /\ loop[s] = "off" => flapStreak[s] = 0
    /\ loop[s] = "exit" => s \in cancelled

\* From a Start's drain on, what is on its way to its loop is a drop.
Drained == {"connect", "connecting", "publish", "ok"}
Pending == (IF token THEN 1 ELSE 0) + signalling
Tokens ==
  /\ signalling <= drops
  /\ \A s \in Starts : pc[s] \in Drained => flapStreak[s] + Pending <= drops

\* A session belongs to a Start that connected.
Owned == link => \E s \in Starts : pc[s] \in {"publish", "undo", "ok"}

\* ConnectWithRetry makes its Starts one after another, each after the
\* failure of the one before.
Retries ==
  /\ attempt \in 0 .. MaxAttempts /\ (retry \notin {"off", "idle"} => attempt > 0)
  /\ retry = "pause" => attempt < MaxAttempts
  /\ retry = "idle" => attempt = 0
  /\ retry # "off" => \A s \in Starts : pc[s] # "idle" => \E i \in 1 .. attempt : Attempts[i] = s
  /\ retry # "off" => \A i \in 1 .. attempt - 1 : pc[Attempts[i]] = "failed"
  /\ retry \in {"pause", "shutdown", "gaveUp"} => pc[Attempts[attempt]] = "failed"
  /\ (late => ctxDone) /\ (retry = "gaveUp" => ~late)

\* Before the first Start.
Quiet ==
  (\A s \in Starts : pc[s] = "idle") =>
    /\ ~started /\ cancel = None /\ loopDone = None /\ ~link /\ stopped = {}
    /\ \A t \in Stops : myCancel[t] = None /\ myDone[t] = None

\* A Start and the Stops around it, as long as there is no other Start.
Alone(s) == pc[s] # "idle" /\ \A r \in Starts \ {s} : pc[r] = "idle"

Single(s) ==
  /\ cancel \in {None, s} /\ loopDone \in {None, s} /\ (started => cancel = s)
  /\ \A t \in Stops : myCancel[t] \in {None, s} /\ (myDone[t] # None => myDone[t] = s /\ pc[s] = "ok")
  /\ \A t \in Stops : myCancel[t] = s => pc[t] # "idle" /\ cancel = None /\ loopDone = None
  /\ loopDone = s => pc[s] = "ok"
  /\ pc[s] = "ok" /\ cancel = s => loopDone = s
  /\ \A t \in Stops : myCancel[t] = s /\ pc[s] = "ok" => myDone[t] = s
  /\ \A t \in Stops : pc[t] = "disconnect" /\ myDone[t] = s => loop[s] = "exit"
  /\ s \in stopped => \E t \in Stops : myCancel[t] = s
  /\ s \in stopped /\ pc[s] = "ok" => loop[s] = "exit" /\ ~link

Singles == \A s \in Starts : Alone(s) => Single(s)

-----------------------------------------------------------------------------
(* Loops and tokens.                                                       *)

\* What StartConnected and LoopConnected do, for the result they get.
LEMMA Connected ==
  ASSUME NEW s \in Starts
  PROVE  /\ StartConnected(s) =>
              /\ pc[s] = "connecting" /\ UNCHANGED <<started, cancel, loopDone, myCancel, myDone, loopVars, retryVars>>
              /\ UNCHANGED <<token, signalling, drops, stopped>>
              /\ \/ pc' = [pc EXCEPT ![s] = "publish"] /\ UNCHANGED cancelled
                 \/ pc' = [pc EXCEPT ![s] = "fail"] /\ cancelled' = cancelled \cup {s} /\ (link' => link)
         /\ LoopConnected(s) =>
              /\ loop[s] = "connecting" /\ loop' = [loop EXCEPT ![s] = "select"]
              /\ UNCHANGED <<callVars, flapStreak, retryVars, token, signalling, drops, stopped>>
<1>1. ASSUME StartConnected(s)
      PROVE  \/ pc' = [pc EXCEPT ![s] = "publish"] /\ UNCHANGED cancelled
             \/ pc' = [pc EXCEPT ![s] = "fail"] /\ cancelled' = cancelled \cup {s} /\ (link' => link)
  <2>1. PICK r \in {"ok", "already", "error"} :
          /\ ConnectEnds(s, r) /\ pc' = [pc EXCEPT ![s] = IF r = "ok" THEN "publish" ELSE "fail"]
          /\ cancelled' = IF r = "ok" THEN cancelled ELSE cancelled \cup {s}
    BY <1>1, Zenon DEF StartConnected, Goto
  <2>2. CASE r = "ok"
    BY <2>1, <2>2, Zenon
  <2>3. CASE r # "ok"
    <3>1. link' => link
      BY <2>1, <2>3, Zenon DEF ConnectEnds
    <3> QED BY <2>1, <2>3, <3>1, Zenon
  <2> QED BY <2>2, <2>3, Zenon
<1>2. StartConnected(s) => /\ pc[s] = "connecting"
                           /\ UNCHANGED <<started, cancel, loopDone, myCancel, myDone, loopVars, retryVars>>
                           /\ UNCHANGED <<token, signalling, drops, stopped>>
  BY Zenon DEF StartConnected, ConnectEnds
<1>3. LoopConnected(s) => /\ loop[s] = "connecting" /\ loop' = [loop EXCEPT ![s] = "select"]
                          /\ UNCHANGED <<callVars, flapStreak, retryVars, token, signalling, drops, stopped>>
  BY Zenon DEF LoopConnected, ConnectEnds, LGoto
<1> QED BY <1>1, <1>2, <1>3, Zenon

\* Every step keeps Loops.
LEMMA StepLoops == Types /\ Loops /\ [Next]_vars => Loops'
<1> SUFFICES ASSUME Types, Loops, [Next]_vars PROVE Loops'
  BY Zenon
<1> USE Calls DEF Loops, Types, Goto, LGoto, callVars, loopVars, connVars, histVars, retryVars
<1>1. ASSUME NEW s \in Starts, StartBegins(s) \/ DrainLost(s) \/ StartConnects(s) PROVE Loops'
  BY <1>1, ZenonT(60) DEF StartBegins, DrainLost, StartConnects
<1>2. ASSUME NEW s \in Starts, StartConnected(s) PROVE Loops'
  BY <1>2, Connected, ZenonT(60)
<1>3. ASSUME NEW s \in Starts, StartFails(s) \/ StartUndoes(s) PROVE Loops'
  BY <1>3, Zenon DEF StartFails, StartUndoes
<1>4. ASSUME NEW s \in Starts, StartPublishes(s) PROVE Loops'
  BY <1>4, ZenonT(60) DEF StartPublishes
<1>5. ASSUME NEW s \in Starts, LoopExits(s) \/ LoopTimer(s) \/ LoopConnects(s) PROVE Loops'
  BY <1>5, ZenonT(60) DEF LoopExits, LoopTimer, LoopConnects
<1>6. ASSUME NEW s \in Starts, LoopNotices(s) PROVE Loops'
  BY <1>6, ZenonT(60) DEF LoopNotices
<1>7. ASSUME NEW s \in Starts, LoopConnected(s) PROVE Loops'
  BY <1>7, Connected, ZenonT(60)
<1>8. ASSUME NEW s \in Starts, Stabilises(s) \/ CallerCancels(s) PROVE Loops'
  BY <1>8, Zenon DEF Stabilises, CallerCancels
<1>9. ASSUME NEW t \in Stops, Stop(t) PROVE Loops'
  BY <1>9, ZenonT(60) DEF Stop, StopBegins, StopCancels, StopWaits, StopExpires, StopDisconnects
<1>10. Drop \/ SignalLost => Loops'
  BY Zenon DEF Drop, SignalLost
<1>11. retryBegins \/ ConnectWithRetry \/ ctxCancelled => Loops'
  BY Zenon DEF retryBegins, ConnectWithRetry, startReturns, retryResumes, retryEnds, ctxCancelled
<1>12. UNCHANGED vars => Loops'
  BY Zenon DEF vars
<1> QED BY <1>1, <1>2, <1>3, <1>4, <1>5, <1>6, <1>7, <1>8, <1>9, <1>10, <1>11, <1>12, Zenon DEF Next, Start, Loop

\* Start: "Subsequent drops reconnect in the background", for every Start
\* that succeeded and was neither stopped nor cancelled.
THEOREM LoopsRun == Spec => []SuccessfulStartHasLoop
<1>1. Init => Loops
  BY Zenon DEF Init, Loops
<1>2. Loops => SuccessfulStartHasLoop
  BY Zenon DEF Loops, SuccessfulStartHasLoop, Alive
<1> QED BY <1>1, <1>2, StepLoops, TypesHold, PTL DEF Spec

\* Every step keeps Tokens.
LEMMA StepTokens == Types /\ Loops /\ Tokens /\ [Next]_vars => Tokens'
<1> SUFFICES ASSUME Types, Loops, Tokens, [Next]_vars PROVE Tokens'
  BY Zenon
<1> USE Calls DEF Tokens, Pending, Drained, Loops, Types, Goto, LGoto, callVars, loopVars, connVars, histVars, retryVars
<1>1. ASSUME NEW s \in Starts, StartBegins(s) \/ StartConnects(s) PROVE Tokens'
  BY <1>1, SMTT(60) DEF StartBegins, StartConnects, ConnectBegins
<1>2. ASSUME NEW s \in Starts, DrainLost(s) PROVE Tokens'
  <2>1. token' = FALSE /\ UNCHANGED <<signalling, drops, flapStreak>> /\ pc' = [pc EXCEPT ![s] = "connect"]
        /\ pc[s] = "drain"
    BY <1>2, Zenon DEF DrainLost
  <2>2. Pending' = signalling
    BY <2>1, SMTT(60)
  <2>3. flapStreak[s] = 0
    BY <2>1, Zenon
  <2>4. ASSUME NEW r \in Starts, pc'[r] \in Drained PROVE flapStreak[r] + signalling <= drops
    BY <2>1, <2>3, <2>4, SMTT(60)
  <2> QED BY <2>1, <2>2, <2>4, Zenon
<1>3. ASSUME NEW s \in Starts, StartConnected(s) PROVE Tokens'
  BY <1>3, Connected, SMTT(60)
<1>4. ASSUME NEW s \in Starts, StartFails(s) \/ StartUndoes(s) \/ StartPublishes(s) PROVE Tokens'
  BY <1>4, SMTT(60) DEF StartFails, StartUndoes, StartPublishes, Disconnects
<1>5. ASSUME NEW s \in Starts, LoopExits(s) \/ LoopTimer(s) \/ LoopConnects(s) PROVE Tokens'
  BY <1>5, SMTT(60) DEF LoopExits, LoopTimer, LoopConnects, ConnectBegins
<1>6. ASSUME NEW s \in Starts, LoopNotices(s) PROVE Tokens'
  <2>1. /\ token = TRUE /\ token' = FALSE /\ UNCHANGED <<pc, signalling, drops>>
        /\ flapStreak' \in [Starts -> Nat] /\ flapStreak'[s] <= flapStreak[s] + 1
        /\ \A r \in Starts \ {s} : flapStreak'[r] = flapStreak[r]
    BY <1>6, SMTT(60) DEF LoopNotices
  <2>2. Pending' = signalling /\ Pending = 1 + signalling
    BY <2>1, SMTT(60)
  <2>3. ASSUME NEW r \in Starts, pc[r] \in Drained PROVE flapStreak'[r] + signalling <= drops
    BY <2>1, <2>2, <2>3, SMTT(60)
  <2> QED BY <2>1, <2>2, <2>3, Zenon
<1>7. ASSUME NEW s \in Starts, LoopConnected(s) PROVE Tokens'
  BY <1>7, Connected, SMTT(60)
<1>8. ASSUME NEW s \in Starts, Stabilises(s) \/ CallerCancels(s) PROVE Tokens'
  BY <1>8, SMTT(60) DEF Stabilises, CallerCancels
<1>9. ASSUME NEW t \in Stops, Stop(t) PROVE Tokens'
  BY <1>9, SMTT(60) DEF Stop, StopBegins, StopCancels, StopWaits, StopExpires, StopDisconnects, Disconnects
<1>10. ASSUME Drop PROVE Tokens'
  <2>1. drops' = drops + 1 /\ signalling' = signalling + 1 /\ UNCHANGED <<token, pc, flapStreak>>
    BY <1>10, Zenon DEF Drop
  <2>2. Pending' = Pending + 1
    BY <2>1, SMTT(60)
  <2> QED BY <2>1, <2>2, SMTT(60)
<1>11. ASSUME SignalLost PROVE Tokens'
  <2>1. /\ signalling' = signalling - 1 /\ signalling > 0 /\ token' = TRUE
        /\ UNCHANGED <<drops, pc, flapStreak>>
    BY <1>11, Zenon DEF SignalLost
  <2>2. Pending' <= Pending /\ Pending \in Nat /\ Pending' \in Nat
    BY <2>1, SMTT(60)
  <2> QED BY <2>1, <2>2, SMTT(60)
<1>12. retryBegins \/ ConnectWithRetry \/ ctxCancelled => Tokens'
  BY SMTT(60) DEF retryBegins, ConnectWithRetry, startReturns, retryResumes, retryEnds, ctxCancelled
<1>13. UNCHANGED vars => Tokens'
  BY SMTT(60) DEF vars
<1> QED BY <1>1, <1>2, <1>3, <1>4, <1>5, <1>6, <1>7, <1>8, <1>9, <1>10, <1>11, <1>12, <1>13, Zenon DEF Next, Start, Loop

\* Start's drain and the one-slot channel: no loop is told of more drops than
\* there were.
THEOREM TokensDescribeDrops == Spec => []TokensAreDrops
<1>1. Init => Loops /\ Tokens
  BY SMTT(60) DEF Init, Loops, Tokens, Drained
<1>2. Loops /\ Tokens /\ Types => TokensAreDrops
  BY SMTT(60) DEF Loops, Tokens, Types, TokensAreDrops, Drained, Pending
<1> QED BY <1>1, <1>2, StepLoops, StepTokens, TypesHold, PTL DEF Spec

-----------------------------------------------------------------------------
(* Drops.                                                                  *)

\* A Start's drain or a loop has taken a token and Connect has not returned to
\* it since.  A loop whose context ended may have left with one.
Taker(r) == pc[r] \in {"connect", "connecting"} \/ loop[r] \in {"flapWait", "connect", "connecting", "exit"}

\* The token of a drop that no connect attempt has followed is on its way, or
\* whoever took it is on its way to a connect attempt.
Notices == unserved => token \/ signalling > 0 \/ \E r \in Starts : Taker(r)

\* Every step keeps Notices.
LEMMA StepNotices == Types /\ Loops /\ Notices /\ [Next]_vars => Notices'
<1> SUFFICES ASSUME Types, Loops, Notices, [Next]_vars PROVE Notices'
  BY Zenon
<1> USE Calls DEF Notices, Taker, Types, Goto, LGoto, callVars, loopVars, connVars, histVars, retryVars
<1>1. ASSUME NEW s \in Starts, StartBegins(s) PROVE Notices'
  <2>1. pc[s] = "idle" /\ UNCHANGED <<token, signalling, unserved, loop>> /\ \A r \in Starts \ {s} : pc'[r] = pc[r]
    BY <1>1, ZenonT(60) DEF StartBegins
  <2>2. ASSUME NEW r \in Starts, Taker(r) PROVE Taker(r)'
    BY <2>1, <2>2, Zenon
  <2> QED BY <2>1, <2>2, Zenon
<1>2. ASSUME NEW s \in Starts, DrainLost(s) PROVE Notices'
  BY <1>2, Zenon DEF DrainLost
<1>3. ASSUME NEW s \in Starts, StartConnects(s) PROVE Notices'
  BY <1>3, Zenon DEF StartConnects, ConnectBegins
<1>4. ASSUME NEW s \in Starts, StartConnected(s) \/ LoopConnected(s) PROVE Notices'
  BY <1>4, Zenon DEF StartConnected, LoopConnected, ConnectEnds
<1>5. ASSUME NEW s \in Starts, StartFails(s) \/ StartPublishes(s) \/ StartUndoes(s) PROVE Notices'
  <2>1. /\ pc[s] \in {"fail", "publish", "undo"} /\ UNCHANGED <<token, signalling, unserved>>
        /\ \A r \in Starts \ {s} : pc'[r] = pc[r] /\ loop'[r] = loop[r]
    BY <1>5, ZenonT(60) DEF StartFails, StartPublishes, StartUndoes, Disconnects
  <2>2. ~Taker(s)
    BY <2>1, Zenon DEF Loops
  <2>3. ASSUME NEW r \in Starts, Taker(r) PROVE Taker(r)'
    BY <2>1, <2>2, <2>3, Zenon
  <2> QED BY <2>1, <2>3, Zenon
<1>6. ASSUME NEW s \in Starts, LoopExits(s) \/ LoopTimer(s) PROVE Notices'
  BY <1>6, Zenon DEF LoopExits, LoopTimer
<1>7. ASSUME NEW s \in Starts, LoopNotices(s) PROVE Notices'
  <2>1. loop'[s] \in {"flapWait", "connect"}
    BY <1>7, Zenon DEF LoopNotices
  <2> QED BY <2>1, Zenon
<1>8. ASSUME NEW s \in Starts, LoopConnects(s) PROVE Notices'
  BY <1>8, Zenon DEF LoopConnects, ConnectBegins
<1>9. ASSUME NEW s \in Starts, Stabilises(s) \/ CallerCancels(s) PROVE Notices'
  BY <1>9, Zenon DEF Stabilises, CallerCancels
<1>10. ASSUME NEW t \in Stops, Stop(t) PROVE Notices'
  <2>1. UNCHANGED <<loop, token, signalling, unserved>> /\ \A r \in Starts : pc'[r] = pc[r]
    BY <1>10, ZenonT(60) DEF Stop, StopBegins, StopCancels, StopWaits, StopExpires, StopDisconnects, Disconnects
  <2> QED BY <2>1, Zenon
<1>11. Drop \/ SignalLost => Notices'
  <2>1. Drop => signalling' > 0
    BY SMTT(60) DEF Drop
  <2>2. SignalLost => token'
    BY Zenon DEF SignalLost
  <2> QED BY <2>1, <2>2, Zenon
<1>12. retryBegins \/ ConnectWithRetry \/ ctxCancelled \/ UNCHANGED vars => Notices'
  <2>1. retryBegins \/ ConnectWithRetry \/ ctxCancelled \/ UNCHANGED vars
        => UNCHANGED <<pc, loop, token, signalling, unserved>>
    BY Zenon DEF retryBegins, ConnectWithRetry, startReturns, retryResumes, retryEnds, ctxCancelled, vars
  <2> QED BY <2>1, Zenon
<1> QED BY <1>1, <1>2, <1>3, <1>4, <1>5, <1>6, <1>7, <1>8, <1>9, <1>10, <1>11, <1>12, Zenon DEF Next, Start, Loop

\* Start drains the channel before its first connect and never after: the
\* token of a drop reaches the waiting loop, in whatever order drops, signals,
\* connects and Stops come.
THEOREM DropsReachLoop == Spec => []DropIsNoticed
<1>1. Init => Loops /\ Notices
  BY Zenon DEF Init, Loops, Notices
<1>2. Types /\ Loops /\ Notices => DropIsNoticed
  BY Zenon DEF Types, Loops, Notices, Taker, DropIsNoticed
<1> QED BY <1>1, <1>2, StepLoops, StepNotices, TypesHold, PTL DEF Spec

-----------------------------------------------------------------------------
(* ConnectWithRetry.                                                       *)

\* Every step keeps Owned.
LEMMA StepOwned == Types /\ Loops /\ Owned /\ [Next]_vars => Owned'
<1> SUFFICES ASSUME Types, Loops, Owned, [Next]_vars PROVE Owned'
  BY Zenon
<1> USE Calls DEF Owned, Loops, Types, Goto, LGoto, callVars, loopVars, connVars, histVars, retryVars
<1>1. ASSUME NEW s \in Starts, StartBegins(s) \/ DrainLost(s) \/ StartConnects(s) PROVE Owned'
  BY <1>1, ZenonT(60) DEF StartBegins, DrainLost, StartConnects, ConnectBegins
<1>2. ASSUME NEW s \in Starts, StartConnected(s) PROVE Owned'
  BY <1>2, Connected, ZenonT(60)
<1>3. ASSUME NEW s \in Starts, StartFails(s) \/ StartPublishes(s) PROVE Owned'
  BY <1>3, ZenonT(60) DEF StartFails, StartPublishes
<1>4. ASSUME NEW s \in Starts, StartUndoes(s) PROVE Owned'
  BY <1>4, Zenon DEF StartUndoes, Disconnects
<1>5. ASSUME NEW s \in Starts, LoopExits(s) \/ LoopTimer(s) \/ LoopConnects(s) \/ LoopNotices(s) PROVE Owned'
  BY <1>5, Zenon DEF LoopExits, LoopTimer, LoopConnects, LoopNotices, ConnectBegins
<1>6. ASSUME NEW s \in Starts, LoopConnected(s) PROVE Owned'
  BY <1>6, Connected, Zenon
<1>7. ASSUME NEW s \in Starts, Stabilises(s) \/ CallerCancels(s) PROVE Owned'
  BY <1>7, Zenon DEF Stabilises, CallerCancels
<1>8. ASSUME NEW t \in Stops, Stop(t) PROVE Owned'
  BY <1>8, Zenon DEF Stop, StopBegins, StopCancels, StopWaits, StopExpires, StopDisconnects, Disconnects
<1>9. Drop \/ SignalLost => Owned'
  BY Zenon DEF Drop, SignalLost
<1>10. retryBegins \/ ConnectWithRetry \/ ctxCancelled => Owned'
  BY Zenon DEF retryBegins, ConnectWithRetry, startReturns, retryResumes, retryEnds, ctxCancelled
<1>11. UNCHANGED vars => Owned'
  BY Zenon DEF vars
<1> QED BY <1>1, <1>2, <1>3, <1>4, <1>5, <1>6, <1>7, <1>8, <1>9, <1>10, <1>11, Zenon DEF Next, Start, Loop

\* A Start that takes a step is the attempt ConnectWithRetry waits for.
LEMMA StepOfAttempt ==
  ASSUME Types, Retries, retry # "off", NEW s \in Starts, Start(s)
  PROVE  /\ retry \in {"starting", "nil"} /\ attempt \in 1 .. Len(Attempts) /\ s = Attempts[attempt]
         /\ UNCHANGED retryVars
         /\ \A r \in Starts \ {s} : pc'[r] = pc[r]
<1>1. UNCHANGED retryVars /\ \A r \in Starts \ {s} : pc'[r] = pc[r]
  BY Calls, Zenon DEF Types, Start, StartBegins, DrainLost, StartConnects, StartConnected, StartFails, StartPublishes,
               StartUndoes, Goto
<1>2. pc[s] # "failed" /\ (pc[s] = "idle" => retry = "starting" /\ s = Attempts[attempt])
  BY Zenon DEF Start, StartBegins, DrainLost, StartConnects, StartConnected, StartFails, StartPublishes, StartUndoes
<1>3. CASE pc[s] = "idle"
  BY <1>1, <1>2, <1>3, LifecycleAssumption, SMTT(60) DEF Retries
<1>4. CASE pc[s] # "idle"
  <2>1. PICK i \in 1 .. attempt : Attempts[i] = s
    BY <1>4, Zenon DEF Retries
  <2>2. i = attempt
    BY <1>2, <2>1, SMTT(60) DEF Retries
  <2>3. retry \in {"starting", "nil"}
    BY <1>2, <2>1, <2>2, SMTT(60) DEF Retries, Types
  <2> QED BY <1>1, <2>1, <2>2, <2>3, LifecycleAssumption, SMTT(60) DEF Retries
<1> QED BY <1>3, <1>4, Zenon

\* Every step keeps Retries.
LEMMA StepRetries == Types /\ Retries /\ [Next]_vars => Retries'
<1> SUFFICES ASSUME Types, Retries, [Next]_vars PROVE Retries'
  BY Zenon
<1> USE Calls, LifecycleAssumption DEF Types, callVars, loopVars, connVars, histVars, retryVars
<1>0. \A i \in 1 .. attempt : i \in 1 .. Len(Attempts) /\ Attempts[i] \in Starts
  BY SMTT(60) DEF Retries
<1>1. ASSUME NEW s \in Starts, Start(s), retry = "off" PROVE Retries'
  <2>1. UNCHANGED retryVars
    BY <1>1, Zenon DEF Start, StartBegins, DrainLost, StartConnects, StartConnected, StartFails, StartPublishes,
                StartUndoes
  <2> QED BY <1>1, <2>1, Zenon DEF Retries
<1>2. ASSUME NEW s \in Starts, Start(s), retry # "off" PROVE Retries'
  <2>1. /\ retry \in {"starting", "nil"} /\ attempt \in 1 .. Len(Attempts) /\ s = Attempts[attempt]
        /\ UNCHANGED retryVars /\ \A r \in Starts \ {s} : pc'[r] = pc[r]
    BY <1>2, StepOfAttempt, Zenon
  <2>2. ASSUME NEW i \in 1 .. attempt - 1 PROVE pc'[Attempts[i]] = "failed"
    <3>1. i \in 1 .. attempt /\ i # attempt /\ pc[Attempts[i]] = "failed"
      BY <2>1, <2>2, SMTT(60) DEF Retries
    <3>2. Attempts[i] # s /\ Attempts[i] \in Starts
      BY <1>0, <2>1, <3>1, Zenon
    <3> QED BY <2>1, <3>1, <3>2, Zenon
  <2>3. ASSUME NEW r \in Starts, pc'[r] # "idle" PROVE \E i \in 1 .. attempt : Attempts[i] = r
    BY <2>1, <2>3, SMTT(60) DEF Retries
  <2> QED BY <2>1, <2>2, <2>3, Zenon DEF Retries
<1>3. ASSUME UNCHANGED retryVars, \A s \in Starts : pc'[s] = pc[s] PROVE Retries'
  BY <1>0, <1>3, SMTT(60) DEF Retries
<1>4. ASSUME NEW s \in Starts, Loop(s) \/ Stabilises(s) \/ CallerCancels(s) PROVE Retries'
  BY <1>3, <1>4, Zenon DEF Loop, LoopExits, LoopNotices, LoopTimer, LoopConnects, LoopConnected, Stabilises, CallerCancels
<1>5. ASSUME NEW t \in Stops, Stop(t) PROVE Retries'
  <2>1. UNCHANGED retryVars /\ \A s \in Starts : pc'[s] = pc[s]
    <3>1. CASE StopBegins(t)
      BY <1>5, <3>1, ZenonT(60) DEF StopBegins, Goto
    <3>2. CASE StopCancels(t)
      BY <1>5, <3>2, ZenonT(60) DEF StopCancels, Goto
    <3>3. CASE StopWaits(t)
      BY <1>5, <3>3, ZenonT(60) DEF StopWaits, Goto
    <3>4. CASE StopExpires(t)
      BY <1>5, <3>4, ZenonT(60) DEF StopExpires, Goto
    <3>5. CASE StopDisconnects(t)
      BY <1>5, <3>5, ZenonT(60) DEF StopDisconnects, Goto
    <3> QED BY <1>5, <3>1, <3>2, <3>3, <3>4, <3>5, Zenon DEF Stop
  <2> QED BY <1>3, <2>1, Zenon
<1>6. Drop \/ SignalLost \/ UNCHANGED vars => Retries'
  BY <1>3, Zenon DEF Drop, SignalLost, vars
<1>7. CASE retryBegins
  BY <1>7, SMTT(60) DEF retryBegins, Retries
<1>8. CASE startReturns
  BY <1>0, <1>8, SMTT(60) DEF startReturns, Retries
<1>9. CASE retryResumes
  <2>1. /\ retry = "pause" /\ retry' = "starting" /\ attempt' = attempt + 1 /\ late' = ctxDone
        /\ UNCHANGED <<pc, ctxDone>>
    BY <1>9, Zenon DEF retryResumes
  <2>2. attempt' \in 1 .. MaxAttempts
    BY <2>1, SMTT(60) DEF Retries
  <2>3. \A i \in 1 .. attempt' - 1 : pc[Attempts[i]] = "failed"
    BY <2>1, SMTT(60) DEF Retries
  <2>4. \A s \in Starts : pc[s] # "idle" => \E i \in 1 .. attempt' : Attempts[i] = s
    BY <2>1, SMTT(60) DEF Retries
  <2> QED BY <2>1, <2>2, <2>3, <2>4, SMTT(60) DEF Retries
<1>10. CASE retryEnds
  BY <1>0, <1>10, Zenon DEF retryEnds, Retries
<1>11. CASE ctxCancelled
  BY <1>0, <1>11, Zenon DEF ctxCancelled, Retries
<1> QED BY <1>1, <1>2, <1>4, <1>5, <1>6, <1>7, <1>8, <1>9, <1>10, <1>11, Zenon DEF Next, ConnectWithRetry

\* ConnectWithRetry: an error leaves no session and no loop behind, and says
\* "gave up" only of a broker, however many attempts it makes.
THEOREM RetryTruthful == Spec => []RetryIsTruthful
<1>1. Init => Loops /\ Owned /\ Retries
  BY LifecycleAssumption, SMTT(60) DEF Init, Loops, Owned, Retries
<1>2. Types /\ Loops /\ Owned /\ Retries => RetryIsTruthful
  <2> SUFFICES ASSUME Types, Loops, Owned, Retries PROVE RetryIsTruthful
    BY Zenon
  <2>1. ASSUME retry \in {"shutdown", "gaveUp"}, NEW s \in Starts PROVE pc[s] \in {"idle", "failed"}
    <3>1. CASE pc[s] # "idle"
      <4>1. PICK i \in 1 .. attempt : Attempts[i] = s
        BY <2>1, <3>1, Zenon DEF Retries
      <4> QED BY <2>1, <4>1, SMTT(60) DEF Retries
    <3> QED BY <3>1, Zenon
  <2>2. retry \in {"shutdown", "gaveUp"} => ~link /\ \A s \in Starts : ~Alive(s)
    BY <2>1, Zenon DEF Owned, Loops, Alive
  <2> QED BY <2>2, Zenon DEF RetryIsTruthful, Retries
<1> QED BY <1>1, <1>2, StepLoops, StepOwned, StepRetries, TypesHold, PTL DEF Spec

-----------------------------------------------------------------------------
(* Stop.                                                                   *)

\* The signal, the steps of ConnectWithRetry and its context leave every call,
\* loop and link alone; a drop takes only the link.
LEMMA Aside ==
  /\ SignalLost \/ retryBegins \/ ConnectWithRetry \/ ctxCancelled \/ UNCHANGED vars
       => UNCHANGED <<started, cancel, loopDone, pc, myCancel, myDone, loop, stopped, link>>
  /\ Drop => UNCHANGED <<started, cancel, loopDone, pc, myCancel, myDone, loop, stopped>> /\ ~link'
<1> USE DEF callVars, loopVars, connVars, histVars
<1>1. SignalLost => UNCHANGED <<started, cancel, loopDone, pc, myCancel, myDone, loop, stopped, link>>
  BY Zenon DEF SignalLost
<1>2. retryBegins => UNCHANGED <<started, cancel, loopDone, pc, myCancel, myDone, loop, stopped, link>>
  BY Zenon DEF retryBegins
<1>3. startReturns => UNCHANGED <<started, cancel, loopDone, pc, myCancel, myDone, loop, stopped, link>>
  BY Zenon DEF startReturns
<1>4. retryResumes \/ retryEnds => UNCHANGED <<started, cancel, loopDone, pc, myCancel, myDone, loop, stopped, link>>
  BY Zenon DEF retryResumes, retryEnds
<1>5. ctxCancelled => UNCHANGED <<started, cancel, loopDone, pc, myCancel, myDone, loop, stopped, link>>
  BY Zenon DEF ctxCancelled
<1>6. UNCHANGED vars => UNCHANGED <<started, cancel, loopDone, pc, myCancel, myDone, loop, stopped, link>>
  BY Zenon DEF vars
<1>7. Drop => UNCHANGED <<started, cancel, loopDone, pc, myCancel, myDone, loop, stopped>> /\ ~link'
  BY Zenon DEF Drop
<1> QED BY <1>1, <1>2, <1>3, <1>4, <1>5, <1>6, <1>7, Zenon DEF ConnectWithRetry

\* Only its own steps move a Start.
LEMMA OnlyStartMoves ==
  ASSUME Types, [Next]_vars, NEW s \in Starts
  PROVE  (Start(s) => pc'[s] # "idle") /\ (~Start(s) => pc'[s] = pc[s])
<1> USE Calls DEF Types, Goto, callVars, loopVars, connVars, histVars, retryVars
<1>1. ASSUME NEW r \in Starts, Start(r) PROVE pc'[r] # "idle" /\ (r # s => pc'[s] = pc[s])
  BY <1>1, ZenonT(60) DEF Start, StartBegins, DrainLost, StartConnects, StartConnected, StartFails, StartPublishes, StartUndoes
<1>2. ASSUME NEW r \in Starts, Loop(r) \/ Stabilises(r) \/ CallerCancels(r) PROVE pc'[s] = pc[s]
  BY <1>2, Zenon DEF Loop, LoopExits, LoopNotices, LoopTimer, LoopConnects, LoopConnected, Stabilises, CallerCancels
<1>3. ASSUME NEW t \in Stops, Stop(t) PROVE pc'[s] = pc[s]
  BY <1>3, ZenonT(60) DEF Stop, StopBegins, StopCancels, StopWaits, StopExpires, StopDisconnects
<1>4. Drop \/ SignalLost \/ retryBegins \/ ConnectWithRetry \/ ctxCancelled \/ UNCHANGED vars => pc'[s] = pc[s]
  BY Aside, Zenon
<1> QED BY <1>1, <1>2, <1>3, <1>4, Zenon DEF Next

\* Every step keeps Quiet.
LEMMA StepQuiet == Types /\ Loops /\ Quiet /\ [Next]_vars => Quiet'
<1> SUFFICES ASSUME Types, Loops, Quiet, [Next]_vars, \A s \in Starts : pc'[s] = "idle"
             PROVE  /\ ~started' /\ cancel' = None /\ loopDone' = None /\ ~link' /\ stopped' = {}
                    /\ \A t \in Stops : myCancel'[t] = None /\ myDone'[t] = None
  BY Zenon DEF Quiet
<1> USE Calls DEF Types, Goto, callVars, loopVars, connVars, histVars, retryVars
<1>1. \A s \in Starts : pc[s] = "idle" /\ ~Start(s) /\ loop[s] = "off"
  BY OnlyStartMoves, Zenon DEF Loops
<1>2. /\ ~started /\ cancel = None /\ loopDone = None /\ ~link /\ stopped = {}
      /\ \A t \in Stops : myCancel[t] = None /\ myDone[t] = None
  BY <1>1, Zenon DEF Quiet
<1>3. ASSUME NEW s \in Starts PROVE ~Loop(s)
  BY <1>1, Zenon DEF Loop, LoopExits, LoopNotices, LoopTimer, LoopConnects, LoopConnected
<1>4. ASSUME NEW s \in Starts, Stabilises(s) \/ CallerCancels(s)
      PROVE  UNCHANGED <<started, cancel, loopDone, link, myCancel, myDone, stopped>>
  BY <1>4, Zenon DEF Stabilises, CallerCancels
<1>5. ASSUME NEW t \in Stops, StopBegins(t)
      PROVE  /\ ~started' /\ cancel' = None /\ loopDone' = None /\ link' = link /\ stopped' = stopped
             /\ \A u \in Stops : myCancel'[u] = None /\ myDone'[u] = None
  BY <1>2, <1>5, ZenonT(60) DEF StopBegins
<1>6. ASSUME NEW t \in Stops, StopCancels(t) \/ StopWaits(t) \/ StopExpires(t) \/ StopDisconnects(t)
      PROVE  UNCHANGED <<started, cancel, loopDone, myCancel, myDone, stopped>> /\ (link' => link)
  BY <1>2, <1>6, SMTT(60) DEF StopCancels, StopWaits, StopExpires, StopDisconnects, Disconnects
<1>7. Drop \/ SignalLost \/ retryBegins \/ ConnectWithRetry \/ ctxCancelled \/ UNCHANGED vars
      => UNCHANGED <<started, cancel, loopDone, myCancel, myDone, stopped>> /\ (link' => link)
  BY Aside, Zenon
<1> QED BY <1>1, <1>2, <1>3, <1>4, <1>5, <1>6, <1>7, SMTT(60) DEF Next, Stop

\* A Start that has published nothing moves on to a place before that.
LEMMA StartMoves ==
  ASSUME Types, NEW s \in Starts, Single(s), pc[s] # "ok", NEW label, label # "ok",
         pc' = [pc EXCEPT ![s] = label], UNCHANGED <<started, cancel, loopDone, myCancel, myDone, loop, stopped>>
  PROVE  Single(s)'
<1>1. pc'[s] # "ok" /\ \A t \in Stops : pc'[t] = pc[t]
  BY Calls, Zenon DEF Types
<1> QED BY <1>1, Zenon DEF Single

\* The steps of the only Start keep what it has with its Stops.
LEMMA StartSingle ==
  ASSUME Types, Loops, Quiet, NEW s \in Starts, Start(s), \A r \in Starts \ {s} : pc[r] = "idle",
         pc[s] # "idle" => Single(s)
  PROVE  Single(s)'
<1> USE Calls DEF Single, Types, Goto, LGoto, callVars, loopVars, connVars, histVars, retryVars
<1>1. CASE StartBegins(s)
  <2>1. pc[s] = "idle"
    BY <1>1, Zenon DEF StartBegins
  <2>2. /\ ~started /\ cancel = None /\ loopDone = None /\ stopped = {}
        /\ \A t \in Stops : myCancel[t] = None /\ myDone[t] = None
    BY <2>1, Zenon DEF Quiet
  <2> QED BY <1>1, <2>2, ZenonT(60) DEF StartBegins
<1>2. ASSUME ~StartBegins(s) PROVE Single(s) /\ pc[s] # "ok"
  BY <1>2, Zenon DEF Start, DrainLost, StartConnects, StartConnected, StartFails, StartPublishes, StartUndoes
<1>3. CASE DrainLost(s) \/ StartConnects(s)
  <2>1. Single(s) /\ pc[s] # "ok"
    BY <1>2, <1>3, Zenon DEF StartBegins, DrainLost, StartConnects
  <2>2. /\ pc' = [pc EXCEPT ![s] = "connect"] \/ pc' = [pc EXCEPT ![s] = "connecting"]
        /\ UNCHANGED <<started, cancel, loopDone, myCancel, myDone, loop, stopped>>
    BY <1>3, Zenon DEF DrainLost, StartConnects
  <2> HIDE DEF Single, Types
  <2> QED BY <2>1, <2>2, StartMoves, Zenon
<1>4. CASE StartConnected(s)
  <2> HIDE DEF Single, Types
  <2>1. /\ pc[s] = "connecting" /\ UNCHANGED <<started, cancel, loopDone, myCancel, myDone, loop, stopped>>
        /\ pc' = [pc EXCEPT ![s] = "publish"] \/ pc' = [pc EXCEPT ![s] = "fail"]
    BY <1>4, Connected, Zenon
  <2>2. Single(s)
    BY <1>2, <2>1, Zenon DEF StartBegins
  <2> QED BY <2>1, <2>2, StartMoves, Zenon
<1>5. CASE StartFails(s)
  BY <1>2, <1>5, Zenon DEF StartBegins, StartFails
<1>6. CASE StartPublishes(s)
  <2>1. Single(s) /\ pc[s] = "publish"
    BY <1>2, <1>6, Zenon DEF StartBegins, StartPublishes
  <2>2. CASE started
    <3>1. cancel = s /\ cancel' = s /\ loopDone' = s /\ pc' = [pc EXCEPT ![s] = "ok"]
          /\ UNCHANGED <<started, myCancel, myDone, stopped, link>>
      BY <1>6, <2>1, <2>2, Zenon DEF StartPublishes
    <3>2. \A t \in Stops : myCancel[t] = None /\ myDone[t] = None
      BY <2>1, <3>1, Zenon
    <3>3. s \notin stopped
      BY <2>1, <3>2, Zenon
    <3> QED BY <2>1, <3>1, <3>2, <3>3, Zenon
  <2>3. CASE ~started
    BY <1>6, <2>1, <2>3, ZenonT(60) DEF StartPublishes
  <2> QED BY <2>2, <2>3, Zenon
<1>7. CASE StartUndoes(s)
  BY <1>2, <1>7, Zenon DEF StartBegins, StartUndoes, Disconnects
<1> QED BY <1>1, <1>3, <1>4, <1>5, <1>6, <1>7, Zenon DEF Start

\* So do the steps of its loop.
LEMMA LoopSingle ==
  ASSUME Types, Loops, NEW s \in Starts, Single(s), Loop(s)
  PROVE  Single(s)'
<1> USE Calls DEF Single, Types, LGoto, callVars, loopVars, connVars, histVars, retryVars
<1>1. loop[s] # "exit" /\ loop' = [loop EXCEPT ![s] = loop'[s]]
      /\ UNCHANGED <<callVars, stopped>>
  BY Connected, SMTT(60) DEF Loop, LoopExits, LoopNotices, LoopTimer, LoopConnects, LoopConnected, ConnectEnds
<1>2. pc[s] = "ok"
  BY Zenon DEF Loops, Loop, LoopExits, LoopNotices, LoopTimer, LoopConnects, LoopConnected
<1> QED BY <1>1, <1>2, Zenon

\* And so do the steps of a Stop.
LEMMA StopSingle ==
  ASSUME Types, Loops, NEW s \in Starts, Single(s), NEW t \in Stops, Stop(t)
  PROVE  Single(s)'
<1> USE Calls DEF Single, Types, Goto, callVars, loopVars, connVars, histVars, retryVars
<1>1. CASE StopBegins(t)
  BY <1>1, ZenonT(60) DEF StopBegins
<1>2. CASE StopCancels(t) \/ StopExpires(t)
  BY <1>2, SMTT(60) DEF StopCancels, StopExpires
<1>3. CASE StopWaits(t)
  BY <1>3, ZenonT(60) DEF StopWaits
<1>4. CASE StopDisconnects(t)
  BY <1>4, ZenonT(60) DEF StopDisconnects, Disconnects
<1> QED BY <1>1, <1>2, <1>3, <1>4, Zenon DEF Stop

\* Every step keeps Singles.
LEMMA StepSingles == Types /\ Loops /\ Quiet /\ Singles /\ [Next]_vars => Singles'
<1> SUFFICES ASSUME Types, Loops, Quiet, Singles, [Next]_vars, NEW s \in Starts, Alone(s)' PROVE Single(s)'
  BY Zenon DEF Singles
<1>1. \A r \in Starts \ {s} : pc[r] = "idle" /\ ~Start(r) /\ loop[r] = "off"
  BY OnlyStartMoves, Zenon DEF Alone, Loops
<1>2. CASE Start(s)
  BY <1>1, <1>2, StartSingle, Zenon DEF Singles, Alone
<1>3. ASSUME NEW r \in Starts, Loop(r) PROVE r = s
  BY <1>1, <1>3, Zenon DEF Loop, LoopExits, LoopNotices, LoopTimer, LoopConnects, LoopConnected
<1>4. CASE pc[s] = "idle"
  BY <1>2, <1>4, OnlyStartMoves, Zenon DEF Alone
<1>5. CASE pc[s] # "idle"
  <2>1. Single(s)
    BY <1>1, <1>5, Zenon DEF Singles, Alone
  <2>2. ASSUME NEW r \in Starts, Stabilises(r) \/ CallerCancels(r) PROVE Single(s)'
    <3>1. /\ started' = started /\ cancel' = cancel /\ loopDone' = loopDone /\ pc' = pc /\ myCancel' = myCancel
          /\ myDone' = myDone /\ loop' = loop /\ stopped' = stopped /\ link' = link
      BY <2>2, Zenon DEF Stabilises, CallerCancels, callVars, loopVars, connVars, histVars
    <3> QED BY <2>1, <3>1, Zenon DEF Single
  <2>3. CASE Drop
    <3>1. /\ started' = started /\ cancel' = cancel /\ loopDone' = loopDone /\ pc' = pc /\ myCancel' = myCancel
          /\ myDone' = myDone /\ loop' = loop /\ stopped' = stopped /\ ~link'
      BY <2>3, Aside, Zenon
    <3> QED BY <2>1, <3>1, Zenon DEF Single
  <2>4. SignalLost \/ retryBegins \/ ConnectWithRetry \/ ctxCancelled \/ UNCHANGED vars => Single(s)'
    BY <2>1, Aside, Zenon DEF Single
  <2> QED BY <1>1, <1>2, <1>3, <2>1, <2>2, <2>3, <2>4, LoopSingle, StopSingle, Zenon DEF Next
<1> QED BY <1>4, <1>5, Zenon

\* "Stop cancels the loop and disconnects the session", for any number of
\* Stops, of drops and of reconnects.
THEOREM StopFinal == Spec => []StopIsFinal
<1>1. Init => Loops /\ Owned /\ Quiet /\ Singles
  BY ZenonT(60) DEF Init, Loops, Owned, Quiet, Singles, Alone
<1>2. Types /\ Loops /\ Owned /\ Singles => StopIsFinal
  <2> SUFFICES ASSUME Types, Loops, Owned, Singles, NEW s \in stopped, pc[s] \in {"ok", "failed"},
                      \A r \in Starts \ {s} : pc[r] = "idle"
               PROVE  ~Alive(s) /\ ~link
    BY Zenon DEF StopIsFinal
  <2>1. s \in Starts /\ Single(s)
    BY Zenon DEF Singles, Alone, Types
  <2> QED BY <2>1, Zenon DEF Single, Loops, Owned, Alive
<1> QED BY <1>1, <1>2, StepLoops, StepOwned, StepQuiet, StepSingles, TypesHold, PTL DEF Spec

=============================================================================
