-------------------------------- MODULE Link --------------------------------
(***************************************************************************)
(* One connection and the goroutines that share it: the read loop, the     *)
(* keep-alive loop with its PINGRESP watchdog, goroutines in Publish, and  *)
(* callers in Connect and Disconnect.  They meet in writeFrame's sendMu,   *)
(* in teardownLink's closeOnce, in the graceful mark and in the link       *)
(* pointer; Connect also meets the function that its context calls when it *)
(* is done.  A message handler runs on the read loop, and may publish and  *)
(* wait there itself.                                                      *)
(*                                                                         *)
(* The peer is external: it may close the socket, or stop reading and      *)
(* answering without closing it, and it owes nobody an acknowledgement.    *)
(***************************************************************************)
EXTENDS Integers, FiniteSets

CONSTANTS
  Writers,              \* goroutines that publish
  MaxFrames,            \* bound: publishes of each of them and of the handlers,
                        \* and frames that Connect replays
  MaxPings              \* bound: answers a peer that is alive, and a read loop
                        \* that is reading, may be behind by

ASSUME LinkAssumption ==
  /\ MaxFrames \in Nat /\ MaxPings \in Nat
  /\ Writers \cap {"connect", "reader", "keepalive", "disconnect", "new", "done", "none"} = {}

pingTimeoutThreshold == 2

Goroutines == Writers \cup {"connect", "reader", "keepalive", "disconnect"}
Publishers == Writers \cup {"reader"}
None == "none"

VARIABLES
  peer,                 \* "alive", "silent" (half-open) or "closed"
  pings, pingresps,     \* PINGREQs the peer has to answer, answers on their way
  acks,                 \* the writers whose acknowledgement is on its way (no
                        \* handler is there to see its own)
  link,                 \* c.link points to this connection
  watcher,              \* the AfterFunc of Connect's context: "armed", "running",
                        \* "done" or "stopped"
  poisoned,             \* the socket's deadline has passed
  sendMu,               \* who holds link.sendMu
  graceful,             \* link.graceful
  once,                 \* closeOnce: "new", the goroutine inside, or "done"
  stopped,              \* link.stop is closed, and with it the socket
  outstandingPings,
  lost,                 \* lostCh has been signalled
  pc, arg,              \* arg: the graceful argument of a teardownLink call
  frames,               \* bound
  fault,                \* history: the connection failed on its own
  unanswered,           \* history: PINGREQs on the wire since the last PINGRESP
  timeout               \* history: unanswered when the watchdog fired, -1 before

vars == <<peer, pings, pingresps, acks, sendMu, graceful, once, stopped, outstandingPings, lost, pc, arg,
          frames, fault, unanswered, timeout, link, watcher, poisoned>>

setup == <<link, watcher, poisoned>>

Goto(g, label) == pc' = [pc EXCEPT ![g] = label]

-----------------------------------------------------------------------------
(* The peer (external).                                                    *)

PeerFails ==
  /\ peer = "alive" /\ peer' \in {"silent", "closed"} /\ fault' = TRUE
  /\ UNCHANGED <<pings, pingresps, acks, sendMu, graceful, once, stopped, outstandingPings, lost, pc, arg,
                 frames, unanswered, timeout, setup>>

PeerAnswers ==
  /\ peer = "alive" /\ pings > 0 /\ pings' = pings - 1 /\ pingresps' = pingresps + 1
  /\ UNCHANGED <<peer, acks, sendMu, graceful, once, stopped, outstandingPings, lost, pc, arg, frames,
                 fault, unanswered, timeout, setup>>

PeerAcks(g) ==
  /\ peer = "alive" /\ pc[g] = "await" /\ g \notin acks /\ acks' = acks \cup {g}
  /\ UNCHANGED <<peer, pings, pingresps, sendMu, graceful, once, stopped, outstandingPings, lost, pc,
                 arg, frames, fault, unanswered, timeout, setup>>

-----------------------------------------------------------------------------
(* writeFrame and teardownLink, as any goroutine runs them.                *)

\* Mutant: no write deadline; the writer parks on a peer that stopped reading.
WriteOutcomesParked ==
  IF stopped \/ peer = "closed" THEN {"error"} ELSE IF peer = "silent" THEN {} ELSE {"ok"}

\* The outcomes of Write and Flush: a socket that is closed refuses, a peer
\* that stopped reading lets the write through into the kernel's buffer or
\* lets the deadline expire.
WriteOutcomes ==
  IF stopped \/ peer = "closed" THEN {"error"}
  ELSE IF peer = "silent" THEN {"ok", "error"} ELSE {"ok"}

lockSend(g) ==
  /\ pc[g] = "lock" /\ sendMu = None /\ sendMu' = g /\ Goto(g, "write")
  /\ UNCHANGED <<peer, pings, pingresps, acks, graceful, once, stopped, outstandingPings, lost, arg, frames,
                 fault, unanswered, timeout, setup>>

\* Where a goroutine continues after a frame is out, and after a teardown.
AfterWrite(g) ==
  CASE g = "keepalive" -> "tick" [] g = "disconnect" -> "close" [] g = "connect" -> "replay"
    [] g \in Publishers -> "await"

\* A publish returns, in the read loop to the loop.
AfterPublish(g) == IF g = "reader" THEN "read" ELSE "idle"

\* "closeOwn" is a loop's or Disconnect's own call, not the one in writeFrame.
AfterTeardown(g) ==
  CASE g = "keepalive" -> "exit"
    [] g = "connect" -> "replay"
    [] g = "disconnect" -> IF pc[g] = "closeOwn" THEN "wait" ELSE "close"
    [] g \in Publishers -> IF pc[g] = "closeOwn" THEN "exit" ELSE AfterPublish(g)

\* The frame is out, or sendMu is released and the link torn down.
writeFrame(g) ==
  /\ pc[g] = "write" /\ sendMu' = None
  /\ \E r \in WriteOutcomes :
       IF r = "ok"
       THEN /\ Goto(g, AfterWrite(g)) /\ UNCHANGED arg
            /\ pings' = IF g = "keepalive" THEN pings + 1 ELSE pings
            /\ unanswered' = IF g = "keepalive" THEN unanswered + 1 ELSE unanswered
            /\ peer' = IF g = "disconnect" /\ peer = "alive" THEN "closed" ELSE peer
       ELSE /\ Goto(g, "teardown") /\ arg' = [arg EXCEPT ![g] = graceful]
            /\ UNCHANGED <<pings, unanswered, peer>>
  /\ UNCHANGED <<pingresps, acks, graceful, once, stopped, outstandingPings, lost, frames, fault, timeout, setup>>

signalLost(g) == lost' = (lost \/ ~arg[g])

\* closeOnce.Do: the first caller closes, the others wait for it.
teardownBegins(g) ==
  /\ pc[g] \in {"teardown", "closeOwn"} /\ once = "new"
  /\ once' = g /\ stopped' = TRUE
  /\ UNCHANGED <<peer, pings, pingresps, acks, sendMu, graceful, outstandingPings, lost, pc, arg, frames,
                 fault, unanswered, timeout, setup>>

\* Mutant: the waiters are left to their timers.
teardownEndsMute(g) ==
  /\ once = g /\ once' = "done" /\ Goto(g, AfterTeardown(g))
  /\ IF link THEN link' = FALSE /\ signalLost(g) /\ acks' = {} ELSE UNCHANGED <<link, lost, acks>>
  /\ UNCHANGED <<peer, pings, pingresps, sendMu, graceful, stopped, outstandingPings, arg, frames,
                 fault, unanswered, timeout, watcher, poisoned>>

\* ... and, unless Connect has yet to publish the link, fails the waiters,
\* clears the link pointer and signals the drop.
teardownEnds(g) ==
  /\ once = g /\ once' = "done"
  /\ IF link
     THEN /\ link' = FALSE /\ signalLost(g) /\ acks' = {}
          /\ pc' = [h \in Goroutines |-> IF h = g THEN AfterTeardown(g)
                                          ELSE IF pc[h] = "await" THEN AfterPublish(h) ELSE pc[h]]
     ELSE Goto(g, AfterTeardown(g)) /\ UNCHANGED <<link, lost, acks>>
  /\ UNCHANGED <<peer, pings, pingresps, sendMu, graceful, stopped, outstandingPings, arg, frames,
                 fault, unanswered, timeout, watcher, poisoned>>

teardownLater(g) ==
  /\ pc[g] \in {"teardown", "closeOwn"} /\ once = "done" /\ Goto(g, AfterTeardown(g))
  /\ UNCHANGED <<peer, pings, pingresps, acks, sendMu, graceful, once, stopped, outstandingPings, lost, arg,
                 frames, fault, unanswered, timeout, setup>>

teardownLink(g) == teardownBegins(g) \/ teardownEnds(g) \/ teardownLater(g)

-----------------------------------------------------------------------------
(* Connect, from the CONNECT packet on, and the AfterFunc of its context.  *)

\* The context is cancelled or DialTimeout is over; then the function runs.
contextEnds ==
  /\ watcher = "armed" /\ watcher' = "running"
  /\ UNCHANGED <<peer, pings, pingresps, acks, sendMu, graceful, once, stopped, outstandingPings, lost, pc,
                 arg, frames, fault, unanswered, timeout, link, poisoned>>

poisonDeadline ==
  /\ watcher = "running" /\ watcher' = "done" /\ poisoned' = TRUE
  /\ UNCHANGED <<peer, pings, pingresps, acks, sendMu, graceful, once, stopped, outstandingPings, lost, pc,
                 arg, frames, fault, unanswered, timeout, link>>

\* A CONNACK that is accepted; or a refusal, an error or a CONNACK that
\* Connect refuses, after which the socket is closed.
connectHandshakes ==
  /\ pc["connect"] = "handshake"
  /\ \/ peer = "alive" /\ ~poisoned /\ Goto("connect", "stop")
     \/ Goto("connect", "failed")
  /\ UNCHANGED <<peer, pings, pingresps, acks, sendMu, graceful, once, stopped, outstandingPings, lost, arg,
                 frames, fault, unanswered, timeout, setup>>

\* Mutant: Connect does not look at what stop returns.
connectStopsBlindly ==
  /\ pc["connect"] = "stop" /\ Goto("connect", "clear")
  /\ watcher' = IF watcher = "armed" THEN "stopped" ELSE watcher
  /\ UNCHANGED <<peer, pings, pingresps, acks, sendMu, graceful, once, stopped, outstandingPings, lost, arg,
                 frames, fault, unanswered, timeout, link, poisoned>>

\* stop reports whether the function has been kept from running.
connectStops ==
  /\ pc["connect"] = "stop"
  /\ IF watcher = "armed" THEN watcher' = "stopped" /\ Goto("connect", "clear")
     ELSE Goto("connect", "failed") /\ UNCHANGED watcher
  /\ UNCHANGED <<peer, pings, pingresps, acks, sendMu, graceful, once, stopped, outstandingPings, lost, arg,
                 frames, fault, unanswered, timeout, link, poisoned>>

connectClears ==
  /\ pc["connect"] = "clear" /\ poisoned' = FALSE /\ Goto("connect", "replay")
  /\ UNCHANGED <<peer, pings, pingresps, acks, sendMu, graceful, once, stopped, outstandingPings, lost, arg,
                 frames, fault, unanswered, timeout, link, watcher>>

\* replaySession and replaySubscriptions: another frame, whatever became of
\* the one before.
connectReplays ==
  /\ pc["connect"] = "replay" /\ frames["connect"] < MaxFrames
  /\ frames' = [frames EXCEPT !["connect"] = @ + 1] /\ Goto("connect", "lock")
  /\ UNCHANGED <<peer, pings, pingresps, acks, sendMu, graceful, once, stopped, outstandingPings, lost, arg,
                 fault, unanswered, timeout, setup>>

Running == [pc EXCEPT !["connect"] = "done", !["reader"] = "read", !["keepalive"] = "tick"]

\* Mutant: a link that a replay has torn down is published all the same.
connectPublishesDead ==
  /\ pc["connect"] = "replay" /\ link' = TRUE /\ pc' = Running
  /\ frames' = [frames EXCEPT !["connect"] = 0]
  /\ UNCHANGED <<peer, pings, pingresps, acks, sendMu, graceful, once, stopped, outstandingPings, lost, arg,
                 fault, unanswered, timeout, watcher, poisoned>>

\* A link that is not stopping is published, and its loops start.
connectPublishes ==
  /\ pc["connect"] = "replay"
  /\ IF stopped THEN Goto("connect", "failed") /\ UNCHANGED link
     ELSE link' = TRUE /\ pc' = Running
  /\ frames' = [frames EXCEPT !["connect"] = 0]
  /\ UNCHANGED <<peer, pings, pingresps, acks, sendMu, graceful, once, stopped, outstandingPings, lost, arg,
                 fault, unanswered, timeout, watcher, poisoned>>

Connect == connectHandshakes \/ connectStops \/ connectClears \/ connectReplays \/ connectPublishes

-----------------------------------------------------------------------------
(* The goroutines.                                                         *)

\* Publish: load the link, register the waiter, write, wait.
Publish(g) ==
  /\ pc[g] = "idle" /\ link /\ frames[g] < MaxFrames
  /\ frames' = [frames EXCEPT ![g] = @ + 1] /\ Goto(g, "lock")
  /\ UNCHANGED <<peer, pings, pingresps, acks, sendMu, graceful, once, stopped, outstandingPings, lost,
                 arg, fault, unanswered, timeout, setup>>

\* waitAck gives up: the caller's context, or the acknowledgement timer if
\* there is one.  At QoS 0 there is nothing to wait for.
waitAckEnds(g) ==
  /\ pc[g] = "await" /\ Goto(g, AfterPublish(g)) /\ acks' = acks \ {g}
  /\ UNCHANGED <<peer, pings, pingresps, sendMu, graceful, once, stopped, outstandingPings, lost, arg,
                 frames, fault, unanswered, timeout, setup>>

\* readLoop: an acknowledgement ends its publisher's wait.
readAck(g) ==
  /\ pc["reader"] = "read" /\ g \in acks /\ ~stopped
  /\ acks' = acks \ {g} /\ Goto(g, AfterPublish(g))
  /\ UNCHANGED <<peer, pings, pingresps, sendMu, graceful, once, stopped, outstandingPings, lost, arg,
                 frames, fault, unanswered, timeout, setup>>

\* readLoop: dispatch runs a handler, and the handler publishes.
dispatch ==
  /\ pc["reader"] = "read" /\ ~stopped /\ frames["reader"] < MaxFrames
  /\ frames' = [frames EXCEPT !["reader"] = @ + 1] /\ Goto("reader", "lock")
  /\ UNCHANGED <<peer, pings, pingresps, acks, sendMu, graceful, once, stopped, outstandingPings, lost,
                 arg, fault, unanswered, timeout, setup>>

\* readLoop: a PINGRESP resets the watchdog.
readPingresp ==
  /\ pc["reader"] = "read" /\ pingresps > 0 /\ ~stopped
  /\ pingresps' = pingresps - 1 /\ outstandingPings' = 0 /\ unanswered' = 0
  /\ UNCHANGED <<peer, pings, acks, sendMu, graceful, once, stopped, lost, pc, arg, frames, fault, timeout, setup>>

readError ==
  /\ pc["reader"] = "read" /\ (stopped \/ poisoned \/ (peer = "closed" /\ pingresps = 0))
  /\ Goto("reader", "closeOwn") /\ arg' = [arg EXCEPT !["reader"] = graceful]
  /\ UNCHANGED <<peer, pings, pingresps, acks, sendMu, graceful, once, stopped, outstandingPings, lost,
                 frames, fault, unanswered, timeout, setup>>

readLoop == readPingresp \/ readError \/ \E g \in Writers : readAck(g)

\* keepAliveLoop: the stop channel is closed.
keepAliveStops ==
  /\ pc["keepalive"] = "tick" /\ stopped /\ Goto("keepalive", "exit")
  /\ UNCHANGED <<peer, pings, pingresps, acks, sendMu, graceful, once, stopped, outstandingPings, lost, arg,
                 frames, fault, unanswered, timeout, setup>>

\* Mutant: the watchdog counts the PINGREQ it is about to send.
keepAliveTicksEager ==
  /\ pc["keepalive"] = "tick"
  /\ peer = "alive" /\ pc["reader"] = "read" /\ outstandingPings < pingTimeoutThreshold
       => pings + pingresps < MaxPings
  /\ IF outstandingPings + 1 >= pingTimeoutThreshold
     THEN /\ Goto("keepalive", "teardown") /\ arg' = [arg EXCEPT !["keepalive"] = graceful]
          /\ timeout' = unanswered /\ fault' = TRUE /\ UNCHANGED outstandingPings
     ELSE /\ Goto("keepalive", "lock") /\ outstandingPings' = outstandingPings + 1
          /\ UNCHANGED <<arg, timeout, fault>>
  /\ UNCHANGED <<peer, pings, pingresps, acks, sendMu, graceful, once, stopped, lost, frames, unanswered, setup>>

\* A tick: the watchdog fires, or the PINGREQ is counted and then written.
keepAliveTicks ==
  /\ pc["keepalive"] = "tick"
  /\ peer = "alive" /\ pc["reader"] = "read" /\ outstandingPings < pingTimeoutThreshold
       => pings + pingresps < MaxPings
  /\ IF outstandingPings >= pingTimeoutThreshold
     THEN /\ Goto("keepalive", "teardown") /\ arg' = [arg EXCEPT !["keepalive"] = graceful]
          /\ timeout' = unanswered /\ fault' = TRUE /\ UNCHANGED outstandingPings
     ELSE /\ Goto("keepalive", "lock") /\ outstandingPings' = outstandingPings + 1
          /\ UNCHANGED <<arg, timeout, fault>>
  /\ UNCHANGED <<peer, pings, pingresps, acks, sendMu, graceful, once, stopped, lost, frames, unanswered, setup>>

keepAliveLoop == keepAliveStops \/ keepAliveTicks

\* Disconnect, which connMu keeps out of Connect: mark the link, send DISCONNECT, tear down, wait for the loops.
disconnectBegins ==
  /\ pc["disconnect"] = "idle" /\ pc["connect"] \in {"done", "failed"}
  /\ IF link THEN Goto("disconnect", "lock") /\ graceful' = TRUE
     ELSE Goto("disconnect", "done") /\ UNCHANGED graceful
  /\ UNCHANGED <<peer, pings, pingresps, acks, sendMu, once, stopped, outstandingPings, lost, arg, frames,
                 fault, unanswered, timeout, setup>>

disconnectCloses ==
  /\ pc["disconnect"] = "close" /\ Goto("disconnect", "closeOwn")
  /\ arg' = [arg EXCEPT !["disconnect"] = TRUE]
  /\ UNCHANGED <<peer, pings, pingresps, acks, sendMu, graceful, once, stopped, outstandingPings, lost,
                 frames, fault, unanswered, timeout, setup>>

disconnectReturns ==
  /\ pc["disconnect"] = "wait" /\ pc["reader"] = "exit" /\ pc["keepalive"] = "exit"
  /\ Goto("disconnect", "done")
  /\ UNCHANGED <<peer, pings, pingresps, acks, sendMu, graceful, once, stopped, outstandingPings, lost, arg,
                 frames, fault, unanswered, timeout, setup>>

Disconnect == disconnectCloses \/ disconnectReturns

-----------------------------------------------------------------------------
Init ==
  /\ peer = "alive" /\ pings = 0 /\ pingresps = 0 /\ acks = {} /\ sendMu = None /\ graceful = FALSE
  /\ once = "new" /\ stopped = FALSE /\ outstandingPings = 0 /\ lost = FALSE
  /\ pc = [g \in Goroutines |-> CASE g = "connect" -> "handshake" [] g \in {"reader", "keepalive"} -> "new"
                                  [] g \in Writers \cup {"disconnect"} -> "idle"]
  /\ link = FALSE /\ watcher = "armed" /\ poisoned = FALSE
  /\ arg = [g \in Goroutines |-> FALSE] /\ frames = [g \in Publishers \cup {"connect"} |-> 0]
  /\ fault = FALSE /\ unanswered = 0 /\ timeout = -1

Step(g) == lockSend(g) \/ writeFrame(g) \/ teardownLink(g)

Next ==
  \/ PeerFails \/ PeerAnswers \/ contextEnds \/ poisonDeadline \/ Connect
  \/ \E g \in Writers : Publish(g) \/ PeerAcks(g)
  \/ \E g \in Publishers : waitAckEnds(g)
  \/ \E g \in Goroutines : Step(g)
  \/ readLoop \/ dispatch \/ keepAliveLoop \/ disconnectBegins \/ Disconnect

Spec == Init /\ [][Next]_vars

\* Goroutines run, the ticker ticks; sendMu does not starve a waiter (Go's
\* mutexes hand over after a millisecond).  A peer owes nothing, and no
\* timer or context ends a wait for an acknowledgement.
Fairness ==
  /\ \A g \in Goroutines : WF_vars(Step(g))
  /\ SF_vars(lockSend("keepalive")) /\ SF_vars(lockSend("disconnect"))
  /\ WF_vars(Connect) /\ WF_vars(readLoop) /\ WF_vars(keepAliveLoop) /\ WF_vars(Disconnect)

FairSpec == Spec /\ Fairness

-----------------------------------------------------------------------------
Labels == {"new", "handshake", "stop", "clear", "replay", "failed", "idle", "lock", "write", "await",
           "teardown", "read", "tick", "exit", "close", "closeOwn", "wait", "done"}

\* Every variable holds a value its Go counterpart can hold; the watchdog's
\* counter never passes its threshold.
TypeOK ==
  /\ peer \in {"alive", "silent", "closed"} /\ pings \in Nat /\ pingresps \in Nat
  /\ sendMu \in Goroutines \cup {None} /\ graceful \in BOOLEAN
  /\ once \in Goroutines \cup {"new", "done"} /\ stopped \in BOOLEAN
  /\ outstandingPings \in 0 .. pingTimeoutThreshold /\ lost \in BOOLEAN
  /\ pc \in [Goroutines -> Labels]
  /\ arg \in [Goroutines -> BOOLEAN] /\ frames \in [Publishers \cup {"connect"} -> 0 .. MaxFrames]
  /\ link \in BOOLEAN /\ watcher \in {"armed", "running", "done", "stopped"} /\ poisoned \in BOOLEAN
  /\ acks \subseteq Writers
  /\ fault \in BOOLEAN /\ unanswered \in Nat /\ timeout \in Nat \cup {-1}

\* link.graceful, the check of stop in Connect and the one of the link pointer
\* in teardownLink: a lost connection is signalled only of a session that
\* Connect has established and that failed on its own; not when Disconnect,
\* or a context that Connect's caller cancelled, is the reason.
LostMeansFailed == lost => fault /\ pc["connect"] = "done"

\* keepAliveLoop: the watchdog "reaches its threshold" only after two
\* PINGREQs, never "after a single lost PINGRESP".
WatchdogIsPatient == timeout # -1 => timeout >= pingTimeoutThreshold

\* keepAliveLoop, writeFrame's deadline and the isStopping check of Connect: a
\* link whose peer has vanished or that is torn down does not stay in the way
\* of the next Connect, whoever is stuck on it and wherever this one was.
DeadLinkIsCleared ==
  (peer # "alive" \/ stopped) ~> (~link /\ pc["connect"] \in {"done", "failed"})

\* Disconnect returns once it has begun, whoever holds sendMu or is tearing
\* the link down, without help from its context.
DisconnectReturns == (pc["disconnect"] # "idle") ~> (pc["disconnect"] = "done")

\* MessageHandler: a handler that publishes waits for an acknowledgement that
\* only its own goroutine could read.  The watchdog, whose answers go unread
\* too, ends that wait, as a lost connection ends every other.
WaitsEnd ==
  /\ (pc["reader"] = "await") ~> (pc["reader"] # "await")
  /\ \A g \in Writers : (pc[g] = "await" /\ peer # "alive") ~> (pc[g] # "await")

=============================================================================
