----------------------------- MODULE Lifecycle -----------------------------
(***************************************************************************)
(* The reconnect lifecycle of lifecycle.go: Start, Stop and the reconnect  *)
(* loop, around a connector.  The connector is TCPClient as they see it:   *)
(* Connect and Disconnect are serialised by connMu, a detected drop clears *)
(* the link and then puts a token into the one-slot ConnectionLost         *)
(* channel.                                                                *)
(*                                                                         *)
(* Every Start call has its own context and, if it gets that far, its own  *)
(* loop goroutine, so a call and its loop share one name.  The application *)
(* calls Start itself, or has ConnectWithRetry call it.  Time is           *)
(* abstracted: a timer that runs may fire.                                 *)
(***************************************************************************)
EXTENDS Integers, Sequences

CONSTANTS
  Starts, Stops,                  \* the calls
  None,
  InitialBackoff, MaxBackoff,
  Attempts, MaxAttempts,          \* ConnectWithRetry: its Start calls, in order
  MaxDrops, MaxConnects           \* bounds

ASSUME LifecycleAssumption ==
  /\ InitialBackoff \in Nat \ {0} /\ MaxBackoff \in Nat /\ MaxBackoff >= InitialBackoff
  /\ MaxDrops \in Nat /\ MaxConnects \in Nat
  /\ Attempts \in Seq(Starts) /\ MaxAttempts \in 1 .. Len(Attempts)
  /\ \A i \in 1 .. Len(Attempts), j \in 1 .. Len(Attempts) : Attempts[i] = Attempts[j] => i = j
  /\ Starts \cap Stops = {} /\ None \notin Starts \cup Stops

VARIABLES
  started, cancel, loopDone,      \* Lifecycle; cancel and loopDone name a Start call
  pc,                             \* Start and Stop calls
  myCancel, myDone,               \* the locals of a Stop
  cancelled,                      \* the Start calls whose runCtx is cancelled
  loop,                           \* a Start's reconnect loop
  backoff, delay, flapStreak, recent,   \* its locals; recent: lastSuccess is within FlapWindow
  link, connMu, doomed,           \* connector: session up; who connects; ctx dead from the start
  token, signalling,              \* lostCh is full; a teardown has yet to send on it
  retry, attempt,                 \* ConnectWithRetry; retry is "off" when it is not used
  ctxDone,                        \* its context
  drops, connects,                \* bounds
  unserved,                       \* history: a drop no connect attempt has followed
  stopped,                        \* history: the Start calls a finished Stop was to stop
  late                            \* history: ctxDone when ConnectWithRetry last called Start

callVars == <<started, cancel, loopDone, pc, myCancel, myDone, cancelled>>
loopVars == <<loop, backoff, delay, flapStreak, recent>>
retryVars == <<retry, attempt, ctxDone, late>>
connVars == <<link, connMu, doomed, token, signalling, drops, connects>>
histVars == <<unserved, stopped>>
vars == <<callVars, loopVars, connVars, histVars, retryVars>>

Goto(c, label)  == pc' = [pc EXCEPT ![c] = label]
LGoto(s, label) == loop' = [loop EXCEPT ![s] = label]
Smaller(a, b)   == IF a < b THEN a ELSE b

-----------------------------------------------------------------------------
(* The connector (TCPClient).                                              *)

\* Connect takes connMu.  A context that is dead already makes it fail.
ConnectBegins(s) ==
  /\ connMu = None /\ connects < MaxConnects
  /\ connMu' = s /\ connects' = connects + 1
  /\ doomed' = (s \in cancelled)
  /\ UNCHANGED <<link, token, signalling, drops>>

\* What Connect may return: already connected, success, or a failure.
ConnectResults ==
  IF link THEN {"already"} ELSE IF doomed THEN {"error"} ELSE {"ok", "error"}

ConnectEnds(s, r) ==
  /\ connMu = s /\ r \in ConnectResults
  /\ connMu' = None /\ link' = (link \/ r = "ok")
  /\ unserved' = FALSE
  /\ UNCHANGED <<doomed, token, signalling, drops, connects, stopped>>

\* Disconnect waits for connMu and tears a session down without a token.
Disconnects ==
  /\ connMu = None /\ link' = FALSE
  /\ UNCHANGED <<connMu, doomed, token, signalling, drops, connects>>

\* teardownLink of a detected drop: the link pointer is cleared ...
Drop ==
  /\ link /\ drops < MaxDrops /\ link' = FALSE
  /\ drops' = drops + 1 /\ signalling' = signalling + 1
  /\ unserved' = TRUE
  /\ UNCHANGED <<callVars, loopVars, connMu, doomed, token, connects, stopped, retryVars>>

\* ... and the channel signalled, unless its slot is full.
SignalLost ==
  /\ signalling > 0 /\ signalling' = signalling - 1 /\ token' = TRUE
  /\ UNCHANGED <<callVars, loopVars, link, connMu, doomed, drops, connects, histVars, retryVars>>

-----------------------------------------------------------------------------
(* Start.                                                                  *)

StartBegins(s) ==
  /\ pc[s] = "idle" /\ (retry = "off" \/ (retry = "starting" /\ s = Attempts[attempt]))
  /\ IF started THEN Goto(s, "failed") /\ UNCHANGED <<started, cancel>>
     ELSE started' = TRUE /\ cancel' = s /\ Goto(s, "drain")
  /\ cancelled' = IF ctxDone THEN cancelled \cup {s} ELSE cancelled
  /\ UNCHANGED <<loopDone, myCancel, myDone, loopVars, connVars, histVars, retryVars>>

\* Mutant: the channel is not drained.
DrainLostSkipped(s) ==
  /\ pc[s] = "drain" /\ Goto(s, "connect")
  /\ UNCHANGED <<started, cancel, loopDone, myCancel, myDone, cancelled, loopVars, connVars, histVars, retryVars>>

\* A token from before this lifecycle connected describes another session.
DrainLost(s) ==
  /\ pc[s] = "drain" /\ Goto(s, "connect")
  /\ token' = FALSE
  /\ UNCHANGED <<started, cancel, loopDone, myCancel, myDone, cancelled, loopVars,
                 link, connMu, doomed, signalling, drops, connects, histVars, retryVars>>

StartConnects(s) ==
  /\ pc[s] = "connect" /\ Goto(s, "connecting")
  /\ ConnectBegins(s)
  /\ UNCHANGED <<started, cancel, loopDone, myCancel, myDone, cancelled, loopVars, histVars, retryVars>>

\* connectOnce, with its callbacks; a failure cancels runCtx.
StartConnected(s) ==
  /\ pc[s] = "connecting"
  /\ \E r \in {"ok", "already", "error"} :
       /\ ConnectEnds(s, r)
       /\ Goto(s, IF r = "ok" THEN "publish" ELSE "fail")
       /\ cancelled' = IF r = "ok" THEN cancelled ELSE cancelled \cup {s}
  /\ UNCHANGED <<started, cancel, loopDone, myCancel, myDone, loopVars, retryVars>>

StartFails(s) ==
  /\ pc[s] = "fail" /\ Goto(s, "failed")
  /\ started' = FALSE
  /\ UNCHANGED <<cancel, loopDone, myCancel, myDone, cancelled, loopVars, connVars, histVars, retryVars>>

\* Mutant: Start does not look whether Stop ran during its connect.
StartPublishesAnyway(s) ==
  /\ pc[s] = "publish"
  /\ loopDone' = s /\ Goto(s, "ok")
  /\ loop' = [loop EXCEPT ![s] = "select"] /\ recent' = [recent EXCEPT ![s] = TRUE]
  /\ UNCHANGED <<started, cancel, myCancel, myDone, cancelled, backoff, delay, flapStreak,
                 connVars, histVars, retryVars>>

\* Mutant: the token is drained after the connect.
StartPublishesDrains(s) ==
  /\ pc[s] = "publish" /\ token' = FALSE
  /\ IF started
     THEN /\ loopDone' = s /\ Goto(s, "ok")
          /\ LGoto(s, "select") /\ recent' = [recent EXCEPT ![s] = TRUE]
     ELSE Goto(s, "undo") /\ UNCHANGED <<loopDone, loop, recent>>
  /\ UNCHANGED <<started, cancel, myCancel, myDone, cancelled, backoff, delay, flapStreak,
                 link, connMu, doomed, signalling, drops, connects, histVars, retryVars>>

\* Publish loopDone and run the loop, unless Stop ran during the connect.
StartPublishes(s) ==
  /\ pc[s] = "publish"
  /\ IF started
     THEN /\ loopDone' = s /\ Goto(s, "ok")
          /\ LGoto(s, "select") /\ recent' = [recent EXCEPT ![s] = TRUE]
     ELSE Goto(s, "undo") /\ UNCHANGED <<loopDone, loop, recent>>
  /\ UNCHANGED <<started, cancel, myCancel, myDone, cancelled, backoff, delay, flapStreak,
                 connVars, histVars, retryVars>>

StartUndoes(s) ==
  /\ pc[s] = "undo" /\ Goto(s, "failed")
  /\ Disconnects
  /\ UNCHANGED <<started, cancel, loopDone, myCancel, myDone, cancelled, loopVars, histVars, retryVars>>

Start(s) == StartBegins(s) \/ DrainLost(s) \/ StartConnects(s) \/ StartConnected(s)
            \/ StartFails(s) \/ StartPublishes(s) \/ StartUndoes(s)

\* The application cancels the context it gave to Start.
CallerCancels(s) ==
  /\ retry = "off" /\ pc[s] # "idle" /\ s \notin cancelled /\ cancelled' = cancelled \cup {s}
  /\ UNCHANGED <<started, cancel, loopDone, pc, myCancel, myDone, loopVars, connVars, histVars, retryVars>>

-----------------------------------------------------------------------------
(* ConnectWithRetry.  Its backoff after n attempts is FlapDelay[n], below. *)

retryBegins ==
  /\ retry = "idle" /\ retry' = "starting" /\ attempt' = 1 /\ late' = ctxDone
  /\ UNCHANGED <<callVars, loopVars, connVars, histVars, ctxDone>>

\* Mutant: the attempts are counted before the context is looked at.
startReturnsCounting ==
  /\ retry = "starting" /\ pc[Attempts[attempt]] \in {"ok", "failed"}
  /\ retry' = IF pc[Attempts[attempt]] = "ok" THEN "nil"
              ELSE IF attempt >= MaxAttempts THEN "gaveUp"
              ELSE IF ctxDone THEN "shutdown" ELSE "pause"
  /\ UNCHANGED <<callVars, loopVars, connVars, histVars, attempt, ctxDone, late>>

\* Start has returned.
startReturns ==
  /\ retry = "starting" /\ pc[Attempts[attempt]] \in {"ok", "failed"}
  /\ retry' = IF pc[Attempts[attempt]] = "ok" THEN "nil"
              ELSE IF ctxDone THEN "shutdown"
              ELSE IF attempt >= MaxAttempts THEN "gaveUp" ELSE "pause"
  /\ UNCHANGED <<callVars, loopVars, connVars, histVars, attempt, ctxDone, late>>

\* The backoff has passed.
retryResumes ==
  /\ retry = "pause" /\ retry' = "starting" /\ attempt' = attempt + 1 /\ late' = ctxDone
  /\ UNCHANGED <<callVars, loopVars, connVars, histVars, ctxDone>>

retryEnds ==
  /\ retry = "pause" /\ ctxDone /\ retry' = "shutdown"
  /\ UNCHANGED <<callVars, loopVars, connVars, histVars, attempt, ctxDone, late>>

ConnectWithRetry == startReturns \/ retryResumes \/ retryEnds

\* The application cancels the context it gave to ConnectWithRetry, and with
\* it the contexts of the Starts it made.
ctxCancelled ==
  /\ retry # "off" /\ ~ctxDone /\ ctxDone' = TRUE
  /\ cancelled' = cancelled \cup {s \in Starts : pc[s] # "idle"}
  /\ UNCHANGED <<started, cancel, loopDone, pc, myCancel, myDone, loopVars, connVars, histVars,
                 retry, attempt, late>>

-----------------------------------------------------------------------------
(* Stop.                                                                   *)

StopBegins(t) ==
  /\ pc[t] = "idle" /\ Goto(t, "cancel")
  /\ myCancel' = [myCancel EXCEPT ![t] = cancel]
  /\ myDone' = [myDone EXCEPT ![t] = loopDone]
  /\ started' = FALSE /\ cancel' = None /\ loopDone' = None
  /\ UNCHANGED <<cancelled, loopVars, connVars, histVars, retryVars>>

StopCancels(t) ==
  /\ pc[t] = "cancel" /\ Goto(t, "wait")
  /\ cancelled' = cancelled \cup ({myCancel[t]} \ {None})
  /\ UNCHANGED <<started, cancel, loopDone, myCancel, myDone, loopVars, connVars, histVars, retryVars>>

\* <-done: the loop has exited.
StopWaits(t) ==
  /\ pc[t] = "wait" /\ Goto(t, "disconnect")
  /\ myDone[t] # None => loop[myDone[t]] = "exit"
  /\ UNCHANGED <<started, cancel, loopDone, myCancel, myDone, cancelled, loopVars, connVars, histVars, retryVars>>

\* <-ctx.Done(): Stop's own context expires, and it disconnects all the same.
StopExpires(t) ==
  /\ pc[t] = "wait" /\ myDone[t] # None /\ Goto(t, "hurry")
  /\ UNCHANGED <<started, cancel, loopDone, myCancel, myDone, cancelled, loopVars, connVars, histVars, retryVars>>

StopDisconnects(t) ==
  /\ pc[t] \in {"disconnect", "hurry"} /\ Goto(t, "ok")
  /\ Disconnects
  /\ stopped' = IF pc[t] = "hurry" THEN stopped ELSE stopped \cup ({myCancel[t]} \ {None})
  /\ UNCHANGED <<started, cancel, loopDone, myCancel, myDone, cancelled, loopVars, unserved, retryVars>>

Stop(t) == StopBegins(t) \/ StopCancels(t) \/ StopWaits(t) \/ StopExpires(t)
           \/ StopDisconnects(t)

-----------------------------------------------------------------------------
(* loop.                                                                   *)

\* The delay after n consecutive flaps: InitialBackoff doubled n - 1 times,
\* at most MaxBackoff.
FlapDelay[n \in Nat] ==
  IF n <= 1 THEN InitialBackoff ELSE Smaller(2 * FlapDelay[n - 1], MaxBackoff)

LoopExits(s) ==
  /\ loop[s] \in {"select", "flapWait"} /\ s \in cancelled /\ LGoto(s, "exit")
  /\ UNCHANGED <<callVars, backoff, delay, flapStreak, recent, connVars, histVars, retryVars>>

\* <-lost: a drop within FlapWindow waits, any other reconnects at once.
LoopNotices(s) ==
  /\ loop[s] = "select" /\ token /\ token' = FALSE
  /\ IF recent[s]
     THEN /\ flapStreak' = [flapStreak EXCEPT ![s] = @ + 1]
          /\ delay' = [delay EXCEPT ![s] = FlapDelay[flapStreak'[s]]]
          /\ LGoto(s, "flapWait") /\ UNCHANGED backoff
     ELSE /\ flapStreak' = [flapStreak EXCEPT ![s] = 0]
          /\ backoff' = [backoff EXCEPT ![s] = InitialBackoff]
          /\ LGoto(s, "connect") /\ UNCHANGED delay
  /\ UNCHANGED <<callVars, recent, link, connMu, doomed, signalling, drops, connects, histVars, retryVars>>

\* Mutant: nothing ends the flap delay.
LoopTimerSelectOnly(s) ==
  /\ loop[s] = "select" /\ LGoto(s, "connect")
  /\ UNCHANGED <<callVars, backoff, delay, flapStreak, recent, connVars, histVars, retryVars>>

\* The backoff timer or the flap delay runs out.
LoopTimer(s) ==
  /\ loop[s] \in {"select", "flapWait"} /\ LGoto(s, "connect")
  /\ UNCHANGED <<callVars, backoff, delay, flapStreak, recent, connVars, histVars, retryVars>>

LoopConnects(s) ==
  /\ loop[s] = "connect" /\ LGoto(s, "connecting")
  /\ ConnectBegins(s)
  /\ UNCHANGED <<callVars, backoff, delay, flapStreak, recent, histVars, retryVars>>

\* Connect returns: the backoff is reset, stretched or doubled up to its cap.
LoopConnected(s) ==
  /\ loop[s] = "connecting" /\ LGoto(s, "select")
  /\ \E r \in {"ok", "already", "error"} :
       /\ ConnectEnds(s, r)
       /\ backoff' = [backoff EXCEPT ![s] = CASE r = "ok" -> InitialBackoff
                                              [] r = "already" -> MaxBackoff
                                              [] r = "error" -> Smaller(2 * @, MaxBackoff)]
       /\ recent' = [recent EXCEPT ![s] = @ \/ r = "ok"]
  /\ UNCHANGED <<callVars, delay, flapStreak, retryVars>>

\* FlapWindow has passed since lastSuccess.
Stabilises(s) ==
  /\ recent[s] /\ recent' = [recent EXCEPT ![s] = FALSE]
  /\ UNCHANGED <<callVars, loop, backoff, delay, flapStreak, connVars, histVars, retryVars>>

Loop(s) == LoopExits(s) \/ LoopNotices(s) \/ LoopTimer(s) \/ LoopConnects(s) \/ LoopConnected(s)

-----------------------------------------------------------------------------
Init ==
  /\ started = FALSE /\ cancel = None /\ loopDone = None
  /\ pc = [c \in Starts \cup Stops |-> "idle"]
  /\ myCancel = [t \in Stops |-> None] /\ myDone = [t \in Stops |-> None]
  /\ cancelled = {} /\ loop = [s \in Starts |-> "off"]
  /\ backoff = [s \in Starts |-> InitialBackoff] /\ delay = [s \in Starts |-> InitialBackoff]
  /\ flapStreak = [s \in Starts |-> 0] /\ recent = [s \in Starts |-> FALSE]
  /\ link = FALSE /\ connMu = None /\ doomed = FALSE
  /\ token \in BOOLEAN /\ signalling = 0 /\ drops = 0 /\ connects = 0
  /\ unserved = FALSE /\ stopped = {}
  /\ retry \in {"off", "idle"} /\ attempt = 0 /\ ctxDone = FALSE /\ late = FALSE

Next ==
  \/ \E s \in Starts : Start(s) \/ CallerCancels(s) \/ Loop(s) \/ Stabilises(s)
  \/ \E t \in Stops : Stop(t)
  \/ Drop \/ SignalLost
  \/ retryBegins \/ ConnectWithRetry \/ ctxCancelled

Spec == Init /\ [][Next]_vars

\* Every goroutine that can take a step does, and timers run out; neither a
\* drop nor a cancellation has to happen.
Fairness ==
  /\ \A s \in Starts : WF_vars(Start(s) /\ (pc[s] # "idle" \/ retry = "starting")) /\ WF_vars(Loop(s))
  /\ \A t \in Stops : WF_vars(Stop(t) /\ pc[t] # "idle")
  /\ WF_vars(SignalLost) /\ WF_vars(ConnectWithRetry)

FairSpec == Spec /\ Fairness

-----------------------------------------------------------------------------
\* Every variable holds a value its Go counterpart can hold; the delays stay
\* between InitialBackoff and MaxBackoff.
TypeOK ==
  /\ started \in BOOLEAN /\ {cancel, loopDone} \subseteq Starts \cup {None}
  /\ pc \in [Starts \cup Stops -> {"idle", "drain", "connect", "connecting", "publish", "fail",
                                   "undo", "failed", "ok", "cancel", "wait", "hurry", "disconnect"}]
  /\ myCancel \in [Stops -> Starts \cup {None}] /\ myDone \in [Stops -> Starts \cup {None}]
  /\ cancelled \subseteq Starts /\ stopped \subseteq Starts
  /\ loop \in [Starts -> {"off", "select", "flapWait", "connect", "connecting", "exit"}]
  /\ backoff \in [Starts -> InitialBackoff .. MaxBackoff]
  /\ delay \in [Starts -> InitialBackoff .. MaxBackoff]
  /\ flapStreak \in [Starts -> Nat] /\ recent \in [Starts -> BOOLEAN]
  /\ link \in BOOLEAN /\ connMu \in Starts \cup {None} /\ doomed \in BOOLEAN
  /\ token \in BOOLEAN /\ signalling \in Nat /\ unserved \in BOOLEAN
  /\ drops \in 0 .. MaxDrops /\ connects \in 0 .. MaxConnects
  /\ retry \in {"off", "idle", "starting", "pause", "nil", "shutdown", "gaveUp"}
  /\ attempt \in 0 .. Len(Attempts) /\ ctxDone \in BOOLEAN /\ late \in BOOLEAN

Alive(s) == loop[s] \notin {"off", "exit"}

\* "Stop cancels the loop and disconnects the session": once Stop and the
\* Start it stopped have returned, and until Start is called again, no loop
\* and no session of it is left.
StopIsFinal ==
  \A s \in stopped : pc[s] \in {"ok", "failed"} /\ (\A r \in Starts \ {s} : pc[r] = "idle")
    => ~Alive(s) /\ ~link

\* Start: a token that arrives during or after the connect "describes the
\* session it just established and MUST be kept": a drop that no connect
\* attempt has followed has its token on the way to the waiting loop, unless
\* another Start's drain or loop competes for tokens.
DropIsNoticed ==
  \A s \in Starts : loop[s] = "select" /\ unserved
                    /\ (\A r \in Starts \ {s} : pc[r] \in {"idle", "failed"})
    => token \/ signalling > 0

\* Start: "Subsequent drops reconnect in the background": a Start that
\* succeeded, and that neither Stop nor its context ended, has a running loop.
SuccessfulStartHasLoop ==
  \A s \in Starts : pc[s] = "ok" /\ (\A t \in Stops : pc[t] = "idle" \/ myCancel[t] # s) /\ s \notin cancelled
    => Alive(s)

\* Start: the drain before the first connect, and the one-slot channel: the
\* flaps a loop has counted and the tokens on their way to it are no more
\* than the drops there were, whoever connected before.
TokensAreDrops ==
  \A s \in Starts : loop[s] # "off"
    => flapStreak[s] + (IF token THEN 1 ELSE 0) + signalling <= drops

\* ConnectWithRetry: an error means that nothing was left behind, neither a
\* session nor a loop, even when Stop ran during an attempt; and "a caller
\* can tell an orderly shutdown from a broker that never appeared".
RetryIsTruthful ==
  /\ retry \in {"shutdown", "gaveUp"} => ~link /\ \A s \in Starts : ~Alive(s)
  /\ retry = "gaveUp" => ~late

\* Start: "Only Stop clears started": a Start whose connect succeeded undoes
\* it and reports "stopped during start" only when a Stop took its cancel.
OnlyStopUndoesStart ==
  \A s \in Starts : pc[s] = "undo" => \E t \in Stops : myCancel[t] = s

\* loop: flapStreak counts "connections that died within FlapWindow": it
\* grows only while the session is down.
FlapsAreDrops == [][\A s \in Starts : flapStreak'[s] > flapStreak[s] => ~link]_vars

\* An established loop keeps trying: a session that is down leads to another
\* connect attempt, unless the loop is cancelled (or the bound is reached).
DropLeadsToAttempt ==
  \A s \in Starts : (Alive(s) /\ ~link) ~>
                      (loop[s] \in {"connecting", "exit"} \/ link \/ connects = MaxConnects)

=============================================================================
