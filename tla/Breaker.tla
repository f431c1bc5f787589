------------------------------ MODULE Breaker ------------------------------
(***************************************************************************)
(* The circuit breaker of breaker.go: a Publisher that wraps another one.  *)
(* Several goroutines publish through it at once; a publish is in flight   *)
(* for as long as the broker takes, so its outcome is often booked in a    *)
(* state the breaker has already left.  admit, record and every pass of    *)
(* fireStateChanges hold the mutex and are one action each; the wrapped    *)
(* Publish and the OnStateChange callback run without it.                  *)
(*                                                                         *)
(* A callback that publishes through the breaker again is another element  *)
(* of Publishes: it takes the same steps on the same goroutine.            *)
(***************************************************************************)
EXTENDS Integers, Sequences, FiniteSets

CONSTANTS
  Publishes,            \* the goroutines that publish, one call at a time each
  FailureThreshold, HalfOpenMax,
  CallbackPanics,       \* OnStateChange may panic (and the application recovers)
  MaxEpoch              \* bound: no publish starts after this many transitions

ASSUME BreakerAssumption ==
  /\ IsFiniteSet(Publishes)
  /\ FailureThreshold \in Nat \ {0} /\ HalfOpenMax \in Nat \ {0}
  /\ CallbackPanics \in BOOLEAN /\ MaxEpoch \in Nat

States == {"closed", "open", "halfOpen"}

\* What the wrapped Publish returns.
Outcomes == {"nil", "ackTimeout", "connectionLost", "notConnected", "packetTooLarge",
             "packetIDExhausted", "protocolViolation", "callerContext", "reasonError", "transport"}

\* The errors that are symptoms of the broker; the others are local.
countableFailure(err) ==
  err \in {"ackTimeout", "connectionLost", "notConnected", "reasonError", "transport"}

VARIABLES
  state, epoch, failures, probes,
  recovered,      \* time.Since(openedAt) >= RecoveryTimeout
  pending,        \* the queued transitions, records [from, to]
  draining,
  pc,             \* where a publish is
  adm,            \* its admission
  next,           \* the transition whose callback it is running
  fresh,          \* history: the publishes admitted since the last transition
  reported        \* history: the `to` of the last callback

stateVars == <<state, epoch, failures, probes, recovered>>
queueVars == <<pending, draining>>
vars == <<stateVars, queueVars, pc, adm, next, fresh, reported>>

Goto(p, label) == pc' = [pc EXCEPT ![p] = label]

\* transitionLocked, with the accounting its caller re-seeds under the lock.
transitionLocked(to, newFailures, newProbes) ==
  /\ state' = to /\ epoch' = epoch + 1
  /\ failures' = newFailures /\ probes' = newProbes
  /\ recovered' = FALSE
  /\ pending' = Append(pending, [from |-> state, to |-> to])

-----------------------------------------------------------------------------
\* admit: pass in the closed state, probe in half-open while a slot is free;
\* the first publish after the recovery timeout turns open into half-open and
\* runs the callbacks before its own Publish.  Any other publish fails fast.
admit(p) ==
  /\ pc[p] = "idle" /\ epoch < MaxEpoch
  /\ \/ /\ state = "closed"
        /\ adm' = [adm EXCEPT ![p] = [epoch |-> epoch, probe |-> FALSE]]
        /\ fresh' = fresh \cup {p}
        /\ Goto(p, "publishing") /\ UNCHANGED <<stateVars, pending>>
     \/ /\ state = "open" /\ recovered
        /\ transitionLocked("halfOpen", failures, 1)
        /\ adm' = [adm EXCEPT ![p] = [epoch |-> epoch + 1, probe |-> TRUE]]
        /\ fresh' = {p}
        /\ Goto(p, "fireAdmitted")
     \/ /\ state = "halfOpen" /\ probes < HalfOpenMax
        /\ probes' = probes + 1
        /\ adm' = [adm EXCEPT ![p] = [epoch |-> epoch, probe |-> TRUE]]
        /\ fresh' = fresh \cup {p}
        /\ Goto(p, "publishing") /\ UNCHANGED <<state, epoch, failures, recovered, pending>>
  /\ UNCHANGED <<draining, next, reported>>

\* Mutant: an outcome is booked whatever state it was admitted in.
CurrentAlways(p) == TRUE

Current(p) == adm[p].epoch = epoch

recordSuccess(p) ==
  IF Current(p) /\ state = "halfOpen"
  THEN transitionLocked("closed", 0, 0) /\ fresh' = {} /\ Goto(p, "fire")
  ELSE /\ failures' = IF Current(p) THEN 0 ELSE failures
       /\ Goto(p, "idle")
       /\ UNCHANGED <<state, epoch, probes, recovered, pending, fresh>>

\* A failed probe, or the last failure of a full streak, opens the circuit.
Trips(p) == Current(p) /\ (state = "halfOpen" \/ (state = "closed" /\ failures + 1 >= FailureThreshold))

recordFailure(p) ==
  IF Trips(p)
  THEN /\ transitionLocked("open", 0, IF state = "halfOpen" THEN 0 ELSE probes)
       /\ fresh' = {} /\ Goto(p, "fire")
  ELSE /\ failures' = IF Current(p) /\ state = "closed" THEN failures + 1 ELSE failures
       /\ Goto(p, "idle")
       /\ UNCHANGED <<state, epoch, probes, recovered, pending, fresh>>

\* Mutant: a neutral outcome keeps the probe slot.
recordNeutralKeepsSlot(p) == Goto(p, "idle") /\ UNCHANGED <<stateVars, pending, fresh>>

\* A local error says nothing about the broker: only the probe slot is freed.
recordNeutral(p) ==
  /\ probes' = IF Current(p) /\ adm[p].probe /\ state = "halfOpen" /\ probes > 0
               THEN probes - 1 ELSE probes
  /\ Goto(p, "idle")
  /\ UNCHANGED <<state, epoch, failures, recovered, pending, fresh>>

record(p, err) ==
  /\ pc[p] = "publishing"
  /\ IF err = "nil" THEN recordSuccess(p)
     ELSE IF countableFailure(err) THEN recordFailure(p) ELSE recordNeutral(p)
  /\ UNCHANGED <<draining, adm, next, reported>>

\* time.Since(openedAt) reaches RecoveryTimeout.
RecoveryElapses ==
  /\ state = "open" /\ ~recovered /\ recovered' = TRUE
  /\ UNCHANGED <<state, epoch, failures, probes, queueVars, pc, adm, next, fresh, reported>>

-----------------------------------------------------------------------------
(* fireStateChanges.  The labels with "Admitted" belong to the drain that  *)
(* admit started, after which the publish itself is still to come.         *)

Admitted == {"fireAdmitted", "drainAdmitted", "callbackAdmitted"}
Draining == {"drain", "drainAdmitted", "callback", "callbackAdmitted"}

Label(p, plain, admitted) == IF pc[p] \in Admitted THEN admitted ELSE plain
After(p) == IF pc[p] \in Admitted THEN "publishing" ELSE "idle"

fire(p) ==
  /\ pc[p] \in {"fire", "fireAdmitted"}
  /\ draining' = TRUE
  /\ Goto(p, IF draining THEN After(p) ELSE Label(p, "drain", "drainAdmitted"))
  /\ UNCHANGED <<stateVars, pending, adm, next, fresh, reported>>

\* Mutant: the newest transition is delivered first.
drainNewest(p) ==
  /\ pc[p] \in {"drain", "drainAdmitted"}
  /\ IF pending = << >>
     THEN /\ draining' = FALSE /\ Goto(p, After(p)) /\ UNCHANGED <<pending, next>>
     ELSE /\ next' = [next EXCEPT ![p] = pending[Len(pending)]]
          /\ pending' = SubSeq(pending, 1, Len(pending) - 1)
          /\ Goto(p, Label(p, "callback", "callbackAdmitted")) /\ UNCHANGED draining
  /\ UNCHANGED <<stateVars, adm, fresh, reported>>

\* The emptiness check and the clear of draining share the lock.
drain(p) ==
  /\ pc[p] \in {"drain", "drainAdmitted"}
  /\ IF pending = << >>
     THEN /\ draining' = FALSE /\ Goto(p, After(p)) /\ UNCHANGED <<pending, next>>
     ELSE /\ next' = [next EXCEPT ![p] = Head(pending)]
          /\ pending' = Tail(pending)
          /\ Goto(p, Label(p, "callback", "callbackAdmitted")) /\ UNCHANGED draining
  /\ UNCHANGED <<stateVars, adm, fresh, reported>>

\* Mutant: the drain stops after one callback.
callbackOnce(p) ==
  /\ pc[p] \in {"callback", "callbackAdmitted"}
  /\ reported' = next[p].to
  /\ draining' = FALSE /\ Goto(p, After(p))
  /\ UNCHANGED <<stateVars, pending, adm, next, fresh>>

\* cb(from, to) returns; or it panics, the deferred function clears draining
\* and the panic unwinds the whole Publish.
callback(p) ==
  /\ pc[p] \in {"callback", "callbackAdmitted"}
  /\ reported' = next[p].to
  /\ \/ Goto(p, Label(p, "drain", "drainAdmitted")) /\ UNCHANGED draining
     \/ CallbackPanics /\ draining' = FALSE /\ Goto(p, "idle")
  /\ UNCHANGED <<stateVars, pending, adm, next, fresh>>

-----------------------------------------------------------------------------
Init ==
  /\ state = "closed" /\ epoch = 0 /\ failures = 0 /\ probes = 0 /\ recovered = FALSE
  /\ pending = << >> /\ draining = FALSE
  /\ pc = [p \in Publishes |-> "idle"]
  /\ adm = [p \in Publishes |-> [epoch |-> 0, probe |-> FALSE]]
  /\ next = [p \in Publishes |-> [from |-> "closed", to |-> "closed"]]
  /\ fresh = {} /\ reported = "closed"

Deliver(p) == fire(p) \/ drain(p) \/ callback(p)

Next ==
  \/ \E p \in Publishes :
       \/ admit(p)
       \/ \E err \in Outcomes : record(p, err)
       \/ Deliver(p)
  \/ RecoveryElapses

Spec == Init /\ [][Next]_vars

\* The wrapped Publish returns (its acknowledgement wait is bounded by
\* AckTimeout), callbacks return, time passes, and some caller keeps trying.
Fairness ==
  /\ \A p \in Publishes :
       /\ WF_vars(\E err \in Outcomes : record(p, err))
       /\ WF_vars(Deliver(p))
       /\ WF_vars(admit(p))
  /\ WF_vars(RecoveryElapses)

FairSpec == Spec /\ Fairness

-----------------------------------------------------------------------------
Labels == {"idle", "publishing", "fire"} \cup Admitted \cup Draining
Transitions == [from : States, to : States]
Admissions == [epoch : Nat, probe : BOOLEAN]

\* Every field of the Breaker holds a value its type allows; the counters
\* stay within their configured limits.
TypeOK ==
  /\ state \in States /\ epoch \in Nat /\ recovered \in BOOLEAN
  /\ failures \in 0 .. FailureThreshold - 1 /\ probes \in 0 .. HalfOpenMax
  /\ pending \in Seq(Transitions) /\ draining \in BOOLEAN
  /\ pc \in [Publishes -> Labels]
  /\ adm \in [Publishes -> Admissions]
  /\ next \in [Publishes -> Transitions]
  /\ fresh \subseteq Publishes /\ reported \in States

\* In the half-open state every occupied probe slot belongs to a publish that
\* was admitted in this half-open period and has not been booked yet: none is
\* lost to a straggler (which would reject every later publish) and none is
\* freed by one (which would admit more than HalfOpenMax).
Probing == {p \in Publishes : adm[p].probe /\ adm[p].epoch = epoch
                              /\ pc[p] \in Admitted \cup {"publishing"}}
ProbesAccounted == state = "halfOpen" => probes = Cardinality(Probing)

\* "HalfOpenMax bounds the number of concurrent probe publishes": probes of
\* an earlier half-open period that have not returned are concurrent too.
ConcurrentProbesBounded ==
  Cardinality({p \in Publishes : adm[p].probe /\ pc[p] = "publishing"}) <= HalfOpenMax

\* An outcome whose publish was admitted before the last transition is
\* discarded: it moves no counter and no state.
StaleOutcomesDiscarded ==
  [][\A p \in Publishes : pc[p] = "publishing" /\ pc'[p] # "publishing" /\ p \notin fresh
       => UNCHANGED <<state, failures, probes>>]_vars

\* "The (from, to) pairs form an unbroken chain": the callback in progress and
\* the queued transitions lead, link by link, from the state the last callback
\* reported to the state the breaker is in.
Delivering == {p \in Publishes : pc[p] \in {"callback", "callbackAdmitted"}}
Chain == IF Delivering = {} THEN pending
         ELSE <<next[CHOOSE p \in Delivering : TRUE]>> \o pending
CallbacksFormChain ==
  /\ Chain = << >> => reported = state
  /\ Chain # << >> => Chain[1].from = reported /\ Chain[Len(Chain)].to = state
  /\ \A i \in 1 .. Len(Chain) - 1 : Chain[i].to = Chain[i + 1].from

\* "Callbacks never overlap": one goroutine drains at a time, and the draining
\* flag is set exactly while one does.
OneDrainer ==
  /\ \A p, q \in Publishes : pc[p] \in Draining /\ pc[q] \in Draining => p = q
  /\ draining <=> \E p \in Publishes : pc[p] \in Draining

\* "No transition can be queued into a queue nobody is about to drain."
QueueHasDrainer ==
  pending # << >> => draining \/ \E p \in Publishes : pc[p] \in {"fire", "fireAdmitted"}

\* A half-open circuit always gets a verdict or a free slot; it never rejects
\* every publish for good.
HalfOpenNotStuck == (state = "halfOpen" /\ probes = HalfOpenMax) ~>
                       (state # "halfOpen" \/ probes < HalfOpenMax)

=============================================================================
