--------------------------- MODULE BreakerProofs ---------------------------
(***************************************************************************)
(* What the breaker guarantees for any number of publishing goroutines,    *)
(* any thresholds and any number of transitions.                           *)
(***************************************************************************)
EXTENDS Breaker, FiniteSetTheorems, SequenceTheorems, TLAPS

-----------------------------------------------------------------------------
(* The records the breaker builds.                                         *)

\* An epoch and a probe mark make an admission.
LEMMA AdmissionType ==
  ASSUME NEW e \in Nat, NEW b \in BOOLEAN PROVE [epoch |-> e, probe |-> b] \in Admissions
BY Zenon DEF Admissions

\* transitionLocked queues a pair of states.
LEMMA TransitionType ==
  ASSUME NEW f \in States, NEW t \in States
  PROVE  [from |-> f, to |-> t] \in Transitions /\ [from |-> f, to |-> t].to = t
BY Zenon DEF Transitions

\* transitionLocked appends to the queue.
LEMMA Queueing ==
  ASSUME NEW q \in Seq(Transitions), NEW t \in Transitions PROVE Append(q, t) \in Seq(Transitions)
BY SMTT(60)

\* fireStateChanges takes the oldest transition off the queue.
LEMMA Dequeueing ==
  ASSUME NEW q \in Seq(Transitions), q # << >>
  PROVE  Head(q) \in Transitions /\ Tail(q) \in Seq(Transitions)
BY SMTT(60)

\* Whatever transitionLocked is called with, the breaker's fields keep their
\* types.
LEMMA TransitionLockedType ==
  ASSUME TypeOK, NEW to \in States, NEW f \in 0 .. FailureThreshold - 1,
         NEW n \in 0 .. HalfOpenMax, transitionLocked(to, f, n)
  PROVE  /\ state' \in States /\ epoch' \in Nat /\ recovered' \in BOOLEAN
         /\ failures' \in 0 .. FailureThreshold - 1 /\ probes' \in 0 .. HalfOpenMax
         /\ pending' \in Seq(Transitions)
<1>1. [from |-> state, to |-> to] \in Transitions
  BY TransitionType, Zenon DEF TypeOK
<1>2. pending' \in Seq(Transitions)
  BY <1>1, Queueing, Zenon DEF transitionLocked, TypeOK
<1>3. epoch' \in Nat /\ failures' \in 0 .. FailureThreshold - 1 /\ probes' \in 0 .. HalfOpenMax
  BY SMTT(60) DEF transitionLocked, TypeOK
<1>4. recovered' \in BOOLEAN /\ state' \in States
  BY Zenon DEF transitionLocked
<1> QED BY <1>2, <1>3, <1>4, Zenon

\* A callback reports a state.
LEMMA TransitionTo == ASSUME NEW t \in Transitions PROVE t.to \in States
BY Zenon DEF Transitions

-----------------------------------------------------------------------------
(* Types: the counters stay within FailureThreshold and HalfOpenMax.       *)

\* Every admit, record and pass of fireStateChanges keeps the types.
LEMMA TypePreserved == TypeOK /\ [Next]_vars => TypeOK'
<1> SUFFICES ASSUME TypeOK, [Next]_vars PROVE TypeOK'
  BY Zenon
<1> USE DEF TypeOK, Labels, Admitted, Draining, Goto
<1>1. ASSUME NEW p \in Publishes, admit(p) PROVE TypeOK'
  <2>1. CASE state = "closed"
    BY <1>1, <2>1, AdmissionType, ZenonT(60) DEF admit, stateVars
  <2>2. CASE state = "open"
    <3>1. transitionLocked("halfOpen", failures, 1)
      BY <1>1, <2>2, Zenon DEF admit
    <3>2. "halfOpen" \in States /\ 1 \in 0 .. HalfOpenMax
      BY BreakerAssumption, SMTT(60) DEF States
    <3>3. adm' \in [Publishes -> Admissions]
      <4>1. adm' = [adm EXCEPT ![p] = [epoch |-> epoch + 1, probe |-> TRUE]]
        BY <1>1, <2>2, Zenon DEF admit
      <4>2. epoch + 1 \in Nat
        BY SMTT(60)
      <4>3. [epoch |-> epoch + 1, probe |-> TRUE] \in Admissions
        BY <4>2, AdmissionType, Zenon
      <4> QED BY <4>1, <4>3, Zenon
    <3>4. pc' \in [Publishes -> Labels] /\ fresh' \subseteq Publishes
      BY <1>1, <2>2, Zenon DEF admit
    <3> QED BY <1>1, <3>1, <3>2, <3>3, <3>4, TransitionLockedType, Zenon DEF admit
  <2>3. CASE state = "halfOpen"
    <3>1. adm' \in [Publishes -> Admissions]
      BY <1>1, <2>3, AdmissionType, Zenon DEF admit
    <3>2. probes' \in 0 .. HalfOpenMax
      BY <1>1, <2>3, BreakerAssumption, SMTT(60) DEF admit
    <3>3. pc' \in [Publishes -> Labels] /\ fresh' \subseteq Publishes
      BY <1>1, <2>3, Zenon DEF admit
    <3> QED BY <1>1, <2>3, <3>1, <3>2, <3>3, Zenon DEF admit
  <2> QED BY <2>1, <2>2, <2>3, Zenon DEF States
<1>2. ASSUME NEW p \in Publishes, NEW err \in Outcomes, record(p, err) PROVE TypeOK'
  <2>0. /\ "open" \in States /\ "closed" \in States
        /\ 0 \in 0 .. HalfOpenMax /\ 0 \in 0 .. FailureThreshold - 1
    BY BreakerAssumption, SMTT(60) DEF States
  <2>1. CASE recordSuccess(p)
    BY <1>2, <2>0, <2>1, TransitionLockedType, Zenon DEF record, recordSuccess
  <2>2. CASE recordFailure(p)
    <3>1. CASE Trips(p)
      <4> DEFINE n == IF state = "halfOpen" THEN 0 ELSE probes
      <4>1. n \in 0 .. HalfOpenMax /\ transitionLocked("open", 0, n)
        BY <2>0, <2>2, <3>1, Zenon DEF recordFailure
      <4> HIDE DEF n
      <4> QED BY <1>2, <2>0, <2>2, <3>1, <4>1, TransitionLockedType, Zenon DEF record, recordFailure
    <3>2. CASE ~Trips(p)
      BY <1>2, <2>2, <3>2, BreakerAssumption, SMTT(60) DEF record, recordFailure, Trips
    <3> QED BY <3>1, <3>2, Zenon
  <2>3. CASE recordNeutral(p)
    BY <1>2, <2>3, BreakerAssumption, SMTT(60) DEF record, recordNeutral
  <2> QED BY <1>2, <2>1, <2>2, <2>3, Zenon DEF record
<1>3. ASSUME NEW p \in Publishes, fire(p) PROVE TypeOK'
  BY <1>3, Zenon DEF fire, Label, After, stateVars
<1>4. ASSUME NEW p \in Publishes, drain(p) PROVE TypeOK'
  <2>1. CASE pending = << >>
    BY <1>4, <2>1, Zenon DEF drain, After, stateVars
  <2>2. CASE pending # << >>
    BY <1>4, <2>2, Dequeueing, Zenon DEF drain, Label, stateVars
  <2> QED BY <2>1, <2>2, Zenon
<1>5. ASSUME NEW p \in Publishes, callback(p) PROVE TypeOK'
  BY <1>5, TransitionTo, Zenon DEF callback, Label, stateVars
<1>6. CASE RecoveryElapses
  BY <1>6, Zenon DEF RecoveryElapses, queueVars
<1>7. CASE UNCHANGED vars
  BY <1>7, Zenon DEF vars, stateVars, queueVars
<1> QED BY <1>1, <1>2, <1>3, <1>4, <1>5, <1>6, <1>7, Zenon DEF Next, Deliver

\* A new Breaker is closed with empty counters.
LEMMA TypeInit == Init => TypeOK
<1> SUFFICES ASSUME Init PROVE TypeOK
  BY Zenon
<1>1. adm \in [Publishes -> Admissions]
  BY AdmissionType, Zenon DEF Init
<1>2. next \in [Publishes -> Transitions]
  BY TransitionType, Zenon DEF Init, States
<1>3. epoch \in Nat /\ failures \in 0 .. FailureThreshold - 1 /\ probes \in 0 .. HalfOpenMax
  BY BreakerAssumption, SMTT(60) DEF Init
<1>4. pending \in Seq(Transitions)
  BY SMTT(60) DEF Init
<1>5. recovered \in BOOLEAN /\ draining \in BOOLEAN
  BY Zenon DEF Init
<1> QED BY <1>1, <1>2, <1>3, <1>4, <1>5, Zenon DEF Init, TypeOK, States, Labels

\* failures stays below FailureThreshold and probes within HalfOpenMax,
\* whatever order admissions and outcomes come in.
THEOREM TypeCorrect == Spec => []TypeOK
BY TypeInit, TypePreserved, PTL DEF Spec

-----------------------------------------------------------------------------
(* Callbacks.                                                              *)

\* A step of admit or record moves one goroutine between labels outside the
\* drain loop and leaves the draining flag alone.
LEMMA OutsideTheDrain ==
  ASSUME TypeOK, NEW p \in Publishes, admit(p) \/ \E err \in Outcomes : record(p, err)
  PROVE  /\ draining' = draining /\ pc[p] \notin Draining
         /\ \E label \in Labels \ Draining : pc' = [pc EXCEPT ![p] = label]
<1> USE DEF Labels, Admitted, Draining, Goto
<1>1. CASE admit(p)
  BY <1>1, Zenon DEF admit
<1>2. ASSUME NEW err \in Outcomes, record(p, err)
      PROVE  /\ draining' = draining /\ pc[p] \notin Draining
             /\ \E label \in Labels \ Draining : pc' = [pc EXCEPT ![p] = label]
  BY <1>2, Zenon DEF record, recordSuccess, recordFailure, recordNeutral
<1> QED BY <1>1, <1>2, Zenon

\* Callbacks never overlap (fireStateChanges): for any number of goroutines
\* that publish, including callbacks that publish or panic, at most one is in
\* the drain loop, and draining is set exactly while one is.
THEOREM CallbacksNeverOverlap == Spec => []OneDrainer
<1>1. Init => OneDrainer
  BY Zenon DEF Init, OneDrainer, Draining
<1>2. TypeOK /\ OneDrainer /\ [Next]_vars => OneDrainer'
  <2> SUFFICES ASSUME TypeOK, OneDrainer, [Next]_vars PROVE OneDrainer'
    BY Zenon
  <2>1. ASSUME NEW p \in Publishes, admit(p) \/ \E err \in Outcomes : record(p, err)
        PROVE  OneDrainer'
    <3>1. PICK label \in Labels \ Draining : pc' = [pc EXCEPT ![p] = label]
      BY <2>1, OutsideTheDrain, Zenon
    <3> QED BY <2>1, <3>1, OutsideTheDrain, Zenon DEF OneDrainer, TypeOK
  <2>2. ASSUME NEW p \in Publishes, fire(p) PROVE OneDrainer'
    <3>1. CASE draining
      BY <2>2, <3>1, Zenon DEF fire, After, Goto, OneDrainer, Draining, Admitted, TypeOK
    <3>2. CASE ~draining
      BY <2>2, <3>2, Zenon DEF fire, Label, Goto, OneDrainer, Draining, Admitted, TypeOK
    <3> QED BY <3>1, <3>2, Zenon
  <2>3. ASSUME NEW p \in Publishes, drain(p) PROVE OneDrainer'
    BY <2>3, ZenonT(60) DEF drain, Label, After, Goto, OneDrainer, Draining, Admitted, TypeOK
  <2>4. ASSUME NEW p \in Publishes, callback(p) PROVE OneDrainer'
    BY <2>4, SMTT(60) DEF callback, Label, Goto, OneDrainer, Draining, Admitted, TypeOK
  <2>5. CASE RecoveryElapses
    BY <2>5, Zenon DEF RecoveryElapses, queueVars, OneDrainer
  <2>6. CASE UNCHANGED vars
    BY <2>6, Zenon DEF vars, queueVars, OneDrainer
  <2> QED BY <2>1, <2>2, <2>3, <2>4, <2>5, <2>6, Zenon DEF Next, Deliver
<1> QED BY <1>1, <1>2, TypeCorrect, PTL DEF Spec

\* Unless a callback panics, no transition is queued into a queue nobody is
\* about to drain: the emptiness check of fireStateChanges and the clear of
\* draining share the lock, and whoever queues goes on to fire.
THEOREM QueueIsDrained ==
  ASSUME CallbackPanics = FALSE PROVE Spec => []QueueHasDrainer
<1>1. Init => QueueHasDrainer
  BY Zenon DEF Init, QueueHasDrainer
<1>2. TypeOK /\ OneDrainer /\ QueueHasDrainer /\ [Next]_vars => QueueHasDrainer'
  <2> SUFFICES ASSUME TypeOK, OneDrainer, QueueHasDrainer, [Next]_vars PROVE QueueHasDrainer'
    BY Zenon
  <2> USE DEF QueueHasDrainer, Goto, TypeOK
  <2>1. ASSUME NEW p \in Publishes, admit(p) PROVE QueueHasDrainer'
    BY <2>1, Zenon DEF admit
  <2>2. ASSUME NEW p \in Publishes, NEW err \in Outcomes, record(p, err) PROVE QueueHasDrainer'
    BY <2>2, Zenon DEF record, recordSuccess, recordFailure, recordNeutral
  <2>3. ASSUME NEW p \in Publishes, fire(p) PROVE QueueHasDrainer'
    BY <2>3, Zenon DEF fire
  <2>4. ASSUME NEW p \in Publishes, drain(p) PROVE QueueHasDrainer'
    BY <2>4, Zenon DEF drain, OneDrainer, Draining
  <2>5. ASSUME NEW p \in Publishes, callback(p) PROVE QueueHasDrainer'
    BY <2>5, SMTT(60) DEF callback, OneDrainer, Draining
  <2>6. CASE RecoveryElapses
    BY <2>6, Zenon DEF RecoveryElapses, queueVars
  <2>7. CASE UNCHANGED vars
    BY <2>7, Zenon DEF vars, queueVars
  <2> QED BY <2>1, <2>2, <2>3, <2>4, <2>5, <2>6, <2>7, Zenon DEF Next, Deliver
<1> QED BY <1>1, <1>2, TypeCorrect, CallbacksNeverOverlap, PTL DEF Spec

-----------------------------------------------------------------------------
(* The order of callbacks.                                                 *)

\* A sequence of transitions leads, link by link, from state `first` to state
\* `last`.
Leads(c, first, last) ==
  /\ c = << >> => first = last
  /\ c # << >> => c[1].from = first /\ c[Len(c)].to = last
  /\ \A i \in 1 .. Len(c) - 1 : c[i].to = c[i + 1].from

\* transitionLocked adds a link at the end of the chain.
LEMMA ChainGrows ==
  ASSUME NEW c \in Seq(Transitions), NEW t \in Transitions, NEW first,
         Leads(c, first, t.from)
  PROVE  Leads(Append(c, t), first, t.to)
<1> DEFINE d == Append(c, t)
<1>1. /\ d # << >> /\ Len(d) = Len(c) + 1 /\ d[Len(d)] = t
      /\ \A i \in 1 .. Len(c) : d[i] = c[i]
  BY SMTT(60)
<1>2. d[1].from = first
  <2>1. CASE c = << >>
    BY <1>1, <2>1, SMTT(60) DEF Leads
  <2>2. CASE c # << >>
    BY <1>1, <2>2, SMTT(60) DEF Leads
  <2> QED BY <2>1, <2>2, Zenon
<1>3. ASSUME NEW i \in 1 .. Len(d) - 1 PROVE d[i].to = d[i + 1].from
  <2>1. CASE i = Len(c)
    BY <1>1, <2>1, SMTT(60) DEF Leads
  <2>2. CASE i # Len(c)
    BY <1>1, <2>2, SMTT(60) DEF Leads
  <2> QED BY <2>1, <2>2, Zenon
<1> QED BY <1>1, <1>2, <1>3, Zenon DEF Leads

\* Delivering the oldest transition takes the first link off the chain.
LEMMA ChainShrinks ==
  ASSUME NEW t \in Transitions, NEW q \in Seq(Transitions), NEW first, NEW last,
         Leads(<<t>> \o q, first, last)
  PROVE  Leads(q, t.to, last)
<1> DEFINE c == <<t>> \o q
<1>1. /\ c # << >> /\ Len(c) = Len(q) + 1 /\ c[1] = t
      /\ \A i \in 1 .. Len(q) : c[i + 1] = q[i]
  BY SMTT(60)
<1>2. c[Len(c)].to = last /\ \A i \in 1 .. Len(c) - 1 : c[i].to = c[i + 1].from
  BY <1>1, Zenon DEF Leads
<1>3. q = << >> => t.to = last
  BY <1>1, <1>2, SMTT(60)
<1>4. q # << >> => q[1].from = t.to /\ q[Len(q)].to = last
  BY <1>1, <1>2, SMTT(60)
<1>5. ASSUME NEW i \in 1 .. Len(q) - 1 PROVE q[i].to = q[i + 1].from
  BY <1>1, <1>2, SMTT(60)
<1> QED BY <1>3, <1>4, <1>5, Zenon DEF Leads

\* The chain is the callback in progress, if there is one, and the queue.
LEMMA ChainShape ==
  ASSUME TypeOK, OneDrainer
  PROVE  /\ Delivering = {} => Chain = pending
         /\ \A p \in Delivering : Delivering = {p} /\ Chain = <<next[p]>> \o pending
         /\ Chain \in Seq(Transitions)
<1>1. ASSUME NEW p \in Delivering PROVE Delivering = {p}
  BY Zenon DEF Delivering, OneDrainer, Draining
<1>2. ASSUME NEW p \in Delivering PROVE Chain = <<next[p]>> \o pending
  <2>1. (CHOOSE q \in Delivering : TRUE) = p
    BY <1>1, Zenon
  <2> QED BY <2>1, Zenon DEF Chain
<1>3. Delivering = {} => Chain = pending
  BY Zenon DEF Chain
<1>4. Chain \in Seq(Transitions)
  <2>1. CASE Delivering = {}
    BY <1>3, <2>1, Zenon DEF TypeOK
  <2>2. ASSUME NEW p \in Delivering PROVE Chain \in Seq(Transitions)
    <3>1. next[p] \in Transitions /\ pending \in Seq(Transitions)
      BY Zenon DEF Delivering, TypeOK
    <3>2. <<next[p]>> \in Seq(Transitions)
      BY <3>1, SMTT(60)
    <3>3. <<next[p]>> \o pending \in Seq(Transitions)
      BY <3>1, <3>2, ConcatProperties, Zenon
    <3> QED BY <1>2, <3>3, Zenon
  <2> QED BY <2>1, <2>2, Zenon
<1> QED BY <1>1, <1>2, <1>3, <1>4, Zenon

\* A step that leaves the callback in progress, its transition, the queue and
\* the states at both ends alone leaves the chain alone.
LEMMA ChainKept ==
  ASSUME CallbacksFormChain, Delivering' = Delivering, next' = next, pending' = pending,
         state' = state, reported' = reported
  PROVE  CallbacksFormChain'
<1>1. Chain' = Chain
  BY SMTT(60) DEF Chain
<1> QED BY <1>1, Zenon DEF CallbacksFormChain

\* transitionLocked, called by admit or record, extends the chain to the state
\* the breaker moves to.
LEMMA ChainExtended ==
  ASSUME TypeOK, OneDrainer, TypeOK', OneDrainer', CallbacksFormChain,
         NEW to \in States, NEW f, NEW n, transitionLocked(to, f, n),
         Delivering' = Delivering, next' = next, reported' = reported
  PROVE  CallbacksFormChain'
<1> DEFINE t == [from |-> state, to |-> to]
<1>1. t \in Transitions /\ t.from = state /\ t.to = to
  BY Zenon DEF Transitions, TypeOK
<1>2. pending' = Append(pending, t) /\ state' = to
  BY Zenon DEF transitionLocked
<1> HIDE DEF t
<1>3. Chain' = Append(Chain, t)
  <2>1. CASE Delivering = {}
    BY <1>2, <2>1, Zenon DEF Chain
  <2>2. ASSUME NEW p \in Delivering PROVE Chain' = Append(Chain, t)
    <3>1. Chain = <<next[p]>> \o pending /\ Chain' = (<<next[p]>> \o pending)'
      BY ChainShape, Zenon DEF Chain
    <3>2. next[p] \in Transitions /\ pending \in Seq(Transitions)
      BY Zenon DEF Delivering, TypeOK
    <3> QED BY <1>1, <1>2, <3>1, <3>2, SMTT(60)
  <2> QED BY <2>1, <2>2, Zenon
<1>4. Leads(Append(Chain, t), reported, to)
  <2>1. Chain \in Seq(Transitions) /\ Leads(Chain, reported, t.from)
    BY <1>1, ChainShape, Zenon DEF CallbacksFormChain, Leads
  <2> QED BY <1>1, <2>1, ChainGrows, Zenon
<1> QED BY <1>2, <1>3, <1>4, Zenon DEF CallbacksFormChain, Leads

\* The callbacks form an unbroken chain: whatever the interleaving of
\* goroutines that queue transitions and the one that drains them, panicking
\* callbacks included, each callback starts at the state the previous one
\* reported, and the last one will report the breaker's state.
THEOREM CallbackChain == Spec => []CallbacksFormChain
<1>1. Init => CallbacksFormChain
  BY SMTT(60) DEF Init, CallbacksFormChain, Chain, Delivering
<1>2. TypeOK /\ OneDrainer /\ TypeOK' /\ OneDrainer' /\ CallbacksFormChain /\ [Next]_vars
      => CallbacksFormChain'
  <2> SUFFICES ASSUME TypeOK, OneDrainer, TypeOK', OneDrainer', CallbacksFormChain, [Next]_vars
               PROVE  CallbacksFormChain'
    BY Zenon
  <2>1. ASSUME NEW p \in Publishes, admit(p) \/ \E err \in Outcomes : record(p, err)
        PROVE  CallbacksFormChain'
    <3>1. Delivering' = Delivering /\ next' = next /\ reported' = reported
      <4>1. PICK label \in Labels \ Draining : pc' = [pc EXCEPT ![p] = label]
        BY <2>1, OutsideTheDrain, Zenon
      <4>2. Delivering' = Delivering
        BY <2>1, <4>1, OutsideTheDrain, Zenon DEF Delivering, Draining, TypeOK
      <4> QED BY <2>1, <4>2, Zenon DEF admit, record
    <3>2. \/ pending' = pending /\ state' = state
          \/ \E to \in States : \E f, n : transitionLocked(to, f, n)
      BY <2>1, Zenon DEF admit, record, recordSuccess, recordFailure, recordNeutral, stateVars, States
    <3> QED BY <3>1, <3>2, ChainKept, ChainExtended, Zenon
  <2>2. ASSUME NEW p \in Publishes, fire(p) PROVE CallbacksFormChain'
    <3>1. Delivering' = Delivering
      BY <2>2, Zenon DEF fire, Goto, Label, After, Delivering, TypeOK
    <3> QED BY <2>2, <3>1, ChainKept, Zenon DEF fire, stateVars
  <2>3. ASSUME NEW p \in Publishes, drain(p) PROVE CallbacksFormChain'
    <3>1. Delivering = {}
      BY <2>3, Zenon DEF drain, Delivering, OneDrainer, Draining
    <3>2. CASE pending = << >>
      <4>1. Delivering' = Delivering
        BY <2>3, <3>1, <3>2, Zenon DEF drain, Goto, After, Delivering, TypeOK
      <4> QED BY <2>3, <3>2, <4>1, ChainKept, Zenon DEF drain, stateVars
    <3>3. CASE pending # << >>
      <4>1. Delivering' = {p}
        BY <2>3, <3>1, <3>3, ZenonT(60) DEF drain, Goto, Label, Delivering, TypeOK
      <4>2. Chain' = <<next'[p]>> \o pending'
        <5>1. (CHOOSE q \in {p} : TRUE) = p
          BY Zenon
        <5> QED BY <4>1, <5>1, Zenon DEF Chain
      <4>3. next'[p] = Head(pending) /\ pending' = Tail(pending)
        BY <2>3, <3>3, Zenon DEF drain, TypeOK
      <4>4. Chain' = Chain
        BY <3>1, <3>3, <4>2, <4>3, SMTT(60) DEF Chain, TypeOK
      <4> QED BY <2>3, <4>4, Zenon DEF drain, stateVars, CallbacksFormChain
    <3> QED BY <3>2, <3>3, Zenon
  <2>4. ASSUME NEW p \in Publishes, callback(p) PROVE CallbacksFormChain'
    <3>1. p \in Delivering /\ Delivering = {p} /\ Chain = <<next[p]>> \o pending
      BY <2>4, ChainShape, Zenon DEF callback, Delivering
    <3>2. Delivering' = {}
      BY <2>4, <3>1, Zenon DEF callback, Goto, Label, Delivering, TypeOK
    <3>3. Chain' = pending /\ reported' = next[p].to /\ state' = state
      BY <2>4, <3>2, Zenon DEF callback, Chain, stateVars
    <3>4. next[p] \in Transitions /\ pending \in Seq(Transitions)
      BY Zenon DEF TypeOK
    <3>5. Leads(<<next[p]>> \o pending, reported, state)
      BY <3>1, Zenon DEF CallbacksFormChain, Leads
    <3>6. Leads(pending, next[p].to, state)
      BY <3>4, <3>5, ChainShrinks, Zenon
    <3> QED BY <3>3, <3>6, Zenon DEF CallbacksFormChain, Leads
  <2>5. CASE RecoveryElapses
    BY <2>5, ChainKept, Zenon DEF RecoveryElapses, queueVars, Delivering
  <2>6. CASE UNCHANGED vars
    BY <2>6, ChainKept, Zenon DEF vars, stateVars, queueVars, Delivering
  <2> QED BY <2>1, <2>2, <2>3, <2>4, <2>5, <2>6, Zenon DEF Next, Deliver
<1> QED BY <1>1, <1>2, TypeCorrect, CallbacksNeverOverlap, PTL DEF Spec

-----------------------------------------------------------------------------
(* Outcomes that come late.                                                *)

InFlight == Admitted \cup {"publishing"}

\* No admission is from the future, and an admission carries the current
\* epoch exactly when no transition has happened since.
EpochsTellAge ==
  \A p \in Publishes :
    /\ adm[p].epoch <= epoch
    /\ pc[p] \in InFlight => (p \in fresh <=> adm[p].epoch = epoch)

\* Only admit gives an admission; transitions only move the epoch on.
LEMMA EpochsInvariant == Spec => []EpochsTellAge
<1>1. Init => EpochsTellAge
  BY SMTT(60) DEF Init, EpochsTellAge, InFlight, Admitted
<1>2. TypeOK /\ EpochsTellAge /\ [Next]_vars => EpochsTellAge'
  <2> SUFFICES ASSUME TypeOK, EpochsTellAge, [Next]_vars PROVE EpochsTellAge'
    BY Zenon
  <2>0. \A q \in Publishes : adm[q].epoch \in Nat
    BY Zenon DEF TypeOK, Admissions
  <2> USE <2>0 DEF EpochsTellAge, InFlight, Admitted, Goto, TypeOK
  <2>1. ASSUME NEW p \in Publishes, admit(p) PROVE EpochsTellAge'
    BY <2>1, SMTT(60) DEF admit, transitionLocked, stateVars
  <2>2. ASSUME NEW p \in Publishes, NEW err \in Outcomes, record(p, err) PROVE EpochsTellAge'
    BY <2>2, SMTT(60) DEF record, recordSuccess, recordFailure, recordNeutral, transitionLocked
  <2>3. ASSUME NEW p \in Publishes, fire(p) PROVE EpochsTellAge'
    BY <2>3, Zenon DEF fire, Label, After, stateVars
  <2>4. ASSUME NEW p \in Publishes, drain(p) PROVE EpochsTellAge'
    BY <2>4, Zenon DEF drain, Label, After, stateVars
  <2>5. ASSUME NEW p \in Publishes, callback(p) PROVE EpochsTellAge'
    BY <2>5, Zenon DEF callback, Label, stateVars
  <2>6. CASE RecoveryElapses
    BY <2>6, Zenon DEF RecoveryElapses
  <2>7. CASE UNCHANGED vars
    BY <2>7, Zenon DEF vars, stateVars
  <2> QED BY <2>1, <2>2, <2>3, <2>4, <2>5, <2>6, <2>7, Zenon DEF Next, Deliver
<1> QED BY <1>1, <1>2, TypeCorrect, PTL DEF Spec

\* record discards the outcome of a publish that was admitted before the last
\* transition, however long the publish was in flight and however often the
\* breaker has returned to the same state since.
THEOREM LateOutcomesDiscarded == Spec => StaleOutcomesDiscarded
<1> DEFINE Discarded == \A p \in Publishes :
             pc[p] = "publishing" /\ pc'[p] # "publishing" /\ p \notin fresh
               => UNCHANGED <<state, failures, probes>>
<1>1. TypeOK /\ EpochsTellAge /\ [Next]_vars => [Discarded]_vars
  <2> SUFFICES ASSUME TypeOK, EpochsTellAge, Next, NEW p \in Publishes,
                      pc[p] = "publishing", pc'[p] # "publishing", p \notin fresh
               PROVE  UNCHANGED <<state, failures, probes>>
    BY Zenon
  <2>1. ~Current(p)
    BY Zenon DEF EpochsTellAge, InFlight, Current
  <2> USE DEF Goto, TypeOK
  <2>2. ASSUME NEW q \in Publishes, admit(q) PROVE FALSE
    BY <2>2, Zenon DEF admit
  <2>3. ASSUME NEW q \in Publishes, Deliver(q) PROVE FALSE
    BY <2>3, Zenon DEF Deliver, fire, drain, callback
  <2>4. ASSUME NEW q \in Publishes, NEW err \in Outcomes, record(q, err)
        PROVE  UNCHANGED <<state, failures, probes>>
    <3>1. q = p
      BY <2>4, Zenon DEF record, recordSuccess, recordFailure, recordNeutral
    <3> QED BY <2>1, <2>4, <3>1, Zenon DEF record, recordSuccess, recordFailure, recordNeutral, Trips
  <2> QED BY <2>2, <2>3, <2>4, Zenon DEF Next, RecoveryElapses
<1> QED BY <1>1, TypeCorrect, EpochsInvariant, PTL DEF Spec, StaleOutcomesDiscarded

-----------------------------------------------------------------------------
(* Probe slots.                                                            *)

\* Unless a callback panics, in the half-open state the probe counter is the
\* number of probes of this half-open period still in flight: a slot is never
\* lost to a straggler and never freed twice.
THEOREM ProbeSlotsAccounted ==
  ASSUME CallbackPanics = FALSE PROVE Spec => []ProbesAccounted
<1>1. Init => ProbesAccounted
  BY Zenon DEF Init, ProbesAccounted
<1>2. TypeOK /\ EpochsTellAge /\ ProbesAccounted /\ [Next]_vars => ProbesAccounted'
  <2> SUFFICES ASSUME TypeOK, EpochsTellAge, ProbesAccounted, [Next]_vars,
                      state' = "halfOpen"
               PROVE  probes' = Cardinality(Probing')
    BY Zenon DEF ProbesAccounted, Probing
  <2>0. /\ \A q \in Publishes : adm[q].epoch \in Nat
        /\ IsFiniteSet(Probing)
    <3>1. IsFiniteSet(Publishes)
      BY BreakerAssumption, Zenon
    <3> QED BY <3>1, FS_Subset, Zenon DEF TypeOK, Admissions, Probing
  <2> USE DEF Goto, Admitted
  <2>1. ASSUME NEW p \in Publishes, admit(p) PROVE probes' = Cardinality(Probing')
    <3>1. CASE state = "open"
      <4>1. Probing' = {p}
        BY <2>0, <2>1, <3>1, SMTT(60) DEF admit, transitionLocked, Probing, EpochsTellAge, TypeOK
      <4> QED BY <2>1, <3>1, <4>1, FS_Singleton, ZenonT(60) DEF admit, transitionLocked
    <3>2. CASE state = "halfOpen"
      <4>1. Probing' = Probing \cup {p} /\ p \notin Probing
        BY <2>1, <3>2, SMTT(60) DEF admit, Probing, TypeOK
      <4> QED BY <2>0, <2>1, <3>2, <4>1, FS_AddElement, Zenon DEF admit, ProbesAccounted
    <3> QED BY <2>1, <3>1, <3>2, Zenon DEF admit, stateVars
  <2>2. ASSUME NEW p \in Publishes, NEW err \in Outcomes, record(p, err)
        PROVE  probes' = Cardinality(Probing')
    <3>0. state = "halfOpen" /\ epoch' = epoch /\ pc[p] = "publishing"
          /\ pc' = [pc EXCEPT ![p] = "idle"] /\ adm' = adm
      BY <2>2, Zenon DEF record, recordSuccess, recordFailure, recordNeutral, transitionLocked
    <3>1. Probing' = Probing \ {p}
      BY <3>0, Zenon DEF Probing, TypeOK
    <3>2. CASE p \in Probing
      <4>1. Current(p) /\ adm[p].probe
        BY <3>2, Zenon DEF Probing, Current
      <4>2. recordNeutral(p)
        BY <2>2, <3>0, <4>1, Zenon DEF record, recordSuccess, recordFailure, transitionLocked, Trips
      <4>3. Cardinality(Probing \ {p}) = Cardinality(Probing) - 1
        BY <2>0, <3>2, FS_RemoveElement, Zenon
      <4>4. probes = Cardinality(Probing) /\ probes > 0
        <5>1. probes # 0
          BY <2>0, <3>0, <3>2, FS_EmptySet, Zenon DEF ProbesAccounted
        <5> QED BY <3>0, <5>1, BreakerAssumption, SMTT(60) DEF ProbesAccounted, TypeOK
      <4> QED BY <3>0, <3>1, <4>1, <4>2, <4>3, <4>4, Zenon DEF recordNeutral
    <3>3. CASE p \notin Probing
      <4>1. Probing' = Probing
        BY <3>1, <3>3, Zenon
      <4>2. ~(Current(p) /\ adm[p].probe)
        BY <3>0, <3>3, Zenon DEF Probing, Current
      <4>3. probes' = probes
        BY <2>2, <3>0, <4>2, Zenon
        DEF record, recordSuccess, recordFailure, recordNeutral, transitionLocked
      <4> QED BY <3>0, <4>1, <4>3, Zenon DEF ProbesAccounted
    <3> QED BY <3>2, <3>3, Zenon
  <2>3. ASSUME NEW p \in Publishes, Deliver(p) PROVE probes' = Cardinality(Probing')
    <3>1. Probing' = Probing
      <4>1. CASE fire(p)
        BY <4>1, Zenon DEF fire, Label, After, Probing, TypeOK, stateVars
      <4>2. CASE drain(p)
        BY <4>2, Zenon DEF drain, Label, After, Probing, TypeOK, stateVars
      <4>3. CASE callback(p)
        BY <4>3, Zenon DEF callback, Label, Probing, TypeOK, stateVars
      <4> QED BY <2>3, <4>1, <4>2, <4>3, Zenon DEF Deliver
    <3> QED BY <2>3, <3>1, Zenon DEF Deliver, fire, drain, callback, stateVars, ProbesAccounted
  <2>4. CASE RecoveryElapses
    BY <2>4, Zenon DEF RecoveryElapses
  <2>5. CASE UNCHANGED vars
    BY <2>5, Zenon DEF vars, stateVars, ProbesAccounted, Probing
  <2> QED BY <2>1, <2>2, <2>3, <2>4, <2>5, Zenon DEF Next
<1> QED BY <1>1, <1>2, TypeCorrect, EpochsInvariant, PTL DEF Spec

=============================================================================
