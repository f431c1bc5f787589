---------------------------- MODULE QuotaProofs ----------------------------
(***************************************************************************)
(* The quota for any number of callers and permits: no wake-up is lost,    *)
(* and the wake channel is a semaphore to whoever uses it.                 *)
(***************************************************************************)
EXTENDS Quota, FiniteSetTheorems, TLAPS

\* A captured channel is never newer than the current one, and one that is
\* still open was captured when there was nothing to take.
Capture == TypeOK /\ (\A c \in Callers : myWake[c] <= wake) /\ NoMissedWakeup

\* A Receive Maximum is a natural number.
LEMMA SeedsAreNat == \A n \in 0 .. MaxPermits : n \in Nat
  BY QuotaAssumption, SMTT(60) DEF QuotaAssumption

\* The inductive invariant holds in the initial states of newQuota.
LEMMA CaptureInit == Init => Capture
<1> SUFFICES ASSUME Init PROVE Capture
  BY Zenon
<1>1. avail \in Nat /\ size \in Nat
  BY SeedsAreNat, Zenon DEF Init
<1>2. TypeOK
  BY <1>1, Zenon DEF Init, TypeOK
<1>3. (\A c \in Callers : myWake[c] <= wake) /\ NoMissedWakeup
  BY SMTT(60) DEF Init, NoMissedWakeup
<1> QED
  BY <1>2, <1>3, Zenon DEF Capture

\* Every critical section of the quota preserves it: what changes the
\* counter upwards, or fails the quota, also replaces the channel.
LEMMA CaptureStep == Capture /\ [Next]_vars => Capture'
<1> SUFFICES ASSUME Capture, [Next]_vars PROVE Capture'
  BY Zenon
<1> USE DEF Capture, TypeOK, NoMissedWakeup
<1>1. ASSUME NEW c \in Callers, Publish(c) PROVE Capture'
  BY <1>1, Zenon DEF Publish, Goto
<1>2. ASSUME NEW c \in Callers, acquire(c) PROVE Capture'
  <2>1. CASE failed
    BY <1>2, <2>1, Zenon DEF acquire, Goto
  <2>2. CASE ~failed /\ avail > 0
    BY <1>2, <2>2, SMTT(60) DEF acquire, Goto
  <2>3. CASE ~failed /\ avail = 0
    BY <1>2, <2>3, SMTT(60) DEF acquire, Goto
  <2> QED
    BY <2>1, <2>2, <2>3, SMTT(60)
<1>3. ASSUME NEW c \in Callers, acquireWoken(c) PROVE Capture'
  BY <1>3, Zenon DEF acquireWoken, Goto
<1>4. ASSUME NEW c \in Callers, acquireCancelled(c) PROVE Capture'
  BY <1>4, Zenon DEF acquireCancelled, Goto
<1>5. ASSUME NEW c \in Callers, releaseAt(c) PROVE Capture'
  <2>1. CASE quotaGen[c] = gen
    BY <1>5, <2>1, SMTT(60) DEF releaseAt, broadcast, Goto
  <2>2. CASE quotaGen[c] # gen
    BY <1>5, <2>2, Zenon DEF releaseAt, Goto
  <2> QED
    BY <2>1, <2>2, Zenon
<1>6. CASE reset
  <2>1. avail' \in Nat /\ size' \in Nat
    BY <1>6, SeedsAreNat, Zenon DEF reset
  <2>2. wake' = wake + 1 /\ UNCHANGED <<pc, myWake, quotaGen>> /\ gen' = gen + 1
    BY <1>6, Zenon DEF reset, broadcast
  <2>3. failed' \in BOOLEAN
    BY <1>6, Zenon DEF reset
  <2>4. TypeOK'
    BY <2>1, <2>2, <2>3, SMTT(60)
  <2> QED
    BY <2>2, <2>4, SMTT(60)
<1>7. CASE fail
  BY <1>7, SMTT(60) DEF fail, broadcast
<1>8. CASE UNCHANGED vars
  BY <1>8, Zenon DEF vars
<1> QED
  BY <1>1, <1>2, <1>3, <1>4, <1>5, <1>6, <1>7, <1>8, Zenon DEF Next

\* The invariant holds throughout.
LEMMA CaptureInvariant == Spec => []Capture
  BY CaptureInit, CaptureStep, PTL DEF Spec

\* quota: no wake-up of acquire is lost, whatever the interleaving of its
\* callers with releaseAt, reset and fail.
THEOREM WakeupsReach == Spec => []NoMissedWakeup
<1>1. Capture => NoMissedWakeup
  BY Zenon DEF Capture
<1> QED
  BY <1>1, CaptureInvariant, PTL

-----------------------------------------------------------------------------
\* What a semaphore sees of a caller changes with its place in acquire.
LEMMA SeenGoto ==
  ASSUME NEW c \in Callers, NEW label, Goto(c, label), TypeOK
  PROVE  callerState[c] = Seen(pc[c]) /\ callerState' = [callerState EXCEPT ![c] = Seen(label)]
  BY Zenon DEF callerState, Goto, TypeOK

\* newQuota is a fresh semaphore.
LEMMA StartsAsSemaphore == Init => Sem!Init
  BY Zenon DEF Init, Sem!Init, callerState, Seen

\* Every step of the quota is a step of the semaphore, or none at all: the
\* semaphore does not see acquire capture a channel or wake up.
LEMMA StepsAsSemaphore == Capture /\ [Next]_vars => [Sem!Next]_(Sem!vars)
<1> SUFFICES ASSUME TypeOK, [Next]_vars PROVE [Sem!Next]_(Sem!vars)
  BY Zenon DEF Capture
<1> USE DEF Seen
<1>1. ASSUME NEW c \in Callers, Publish(c) PROVE Sem!Request(c)
  BY <1>1, SeenGoto, Zenon DEF Publish, Sem!Request
<1>2. ASSUME NEW c \in Callers, acquire(c)
      PROVE  Sem!Refuse(c) \/ Sem!Grant(c) \/ UNCHANGED Sem!vars
  <2>1. callerState[c] = "waiting"
    BY <1>2, SeenGoto, Zenon DEF acquire
  <2>2. CASE failed /\ Goto(c, "idle") /\ UNCHANGED <<avail, quotaGen, myWake>>
    BY <1>2, <2>1, <2>2, SeenGoto, Zenon DEF acquire, Sem!Refuse
  <2>3. CASE /\ ~failed /\ avail > 0 /\ avail' = avail - 1
             /\ Goto(c, "holding") /\ quotaGen' = [quotaGen EXCEPT ![c] = gen]
    BY <1>2, <2>1, <2>3, SeenGoto, Zenon DEF acquire, Sem!Grant
  <2>4. CASE Goto(c, "select") /\ UNCHANGED <<avail, quotaGen>>
    <3>1. callerState' = callerState
      BY <2>1, <2>4, SeenGoto, ZenonT(60) DEF callerState
    <3> QED
      BY <1>2, <2>4, <3>1, Zenon DEF acquire, Sem!vars
  <2> QED
    BY <1>2, <2>2, <2>3, <2>4, Zenon DEF acquire
<1>3. ASSUME NEW c \in Callers, acquireWoken(c) PROVE UNCHANGED Sem!vars
  <2>1. callerState' = callerState
    BY <1>3, SeenGoto, ZenonT(60) DEF acquireWoken, callerState
  <2> QED
    BY <1>3, <2>1, Zenon DEF acquireWoken, Sem!vars
<1>4. ASSUME NEW c \in Callers, acquireCancelled(c) PROVE Sem!Abandon(c)
  BY <1>4, SeenGoto, Zenon DEF acquireCancelled, Sem!Abandon
<1>5. ASSUME NEW c \in Callers, releaseAt(c) PROVE Sem!Release(c)
  BY <1>5, SeenGoto, Zenon DEF releaseAt, broadcast, Sem!Release
<1>6. CASE reset
  BY <1>6, Zenon DEF reset, Sem!Next, Sem!Renew, callerState
<1>7. CASE fail
  BY <1>7, Zenon DEF fail, Sem!Next, Sem!Close, callerState
<1>8. CASE UNCHANGED vars
  BY <1>8, Zenon DEF vars, Sem!vars, callerState
<1> QED
  BY <1>1, <1>2, <1>3, <1>4, <1>5, <1>6, <1>7, <1>8, Zenon DEF Next, Sem!Next

\* quota implements the semaphore: every behaviour of the wake channel is a
\* behaviour of a semaphore in which waiting is a single state.
THEOREM QuotaRefinesSemaphore == Spec => Sem!Spec
  BY StartsAsSemaphore, StepsAsSemaphore, CaptureInvariant, PTL DEF Spec, Sem!Spec

-----------------------------------------------------------------------------
\* No permit is newer than the quota, and every one of this generation is
\* free or held.
Accounts ==
  TypeOK /\ (\A c \in Callers : quotaGen[c] <= gen) /\ PermitsAddUp

\* A set of callers can be counted.
LEMMA GrantedFinite == IsFiniteSet(Granted) /\ IsFiniteSet(Granted')
<1>1. Granted \subseteq Callers /\ Granted' \subseteq Callers
  BY Zenon DEF Granted
<1> QED
  BY <1>1, QuotaAssumption, FS_Subset, Zenon DEF QuotaAssumption

\* A step that keeps the counter, the generation and the holders keeps the
\* accounts.
LEMMA AccountsKept ==
  ASSUME Accounts, TypeOK', UNCHANGED <<avail, size>>, Granted' = Granted,
         \A c \in Callers : quotaGen'[c] <= gen'
  PROVE  Accounts'
  BY Zenon DEF Accounts, PermitsAddUp

\* Every step keeps them: acquire moves a permit, releaseAt moves it back or
\* drops a stale one, reset starts a generation nobody holds a permit of.
LEMMA AccountsStep == Accounts /\ TypeOK' /\ [Next]_vars => Accounts'
<1> SUFFICES ASSUME Accounts, TypeOK', [Next]_vars PROVE Accounts'
  BY Zenon
<1> USE DEF TypeOK
<1>1. ASSUME NEW c \in Callers, Publish(c) \/ acquireWoken(c) \/ acquireCancelled(c)
      PROVE  Accounts'
  <2>1. Granted' = Granted
    BY <1>1, Zenon DEF Accounts, Granted, Publish, acquireWoken, acquireCancelled, Goto
  <2>2. UNCHANGED <<avail, size, gen, quotaGen>>
    BY <1>1, Zenon DEF Publish, acquireWoken, acquireCancelled
  <2> QED
    BY <2>1, <2>2, AccountsKept, Zenon DEF Accounts, PermitsAddUp
<1>2. ASSUME NEW c \in Callers, acquire(c) PROVE Accounts'
  <2>1. CASE UNCHANGED <<avail, quotaGen>> /\ (Goto(c, "idle") \/ Goto(c, "select"))
    <3>1. Granted' = Granted /\ UNCHANGED <<avail, size, gen, quotaGen>>
      BY <1>2, <2>1, Zenon DEF Accounts, Granted, acquire, Goto
    <3> QED
      BY <3>1, AccountsKept, Zenon DEF Accounts, PermitsAddUp
  <2>2. CASE /\ avail' = avail - 1 /\ Goto(c, "holding")
             /\ quotaGen' = [quotaGen EXCEPT ![c] = gen]
    <3>1. c \notin Granted /\ Granted' = Granted \cup {c} /\ UNCHANGED <<size, gen>>
      BY <1>2, <2>2, ZenonT(60) DEF Accounts, Granted, acquire, Goto
    <3>2. Cardinality(Granted') = Cardinality(Granted) + 1
      BY <3>1, GrantedFinite, FS_AddElement, Zenon
    <3>3. Cardinality(Granted) \in Nat
      BY GrantedFinite, FS_CardinalityType, Zenon
    <3>4. \A d \in Callers : quotaGen'[d] <= gen'
      BY <2>2, <3>1, SMTT(60) DEF Accounts, PermitsAddUp
    <3> QED
      BY <2>2, <3>1, <3>2, <3>3, <3>4, SMTT(60) DEF Accounts, PermitsAddUp
  <2> QED
    BY <1>2, <2>1, <2>2, Zenon DEF acquire
<1>3. ASSUME NEW c \in Callers, releaseAt(c) PROVE Accounts'
  <2>1. UNCHANGED <<size, gen, quotaGen>> /\ Goto(c, "idle") /\ pc[c] = "holding"
    BY <1>3, Zenon DEF releaseAt
  <2>2. CASE quotaGen[c] = gen
    <3>1. c \in Granted /\ Granted' = Granted \ {c} /\ avail' = avail + 1
      BY <1>3, <2>1, <2>2, Zenon DEF Accounts, Granted, releaseAt, Goto
    <3>2. Cardinality(Granted') = Cardinality(Granted) - 1
      BY <3>1, GrantedFinite, FS_RemoveElement, Zenon
    <3>3. Cardinality(Granted) \in Nat
      BY GrantedFinite, FS_CardinalityType, Zenon
    <3> QED
      BY <2>1, <3>1, <3>2, <3>3, SMTT(60) DEF Accounts, PermitsAddUp
  <2>3. CASE quotaGen[c] # gen
    <3>1. Granted' = Granted /\ avail' = avail
      BY <1>3, <2>1, <2>3, Zenon DEF Accounts, Granted, releaseAt, Goto
    <3> QED
      BY <2>1, <3>1, AccountsKept, Zenon DEF Accounts, PermitsAddUp
  <2> QED
    BY <2>2, <2>3, Zenon
<1>4. CASE reset
  <2>1. Granted' = {} /\ avail' = size' /\ \A c \in Callers : quotaGen'[c] <= gen'
    BY <1>4, SMTT(60) DEF Accounts, Granted, reset
  <2>2. Cardinality(Granted') = 0
    BY <2>1, FS_EmptySet, Zenon
  <2> QED
    BY <2>1, <2>2, SMTT(60) DEF Accounts, PermitsAddUp
<1>5. CASE fail
  <2>1. Granted' = Granted /\ UNCHANGED <<avail, size, gen, quotaGen>>
    BY <1>5, Zenon DEF Granted, fail
  <2> QED
    BY <2>1, AccountsKept, Zenon DEF Accounts, PermitsAddUp
<1>6. CASE UNCHANGED vars
  <2>1. Granted' = Granted /\ UNCHANGED <<avail, size, gen, quotaGen>>
    BY <1>6, Zenon DEF Granted, vars
  <2> QED
    BY <2>1, AccountsKept, Zenon DEF Accounts, PermitsAddUp
<1> QED
  BY <1>1, <1>2, <1>3, <1>4, <1>5, <1>6, Zenon DEF Next

\* quota.releaseAt: the free permits and the ones handed out add up to what
\* the last reset put in; a permit of an earlier generation counts for
\* nothing.
THEOREM PermitsConserved == Spec => []PermitsAddUp
<1>1. Init => Accounts
  <2> SUFFICES ASSUME Init PROVE Accounts
    BY Zenon
  <2>1. Granted = {} /\ (\A c \in Callers : quotaGen[c] <= gen) /\ avail = size
    BY SMTT(60) DEF Init, Granted
  <2>2. Cardinality(Granted) = 0
    BY <2>1, FS_EmptySet, Zenon
  <2>3. TypeOK
    BY CaptureInit, Zenon DEF Capture
  <2> QED
    BY <2>1, <2>2, <2>3, SMTT(60) DEF Accounts, PermitsAddUp, TypeOK
<1>2. Capture => TypeOK
  BY Zenon DEF Capture
<1>3. Accounts => PermitsAddUp
  BY Zenon DEF Accounts
<1> QED
  BY <1>1, <1>2, <1>3, AccountsStep, CaptureInvariant, PTL DEF Spec

=============================================================================
