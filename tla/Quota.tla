------------------------------- MODULE Quota -------------------------------
(***************************************************************************)
(* quota of session.go as its goroutines run it.  acquire looks at the     *)
(* counter under the mutex and, when there is nothing to take, captures    *)
(* the wake channel, unlocks and selects on it; releaseAt, reset and fail  *)
(* change the counter and broadcast by closing the channel and installing  *)
(* a fresh one.  Channels are numbered: all but the newest are closed.     *)
(*                                                                         *)
(* Critical sections of q.mu are single steps.  How the permits of resumed *)
(* exchanges are counted into a reset is Outbound's concern.               *)
(***************************************************************************)
EXTENDS Integers, FiniteSets

CONSTANTS
  Callers,              \* goroutines in Publish
  MaxPermits,           \* bound: the largest Receive Maximum
  MaxBroadcasts         \* bound: state changes

ASSUME QuotaAssumption ==
  IsFiniteSet(Callers) /\ MaxPermits \in Nat /\ MaxBroadcasts \in Nat

VARIABLES
  avail, gen, failed,   \* quota
  wake,                 \* the number of the current wake channel
  pc,                   \* "idle", "lock" (acquire's loop), "select" or "holding"
  myWake,               \* acquire: the captured channel
  quotaGen,             \* what acquire returned
  size                  \* history: the permits the last reset put in

vars == <<avail, gen, failed, wake, pc, myWake, quotaGen, size>>

Goto(c, label) == pc' = [pc EXCEPT ![c] = label]

broadcast == wake < MaxBroadcasts /\ wake' = wake + 1

-----------------------------------------------------------------------------
Publish(c) ==
  /\ pc[c] = "idle" /\ Goto(c, "lock")
  /\ UNCHANGED <<avail, gen, failed, wake, myWake, quotaGen, size>>

\* Mutant: the channel is captured after the mutex has been released.
acquireLate(c) ==
  \/ /\ pc[c] = "lock" /\ (failed \/ avail > 0)
     /\ avail' = IF failed THEN avail ELSE avail - 1
     /\ Goto(c, IF failed THEN "idle" ELSE "holding")
     /\ quotaGen' = IF failed THEN quotaGen ELSE [quotaGen EXCEPT ![c] = gen]
     /\ UNCHANGED <<gen, failed, wake, myWake, size>>
  \/ /\ pc[c] = "lock" /\ ~failed /\ avail = 0 /\ Goto(c, "unlocked")
     /\ UNCHANGED <<avail, gen, failed, wake, myWake, quotaGen, size>>
  \/ /\ pc[c] = "unlocked" /\ Goto(c, "select") /\ myWake' = [myWake EXCEPT ![c] = wake]
     /\ UNCHANGED <<avail, gen, failed, wake, quotaGen, size>>

\* The critical section of acquire's loop.
acquire(c) ==
  /\ pc[c] = "lock"
  /\ \/ /\ failed /\ Goto(c, "idle")
        /\ UNCHANGED <<avail, quotaGen, myWake>>
     \/ /\ ~failed /\ avail > 0 /\ avail' = avail - 1
        /\ Goto(c, "holding") /\ quotaGen' = [quotaGen EXCEPT ![c] = gen]
        /\ UNCHANGED myWake
     \/ /\ ~failed /\ avail = 0
        /\ Goto(c, "select") /\ myWake' = [myWake EXCEPT ![c] = wake]
        /\ UNCHANGED <<avail, quotaGen>>
  /\ UNCHANGED <<gen, failed, wake, size>>

\* <-wake: the captured channel is closed.
acquireWoken(c) ==
  /\ pc[c] = "select" /\ myWake[c] < wake /\ Goto(c, "lock")
  /\ UNCHANGED <<avail, gen, failed, wake, myWake, quotaGen, size>>

\* <-ctx.Done().
acquireCancelled(c) ==
  /\ pc[c] = "select" /\ Goto(c, "idle")
  /\ UNCHANGED <<avail, gen, failed, wake, myWake, quotaGen, size>>

\* Mutant: a permit is credited to whatever generation is current.
releaseUnguarded(c) ==
  /\ pc[c] = "holding" /\ Goto(c, "idle")
  /\ avail' = avail + 1 /\ broadcast
  /\ UNCHANGED <<gen, failed, myWake, quotaGen, size>>

releaseAt(c) ==
  /\ pc[c] = "holding" /\ Goto(c, "idle")
  /\ IF quotaGen[c] = gen THEN avail' = avail + 1 /\ broadcast ELSE UNCHANGED <<avail, wake>>
  /\ UNCHANGED <<gen, failed, myWake, quotaGen, size>>

\* applySession, at a reconnect.
reset ==
  /\ \E n \in 0 .. MaxPermits : avail' = n /\ size' = n
  /\ gen' = gen + 1 /\ failed' = FALSE /\ broadcast
  /\ UNCHANGED <<pc, myWake, quotaGen>>

\* teardownLink.
fail ==
  /\ failed' = TRUE /\ broadcast
  /\ UNCHANGED <<avail, gen, pc, myWake, quotaGen, size>>

-----------------------------------------------------------------------------
Init ==
  /\ avail \in 0 .. MaxPermits /\ size = avail /\ gen = 0 /\ failed = FALSE /\ wake = 0
  /\ pc = [c \in Callers |-> "idle"]
  /\ myWake = [c \in Callers |-> 0] /\ quotaGen = [c \in Callers |-> 0]

Next ==
  \/ \E c \in Callers : Publish(c) \/ acquire(c) \/ acquireWoken(c) \/ acquireCancelled(c)
                        \/ releaseAt(c)
  \/ reset \/ fail

Spec == Init /\ [][Next]_vars

\* A goroutine that can run does; contexts, releases, reconnects and losses
\* need not come.
Fairness == \A c \in Callers : WF_vars(acquire(c)) /\ WF_vars(acquireWoken(c))

FairSpec == Spec /\ Fairness

-----------------------------------------------------------------------------
\* Every variable holds a value its Go counterpart can hold.
TypeOK ==
  /\ avail \in Nat /\ gen \in Nat /\ failed \in BOOLEAN /\ wake \in Nat /\ size \in Nat
  /\ pc \in [Callers -> {"idle", "lock", "select", "holding"}]
  /\ myWake \in [Callers -> Nat] /\ quotaGen \in [Callers -> Nat]

\* quota: "Capturing the channel under the mutex before selecting closes the
\* lost-wakeup window": a caller that no broadcast has woken since it looked
\* has nothing to wake up for.
NoMissedWakeup ==
  \A c \in Callers : pc[c] = "select" /\ myWake[c] = wake => avail = 0 /\ ~failed

\* The callers that hold a permit of the current generation.
Granted == {c \in Callers : pc[c] = "holding" /\ quotaGen[c] = gen}

\* quota.releaseAt: the free permits and the ones handed out add up to what
\* the last reset put in; a permit of an earlier generation, released late,
\* never raises the count.
PermitsAddUp == avail + Cardinality(Granted) = size

\* To its callers the quota is a semaphore: a caller waits from the call to
\* its return, wherever in acquire's loop it is.
Seen(label) == IF label \in {"lock", "select"} THEN "waiting" ELSE label

callerState == [c \in Callers |-> Seen(pc[c])]

Sem == INSTANCE Semaphore WITH
  state <- callerState, stamp <- quotaGen, free <- avail, closed <- failed

\* quota: the wake channel implements the semaphore, in every step and in
\* its promise that nobody waits for a permit that is there, or for a
\* connection that is lost.
ImplementsSemaphore == Sem!LiveSpec

=============================================================================
