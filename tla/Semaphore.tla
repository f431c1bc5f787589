----------------------------- MODULE Semaphore -----------------------------
(***************************************************************************)
(* What quota (session.go) promises its callers: a counting semaphore that *)
(* a reconnect re-seeds and a lost connection closes.  A permit belongs to *)
(* the generation it was granted in, and only that generation takes it     *)
(* back.  Nothing is said of how a caller waits.                           *)
(***************************************************************************)
EXTENDS Integers

CONSTANTS
  Callers,              \* goroutines in Publish
  MaxPermits            \* bound: the largest Receive Maximum

VARIABLES
  state,                \* a caller is "idle", "waiting" or "holding" a permit
  stamp,                \* the generation of the permit it holds, or held last
  free, gen, closed

vars == <<state, stamp, free, gen, closed>>

Request(c) ==
  /\ state[c] = "idle" /\ state' = [state EXCEPT ![c] = "waiting"]
  /\ UNCHANGED <<stamp, free, gen, closed>>

Grant(c) ==
  /\ state[c] = "waiting" /\ ~closed /\ free > 0
  /\ state' = [state EXCEPT ![c] = "holding"] /\ stamp' = [stamp EXCEPT ![c] = gen]
  /\ free' = free - 1
  /\ UNCHANGED <<gen, closed>>

\* The connection is lost.
Refuse(c) ==
  /\ state[c] = "waiting" /\ closed /\ state' = [state EXCEPT ![c] = "idle"]
  /\ UNCHANGED <<stamp, free, gen, closed>>

\* The caller's context ends.
Abandon(c) ==
  /\ state[c] = "waiting" /\ state' = [state EXCEPT ![c] = "idle"]
  /\ UNCHANGED <<stamp, free, gen, closed>>

Release(c) ==
  /\ state[c] = "holding" /\ state' = [state EXCEPT ![c] = "idle"]
  /\ free' = IF stamp[c] = gen THEN free + 1 ELSE free
  /\ UNCHANGED <<stamp, gen, closed>>

Renew ==
  /\ free' \in 0 .. MaxPermits
  /\ gen' = gen + 1 /\ closed' = FALSE
  /\ UNCHANGED <<state, stamp>>

Close == closed' = TRUE /\ UNCHANGED <<state, stamp, free, gen>>

Init ==
  /\ state = [c \in Callers |-> "idle"] /\ stamp = [c \in Callers |-> 0]
  /\ gen = 0 /\ closed = FALSE /\ free \in 0 .. MaxPermits

Next ==
  \/ \E c \in Callers : Request(c) \/ Grant(c) \/ Refuse(c) \/ Abandon(c) \/ Release(c)
  \/ Renew \/ Close

Spec == Init /\ [][Next]_vars

\* Nobody is left waiting for what is there: a permit, or bad news.
Attentive == \A c \in Callers : []<>~(state[c] = "waiting" /\ (closed \/ free > 0))

LiveSpec == Spec /\ Attentive

=============================================================================
