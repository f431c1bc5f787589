--------------------------- MODULE Subscriptions ---------------------------
(***************************************************************************)
(* The subscription registry of TCPClient (c.subs under subsMu) and the    *)
(* Subscribe and Unsubscribe calls that keep it in step with the broker.   *)
(* A Subscribe registers its handler before the SUBSCRIBE is on the wire   *)
(* and rolls the registration back when the request fails; a reconnect     *)
(* replays every registration.  Packet identifiers and waiters are the     *)
(* business of Outbound: here a request is one write and one answer.       *)
(*                                                                         *)
(* A call stands for its own handler.  Each call names its filter and the  *)
(* Subscription Identifier it asks for (0 for none).                       *)
(***************************************************************************)
EXTENDS Naturals, FiniteSets

CONSTANTS
  Subscribes, Unsubscribes,     \* the calls
  Filters, FilterOf, SubIDOf,   \* the filter of a call; the identifier of a Subscribe
  None,
  Windows,         \* the check-then-act windows another call may use, see below
  MaxReconnects    \* bound

Calls == Subscribes \cup Unsubscribes

\* "snapshot": between snapshotSubscription and addSubscription.
\* "stamp": between a registration and the write of its SUBSCRIBE.
WindowNames == {"snapshot", "stamp"}

Registrations == [handler : Subscribes, subID : Nat, token : Nat]

ASSUME SubscriptionsAssumption ==
  /\ Subscribes \cap Unsubscribes = {} /\ None \notin Calls /\ None \notin Registrations
  /\ FilterOf \in [Calls -> Filters] /\ SubIDOf \in [Subscribes -> Nat]
  /\ Windows \subseteq WindowNames /\ MaxReconnects \in Nat

VARIABLES
  subs,       \* filter -> its registration, or None
  subSeq,
  pc, conn, snap, token,             \* a call: locals (conn: the connection it loaded)
  answer, result,                    \* the broker's answer; what the call returned
  broker,     \* external: filter -> the subscription the broker holds, or None
  reconnects, replaying,             \* the copy of subs that replaySubscriptions sends
  overlap     \* history: filters two calls were made for at the same time

callVars == <<pc, conn, snap, token, answer, result>>
connVars == <<reconnects, replaying>>
vars == <<subs, subSeq, callVars, broker, connVars, overlap>>

f(c) == FilterOf[c]
Goto(c, label) == pc' = [pc EXCEPT ![c] = label]
Registration(c, n) == [handler |-> c, subID |-> SubIDOf[c], token |-> n]

\* A call that another one for the same filter must not overtake.
Between(c) ==
  \/ "snapshot" \notin Windows /\ pc[c] = "add"
  \/ "stamp" \notin Windows /\ pc[c] = "write"
Undisturbed(c) == \A d \in Calls \ {c} : f(d) = f(c) => ~Between(d)

Running(g) == {c \in Calls : f(c) = g /\ pc[c] \notin {"idle", "done"}}

-----------------------------------------------------------------------------
\* The link is loaded (none is published during a replay) and the registration
\* for the filter is noted.
snapshotSubscription(c) ==
  /\ pc[c] = "idle" /\ Undisturbed(c) /\ replaying = None
  /\ conn' = [conn EXCEPT ![c] = reconnects]
  /\ snap' = [snap EXCEPT ![c] = subs[f(c)]]
  /\ Goto(c, IF c \in Subscribes THEN "add" ELSE "write")
  /\ overlap' = overlap \cup {g \in {f(c)} : Running(g) # {}}
  /\ UNCHANGED <<subs, subSeq, token, answer, result, broker, connVars>>

\* The handler is registered, under a new token, before the SUBSCRIBE is sent.
addSubscription(c) ==
  /\ pc[c] = "add" /\ Undisturbed(c)
  /\ subSeq' = subSeq + 1
  /\ token' = [token EXCEPT ![c] = subSeq']
  /\ subs' = [subs EXCEPT ![f(c)] = Registration(c, subSeq')]
  /\ Goto(c, "write")
  /\ UNCHANGED <<conn, snap, answer, result, broker, connVars, overlap>>

\* requestAck up to the broker: the write fails, as it must on an earlier
\* connection, or the broker accepts or rejects the request.  Frames reach the
\* broker in the order of the writes.
requestAck(c) ==
  /\ pc[c] = "write" /\ Undisturbed(c)
  /\ \/ answer' = [answer EXCEPT ![c] = "failed"] /\ UNCHANGED broker
     \/ /\ conn[c] = reconnects
        /\ answer' = [answer EXCEPT ![c] = "rejected"] /\ UNCHANGED broker
     \/ /\ conn[c] = reconnects
        /\ answer' = [answer EXCEPT ![c] = "accepted"]
        /\ broker' = [broker EXCEPT ![f(c)] =
                        IF c \in Subscribes THEN [handler |-> c, subID |-> SubIDOf[c]] ELSE None]
  /\ Goto(c, "wait")
  /\ UNCHANGED <<subs, subSeq, conn, snap, token, result, connVars, overlap>>

\* Mutant: the rollback does not look whether its registration is current.
restoreAlways(c) == [subs EXCEPT ![f(c)] = snap[c]]

\* Mutant: the registration of a failed Subscribe stays.
restoreNothing(c) == subs

\* restoreSubscription: options, handler and token go back to the snapshot's,
\* the identifier stays the one of the failed Subscribe.
restoreSubscription(c) ==
  IF subs[f(c)] = None \/ subs[f(c)].token # token[c] THEN subs
  ELSE IF snap[c] = None THEN [subs EXCEPT ![f(c)] = None]
  ELSE [subs EXCEPT ![f(c)].handler = snap[c].handler, ![f(c)].token = snap[c].token]

removeSubscriptionIfCurrent(c) ==
  IF snap[c] = None \/ subs[f(c)] = None \/ subs[f(c)].token # snap[c].token THEN subs
  ELSE [subs EXCEPT ![f(c)] = None]

\* waitAck and what follows it.  An accepted request may still be reported as
\* failed: AckTimeout, a cancelled context or a lost connection came first.
Finish(c) ==
  /\ pc[c] = "wait"
  /\ \/ /\ answer[c] = "accepted"
        /\ result' = [result EXCEPT ![c] = "ok"]
        /\ subs' = IF c \in Subscribes THEN subs ELSE removeSubscriptionIfCurrent(c)
     \/ /\ result' = [result EXCEPT ![c] = "err"]
        /\ subs' = IF c \in Subscribes THEN restoreSubscription(c) ELSE subs
  /\ Goto(c, "done")
  /\ UNCHANGED <<subSeq, conn, snap, token, answer, broker, connVars, overlap>>

Call(c) == snapshotSubscription(c) \/ addSubscription(c) \/ requestAck(c) \/ Finish(c)

-----------------------------------------------------------------------------
\* A new connection: the broker has kept the subscriptions of the session or
\* forgotten them, requests in flight fail, and the registrations are copied.
Reconnect(resumed) ==
  /\ reconnects < MaxReconnects /\ replaying = None
  /\ reconnects' = reconnects + 1
  /\ replaying' = subs
  /\ broker' = IF resumed THEN broker ELSE [g \in Filters |-> None]
  /\ answer' = [c \in Calls |-> IF pc[c] = "wait" THEN "failed" ELSE answer[c]]
  /\ UNCHANGED <<subs, subSeq, pc, conn, snap, token, result, overlap>>

\* A replayed SUBSCRIBE carries the registration's filter, options and identifier.
Resubscription(r) == [handler |-> r.handler, subID |-> r.subID]

\* replaySubscriptions sends the copy; the broker takes all of it but a few
\* filters it rejects, which is only logged.
replaySubscriptions(rejected) ==
  /\ replaying # None
  /\ broker' = [g \in Filters |->
       IF replaying[g] = None \/ g \in rejected THEN broker[g] ELSE Resubscription(replaying[g])]
  /\ replaying' = None
  /\ UNCHANGED <<subs, subSeq, callVars, reconnects, overlap>>

-----------------------------------------------------------------------------
(* dispatch, for a topic that every filter of the model matches.           *)

\* Mutant: a message without identifiers is matched against every filter.
dispatchBroad(ids) ==
  {g \in Filters : subs[g] # None /\ (ids = {} \/ subs[g].subID \in ids)}

\* The filters whose handler runs for a message that carries these identifiers:
\* the ones registered under them, or without any the unstamped ones.
dispatch(ids) ==
  {g \in Filters : subs[g] # None /\ IF ids # {} THEN subs[g].subID # 0 /\ subs[g].subID \in ids
                                                ELSE subs[g].subID = 0}

\* The broker forwards one copy per subscription, with its identifier if any.
Copy(g) == {broker[g].subID} \ {0}

-----------------------------------------------------------------------------
Init ==
  /\ subs = [g \in Filters |-> None] /\ subSeq = 0
  /\ pc = [c \in Calls |-> "idle"] /\ conn = [c \in Calls |-> 0]
  /\ snap = [c \in Calls |-> None]
  /\ token = [c \in Calls |-> 0]
  /\ answer = [c \in Calls |-> None] /\ result = [c \in Calls |-> None]
  /\ broker = [g \in Filters |-> None]
  /\ reconnects = 0 /\ replaying = None /\ overlap = {}

Next ==
  \/ \E c \in Calls : Call(c)
  \/ \E resumed \in BOOLEAN : Reconnect(resumed)
  \/ \E rejected \in SUBSET Filters : replaySubscriptions(rejected)

Spec == Init /\ [][Next]_vars

-----------------------------------------------------------------------------
\* The registry holds at most one registration per filter, stamped with a
\* token that subSeq has already handed out.
TypeOK ==
  /\ subSeq \in Nat
  /\ subs \in [Filters -> Registrations \cup {None}]
  /\ \A g \in Filters : subs[g] # None => subs[g].token \in 1 .. subSeq
  /\ pc \in [Calls -> {"idle", "add", "write", "wait", "done"}]
  /\ conn \in [Calls -> 0 .. MaxReconnects] /\ snap \in [Calls -> Registrations \cup {None}]
  /\ token \in [Calls -> 0 .. subSeq]
  /\ answer \in [Calls -> {None, "failed", "rejected", "accepted"}]
  /\ result \in [Calls -> {None, "ok", "err"}]
  /\ broker \in [Filters -> [handler : Subscribes, subID : Nat] \cup {None}]
  /\ reconnects \in 0 .. MaxReconnects
  /\ replaying \in [Filters -> Registrations \cup {None}] \cup {None}
  /\ overlap \subseteq Filters

\* No call for the filter and no replay is under way.
Quiet(g) == replaying = None /\ Running(g) = {}

\* publish.go: "On success the handler is registered so it survives
\* reconnects."  While the broker's subscription for a filter is that of a
\* Subscribe that succeeded, every copy it forwards runs a handler, and that
\* call's own unless the registration is that of a failed Subscribe.
DeliveriesReachHandler ==
  \A g \in Filters : Quiet(g) /\ broker[g] # None /\ result[broker[g].handler] = "ok" =>
    g \in dispatch(Copy(g)) /\ (result[subs[g].handler] # "err" => subs[g].handler = broker[g].handler)

\* pump.go: identifiers exist so that overlapping subscriptions do not run a
\* handler twice per message: one registered with an identifier runs at most
\* once for all the copies the broker sends.
StampedRunsOnce ==
  \A g \in Filters : subs[g] # None /\ subs[g].subID # 0 =>
    Cardinality({h \in Filters : broker[h] # None /\ g \in dispatch(Copy(h))}) <= 1

\* publish.go: a provisional registration is "rolled back on failure": no
\* handler of a failed Subscribe stays registered, on any filter.
FailedIsRolledBack ==
  \A g \in Filters : Quiet(g) /\ subs[g] # None => result[subs[g].handler] # "err"

\* The same where the calls for the filter never overlapped, or only one of
\* its Subscribes failed: a chain of replacements, failures, late answers and
\* reconnects leaves the handler of a Subscribe that succeeded, or none.
LoneFailureIsRolledBack ==
  \A g \in Filters :
    /\ Quiet(g) /\ subs[g] # None
    /\ g \notin overlap \/ \A c, d \in Subscribes : f(c) = g /\ f(d) = g /\ result[c] = "err" /\ result[d] = "err" => c = d
    => result[subs[g].handler] # "err"

=============================================================================
