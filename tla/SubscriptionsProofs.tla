------------------------ MODULE SubscriptionsProofs ------------------------
(***************************************************************************)
(* The subscription registry, for any number of calls, filters and         *)
(* reconnects.                                                             *)
(*                                                                         *)
(* Rollbacks needs nothing of the application: a token is handed out once, *)
(* so a rollback touches only its own registration, and what it restores   *)
(* is the handler of a failed Subscribe only when another one failed too.  *)
(*                                                                         *)
(* Deliveries is for calls that do not interleave between their snapshot   *)
(* and their write (Windows = {}).  Then the tokens of the registrations   *)
(* are in the order in which the broker sees the requests, and a           *)
(* registration newer than the one whose subscription the broker holds has *)
(* failed, or will and then goes back towards that one.                    *)
(***************************************************************************)
EXTENDS Subscriptions, FiniteSetTheorems, TLAPS

\* What the broker may hold for a filter.
BrokerSubs == [handler : Subscribes, subID : Nat]

\* The call has returned an error.
Failed(c) == pc[c] = "done" /\ result[c] = "err"

-----------------------------------------------------------------------------
(* What a registration says.                                               *)

\* addSubscription has run for the call.
Registered(c) == c \in Subscribes /\ pc[c] \in {"write", "wait", "done"}

\* The handler is that of a Subscribe for the filter, the identifier that of
\* one too.
Sound(r, g) ==
  /\ f(r.handler) = g /\ Registered(r.handler)
  /\ \E d \in Subscribes : f(d) = g /\ r.subID = SubIDOf[d]

\* A token is handed out once.
Tokens ==
  /\ \A c \in Subscribes : Registered(c) => token[c] \in 1 .. subSeq
  /\ \A c, d \in Subscribes : Registered(c) /\ Registered(d) /\ token[c] = token[d] => c = d

\* Every registration, in the registry, in a snapshot or in a replay, has the
\* token its Subscribe was given.
Names(r, g) == Sound(r, g) /\ r.token = token[r.handler]

Named ==
  /\ \A g \in Filters, r \in Registrations : subs[g] = r => Names(r, g)
  /\ \A c \in Calls, r \in Registrations : snap[c] = r => Names(r, f(c)) /\ r.handler # c
  /\ \A g \in Filters, r \in Registrations : replaying # None /\ replaying[g] = r => Names(r, g)
  /\ \A g \in Filters, b \in BrokerSubs : broker[g] = b /\ b # None => Sound(b, g)

-----------------------------------------------------------------------------
(* Rollbacks.                                                              *)

\* While the calls for a filter do not overlap, neither its registration nor
\* the one a call would restore is that of a failed Subscribe.
Serial ==
  \A g \in Filters \ overlap :
    /\ \A c, d \in Running(g) : c = d
    /\ \A x \in Subscribes : subs[g] # None /\ subs[g].handler = x => ~Failed(x)
    /\ \A c \in Running(g), x \in Subscribes : snap[c] # None /\ snap[c].handler = x => ~Failed(x)

\* A failed Subscribe's registration came back with the failure of another.
Twice ==
  \A g \in Filters, x \in Subscribes : subs[g] # None /\ subs[g].handler = x /\ Failed(x) =>
    \E d \in Subscribes \ {x} : f(d) = g /\ Failed(d)

-----------------------------------------------------------------------------
(* The order of the registrations.                                         *)

\* The token of the handler of a registration.
Age(r) == token[r.handler]

\* One call at a time is between its snapshot and its write.
Turns == \A c, d \in Calls : f(c) = f(d) /\ pc[c] \in {"add", "write"} /\ pc[d] \in {"add", "write"} => c = d

\* The Subscribe about to be written has the newest registration, the current one.
Newest ==
  \A c \in Subscribes : pc[c] = "write" =>
    /\ subs[f(c)] # None /\ subs[f(c)].handler = c
    /\ \A d \in Subscribes : Registered(d) /\ f(d) = f(c) => token[d] <= token[c]
    /\ \A d \in Calls : f(d) = f(c) /\ snap[d] # None => snap[d].handler # c

\* A registration newer than the current one has been rolled back, and so has
\* one between a snapshot and the registration that followed it.
Rolled ==
  /\ \A c \in Subscribes : Registered(c) /\ snap[c] # None => Age(snap[c]) < token[c]
  /\ \A g \in Filters, d \in Subscribes :
       subs[g] # None /\ Registered(d) /\ f(d) = g /\ token[d] > Age(subs[g]) => Failed(d)
  /\ \A c, d \in Subscribes :
       /\ snap[c] # None /\ pc[c] \in {"add", "write", "wait"} /\ Registered(d) /\ f(d) = f(c)
       /\ token[d] > Age(snap[c]) /\ (Registered(c) => token[d] < token[c])
       => Failed(d)
  /\ \A c \in Subscribes : pc[c] = "add" /\ subs[f(c)] # None =>
       snap[c] # None /\ Age(snap[c]) >= Age(subs[f(c)])

\* No request of an earlier connection is answered during a replay, or after.
Cut ==
  /\ \A c \in Calls : conn[c] <= reconnects
  /\ replaying # None => \A c \in Calls :
       /\ pc[c] \in {"add", "write"} => conn[c] < reconnects
       /\ pc[c] = "wait" => answer[c] # "accepted"

\* An accepted Unsubscribe has ended the subscription it was made for.
Ended ==
  \A u \in Unsubscribes :
    pc[u] = "wait" /\ answer[u] = "accepted" /\ snap[u] # None /\ broker[f(u)] # None
      => token[broker[f(u)].handler] > Age(snap[u])

\* What keeps the subscription of y at the broker and the registry together:
\* the Subscribes registered after y have failed, or will and then go back to
\* y or to one of those.
Holds(g, y) ==
  /\ subs[g] # None /\ Age(subs[g]) >= token[y]
  /\ \A c \in Subscribes : f(c) = g /\ Registered(c) /\ token[c] > token[y] =>
       \/ Failed(c)
       \/ /\ pc[c] = "write" \/ (pc[c] = "wait" /\ answer[c] # "accepted")
          /\ snap[c] # None /\ Age(snap[c]) >= token[y]
  /\ \A c \in Subscribes : f(c) = g /\ pc[c] = "add" => snap[c] # None /\ Age(snap[c]) >= token[y]

Held ==
  \A g \in Filters, y \in Subscribes : ~Failed(y) =>
    /\ broker[g] # None /\ broker[g].handler = y => Holds(g, y)
    /\ replaying # None /\ replaying[g] # None /\ replaying[g].handler = y => Holds(g, y)

-----------------------------------------------------------------------------
(* Types.                                                                  *)

\* What the locals of a call can hold.
Labels == {"idle", "add", "write", "wait", "done"}
Answers == {None, "failed", "rejected", "accepted"}
Results == {None, "ok", "err"}

\* The type invariant, but for the bound on the tokens.
Types ==
  /\ subSeq \in Nat
  /\ subs \in [Filters -> Registrations \cup {None}]
  /\ pc \in [Calls -> Labels] /\ \A u \in Unsubscribes : pc[u] # "add"
  /\ conn \in [Calls -> 0 .. MaxReconnects] /\ snap \in [Calls -> Registrations \cup {None}]
  /\ token \in [Calls -> 0 .. subSeq]
  /\ answer \in [Calls -> Answers]
  /\ result \in [Calls -> Results]
  /\ broker \in [Filters -> BrokerSubs \cup {None}]
  /\ reconnects \in 0 .. MaxReconnects
  /\ replaying \in [Filters -> Registrations \cup {None}] \cup {None}
  /\ overlap \subseteq Filters

\* A call is a Subscribe or an Unsubscribe, and about a filter.
LEMMA Facts ==
  /\ \A c \in Calls : f(c) \in Filters
  /\ \A c \in Subscribes : c \in Calls /\ c \notin Unsubscribes /\ SubIDOf[c] \in Nat
  /\ \A c \in Unsubscribes : c \in Calls /\ c \notin Subscribes
  /\ \A c \in Calls : c \in Subscribes \/ c \in Unsubscribes
  /\ \A c \in Subscribes, n \in Nat : Registration(c, n) \in Registrations
  /\ \A r \in Registrations : r # None /\ r.handler \in Subscribes /\ r.subID \in Nat /\ r.token \in Nat
  /\ \A b \in BrokerSubs : b.handler \in Subscribes /\ b.subID \in Nat
  /\ \A c \in Subscribes, n \in Nat : [handler |-> c, subID |-> n] \in BrokerSubs
BY SubscriptionsAssumption, Zenon DEF Calls, f, Registration, Registrations, BrokerSubs

\* Tokens compare.
LEMMA Compared ==
  /\ \A m, n \in Nat : (m = n \/ m > n \/ m < n) /\ (m <= n /\ m # n => n > m)
  /\ \A n \in Nat : ~(n < n) /\ ~(n > n) /\ n >= n /\ n + 1 \in Nat
  /\ \A m, n \in Nat : m > n => ~(n >= m) /\ ~(m <= n)
  /\ \A k, m, n \in Nat : k >= m /\ n < m => k >= n
  /\ \A n \in Nat : \A m \in 0 .. n : m \in Nat /\ m < n + 1 /\ n + 1 >= m /\ ~(n + 1 < m)
  /\ \A n \in Nat : \A m \in 0 .. n + 1 : ~(m > n + 1)
BY SMTT(60)

\* Nothing older than what is older is newer.
LEMMA NotOlder ==
  ASSUME NEW k \in Nat, NEW m \in Nat, NEW n \in Nat, k >= m, n < m
  PROVE  k >= n
BY SMTT(60)

\* The handler field of what the broker holds, and of a registration.
LEMMA HandlerField ==
  /\ \A b, c, n : b = [handler |-> c, subID |-> n] => b.handler = c
  /\ \A b, c, n : b = Registration(c, n) => b.handler = c
BY SMTT(60) DEF Registration

\* The broker's answer changes its subscription only by taking the request.
LEMMA Taken ==
  ASSUME Types, NEW c \in Calls, requestAck(c)
  PROVE  /\ pc[c] = "write" /\ token' = token
         /\ \/ broker' = broker /\ answer'[c] # "accepted"
            \/ c \in Unsubscribes /\ answer'[c] = "accepted" /\ broker' = [broker EXCEPT ![f(c)] = None]
            \/ /\ c \in Subscribes /\ answer'[c] = "accepted"
               /\ broker' = [broker EXCEPT ![f(c)] = [handler |-> c, subID |-> SubIDOf[c]]]
BY Facts, SMTT(60) DEF requestAck, Types

\* What restoreSubscription and removeSubscriptionIfCurrent make of the
\* registry: the filter of the call keeps its registration, loses it, or has
\* the snapshot's handler and token under the identifier it had.
LEMMA RegistryTypes ==
  ASSUME Types, NEW c \in Calls
  PROVE  /\ restoreSubscription(c) \in [Filters -> Registrations \cup {None}]
         /\ removeSubscriptionIfCurrent(c) \in [Filters -> Registrations \cup {None}]
<1> DEFINE g == f(c)
<1>1. g \in Filters /\ subs[g] \in Registrations \cup {None} /\ snap[c] \in Registrations \cup {None}
  BY Facts, Zenon DEF Types
<1>2. ASSUME subs[g] # None, snap[c] # None
      PROVE  [subs EXCEPT ![g].handler = snap[c].handler, ![g].token = snap[c].token]
               \in [Filters -> Registrations \cup {None}]
  <2>1. [subs[g] EXCEPT !.handler = snap[c].handler] \in Registrations
    BY <1>1, <1>2, Zenon DEF Registrations
  <2>2. [[subs[g] EXCEPT !.handler = snap[c].handler] EXCEPT !.token = snap[c].token] \in Registrations
    BY <1>1, <1>2, <2>1, Zenon DEF Registrations
  <2> QED BY <1>1, <2>2, Zenon DEF Types
<1>3. [subs EXCEPT ![g] = None] \in [Filters -> Registrations \cup {None}] /\ subs \in [Filters -> Registrations \cup {None}]
  BY Zenon DEF Types
<1> QED BY <1>2, <1>3, Zenon DEF restoreSubscription, removeSubscriptionIfCurrent

\* Every step of a call keeps the types.
LEMMA CallTypes == ASSUME Types, NEW c \in Calls, Call(c) PROVE Types'
<1> USE Facts DEF Goto, callVars, connVars
<1>1. CASE snapshotSubscription(c)
  <2>1. pc' \in [Calls -> Labels] /\ \A u \in Unsubscribes : pc'[u] # "add"
    BY <1>1, Zenon DEF snapshotSubscription, Types, Labels
  <2>2. overlap' \subseteq Filters /\ snap' \in [Calls -> Registrations \cup {None}] /\ conn' \in [Calls -> 0 .. MaxReconnects]
    BY <1>1, Zenon DEF snapshotSubscription, Types
  <2> QED BY <1>1, <2>1, <2>2, Zenon DEF snapshotSubscription, Types
<1>2. CASE addSubscription(c)
  <2>1. c \in Subscribes /\ subSeq' \in Nat /\ subSeq' = subSeq + 1
    BY <1>2, SMTT(60) DEF addSubscription, Types
  <2>2. pc' \in [Calls -> Labels] /\ \A u \in Unsubscribes : pc'[u] # "add"
    BY <1>2, Zenon DEF addSubscription, Types, Labels
  <2>3. token' \in [Calls -> 0 .. subSeq'] /\ subs' \in [Filters -> Registrations \cup {None}]
    BY <1>2, <2>1, SMTT(60) DEF addSubscription, Types
  <2> QED BY <1>2, <2>1, <2>2, <2>3, Zenon DEF addSubscription, Types
<1>3. CASE requestAck(c)
  <2>1. pc' \in [Calls -> Labels] /\ \A u \in Unsubscribes : pc'[u] # "add"
    BY <1>3, Zenon DEF requestAck, Types, Labels
  <2>2. answer' \in [Calls -> Answers]
    BY <1>3, Zenon DEF requestAck, Types, Answers
  <2>3. broker' \in [Filters -> BrokerSubs \cup {None}]
    BY <1>3, SMTT(60) DEF requestAck, Types
  <2> QED BY <1>3, <2>1, <2>2, <2>3, Zenon DEF requestAck, Types
<1>4. CASE Finish(c)
  <2>1. pc' \in [Calls -> Labels] /\ \A u \in Unsubscribes : pc'[u] # "add"
    BY <1>4, Zenon DEF Finish, Types, Labels
  <2>2. result' \in [Calls -> Results]
    BY <1>4, Zenon DEF Finish, Types, Results
  <2>3. subs' \in [Filters -> Registrations \cup {None}]
    BY <1>4, RegistryTypes, SMTT(60) DEF Finish, Types
  <2> QED BY <1>4, <2>1, <2>2, <2>3, Zenon DEF Finish, Types
<1> QED BY <1>1, <1>2, <1>3, <1>4, Zenon DEF Call

\* Every step keeps the types.
LEMMA StepTypes == Types /\ [Next]_vars => Types'
<1> SUFFICES ASSUME Types, [Next]_vars PROVE Types'
  BY Zenon
<1>1. ASSUME NEW resumed \in BOOLEAN, Reconnect(resumed) PROVE Types'
  <2>1. answer' \in [Calls -> Answers]
    BY <1>1, Zenon DEF Reconnect, Types, Answers
  <2>2. broker' \in [Filters -> BrokerSubs \cup {None}]
    BY <1>1, Zenon DEF Reconnect, Types
  <2>3. reconnects' \in 0 .. MaxReconnects /\ replaying' \in [Filters -> Registrations \cup {None}]
    BY <1>1, SubscriptionsAssumption, SMTT(60) DEF Reconnect, Types
  <2> QED BY <1>1, <2>1, <2>2, <2>3, Zenon DEF Reconnect, Types
<1>2. ASSUME NEW rejected \in SUBSET Filters, replaySubscriptions(rejected) PROVE Types'
  <2>1. ASSUME NEW g \in Filters, replaying[g] # None
        PROVE  Resubscription(replaying[g]) \in BrokerSubs
    BY <1>2, <2>1, Facts, Zenon DEF replaySubscriptions, Types, Resubscription
  <2>2. broker' \in [Filters -> BrokerSubs \cup {None}]
    BY <1>2, <2>1, Zenon DEF replaySubscriptions, Types
  <2> QED BY <1>2, <2>2, Zenon DEF replaySubscriptions, Types, callVars
<1>3. CASE UNCHANGED vars
  BY <1>3, Zenon DEF vars, callVars, connVars, Types
<1> QED BY <1>1, <1>2, <1>3, CallTypes, Zenon DEF Next

\* The types hold initially.
LEMMA InitTypes == Init => Types
<1> SUFFICES ASSUME Init PROVE Types
  BY Zenon
<1>1. pc \in [Calls -> Labels] /\ \A u \in Unsubscribes : pc[u] # "add"
  BY Facts, Zenon DEF Init, Labels
<1>2. answer \in [Calls -> Answers] /\ result \in [Calls -> Results]
  BY Zenon DEF Init, Answers, Results
<1>3. conn \in [Calls -> 0 .. MaxReconnects] /\ token \in [Calls -> 0 .. subSeq] /\ reconnects \in 0 .. MaxReconnects
  BY SubscriptionsAssumption, SMTT(60) DEF Init
<1> QED BY <1>1, <1>2, <1>3, Zenon DEF Init, Types
-----------------------------------------------------------------------------
(* Tokens and registrations.                                               *)

\* A Subscribe that is registered stays so, under its token, and one that has
\* failed stays failed.
LEMMA Kept ==
  ASSUME Types, [Next]_vars, NEW d \in Subscribes
  PROVE  /\ Registered(d) => Registered(d)' /\ token'[d] = token[d]
         /\ Failed(d) => Failed(d)'
<1> USE Facts DEF Types, Registered, Failed, Goto, callVars, connVars
<1>1. ASSUME NEW c \in Calls, Call(c)
      PROVE  /\ Registered(d) => Registered(d)' /\ token'[d] = token[d]
             /\ Failed(d) => Failed(d)'
  <2>1. CASE snapshotSubscription(c)
    BY <2>1, Zenon DEF snapshotSubscription
  <2>2. CASE addSubscription(c)
    BY <2>2, Zenon DEF addSubscription
  <2>3. CASE requestAck(c)
    BY <2>3, Zenon DEF requestAck
  <2>4. CASE Finish(c)
    BY <2>4, Zenon DEF Finish
  <2> QED BY <1>1, <2>1, <2>2, <2>3, <2>4, Zenon DEF Call
<1>2. ASSUME NEW resumed \in BOOLEAN, Reconnect(resumed) PROVE UNCHANGED <<pc, token, result>>
  BY <1>2, Zenon DEF Reconnect
<1>3. ASSUME NEW rejected \in SUBSET Filters, replaySubscriptions(rejected) PROVE UNCHANGED <<pc, token, result>>
  BY <1>3, Zenon DEF replaySubscriptions
<1> QED BY <1>1, <1>2, <1>3, Zenon DEF Next, vars

\* Every step keeps Tokens.
LEMMA StepTokens == Types /\ Tokens /\ [Next]_vars => Tokens'
<1> SUFFICES ASSUME Types, Tokens, [Next]_vars PROVE Tokens'
  BY Zenon
<1> USE Facts DEF Tokens, Goto, callVars, connVars
<1>1. ASSUME NEW c \in Calls, addSubscription(c) PROVE Tokens'
  <2>1. c \in Subscribes /\ ~Registered(c)
    BY <1>1, Zenon DEF addSubscription, Types, Registered
  <2>2. /\ token' = [token EXCEPT ![c] = subSeq + 1] /\ subSeq' = subSeq + 1 /\ subSeq \in Nat
        /\ token \in [Calls -> 0 .. subSeq]
    BY <1>1, Zenon DEF addSubscription, Types
  <2>3. \A d \in Subscribes : Registered(d)' => d = c \/ Registered(d)
    BY <1>1, <2>1, Zenon DEF addSubscription, Types, Registered
  <2> QED BY <2>1, <2>2, <2>3, SMTT(60)
<1>2. ASSUME UNCHANGED <<token, subSeq>>, \A d \in Subscribes : Registered(d)' => Registered(d) PROVE Tokens'
  BY <1>2, Zenon
<1>3. ASSUME NEW c \in Calls, snapshotSubscription(c) \/ requestAck(c) \/ Finish(c) PROVE Tokens'
  <2>1. \A d \in Subscribes : Registered(d)' => Registered(d)
    BY <1>3, SMTT(60) DEF snapshotSubscription, requestAck, Finish, Types, Registered
  <2> QED BY <1>2, <1>3, <2>1, Zenon DEF snapshotSubscription, requestAck, Finish
<1>4. ASSUME NEW resumed \in BOOLEAN, Reconnect(resumed) PROVE Tokens'
  BY <1>2, <1>4, Zenon DEF Reconnect, Registered
<1>5. ASSUME NEW rejected \in SUBSET Filters, replaySubscriptions(rejected) PROVE Tokens'
  BY <1>2, <1>5, Zenon DEF replaySubscriptions, Registered
<1>6. CASE UNCHANGED vars
  BY <1>2, <1>6, Zenon DEF vars, Registered
<1> QED BY <1>1, <1>3, <1>4, <1>5, <1>6, Zenon DEF Next, Call

\* The current registration is a Subscribe's own exactly when it has its token.
LEMMA Current ==
  ASSUME Types, Tokens, Named, NEW c \in Subscribes, Registered(c), subs[f(c)] # None
  PROVE  subs[f(c)].token = token[c] <=> subs[f(c)].handler = c
BY Facts, SMTT(60) DEF Named, Names, Sound, Tokens, Types

\* Two fields of a registration overwritten.
LEMMA Overwritten ==
  ASSUME NEW r \in Registrations, NEW h, NEW m
  PROVE  [[r EXCEPT !.handler = h] EXCEPT !.token = m] = [handler |-> h, subID |-> r.subID, token |-> m]
<1>1. PICK a \in Subscribes, b \in Nat, n \in Nat : r = [handler |-> a, subID |-> b, token |-> n]
  BY Zenon DEF Registrations
<1>2. r.subID = b
  BY <1>1, Zenon
<1>3. [[handler |-> a, subID |-> b, token |-> n] EXCEPT !.handler = h] = [handler |-> h, subID |-> b, token |-> n]
  BY SMTT(60)
<1>4. [[handler |-> h, subID |-> b, token |-> n] EXCEPT !.token = m] = [handler |-> h, subID |-> b, token |-> m]
  BY SMTT(60)
<1> QED BY <1>1, <1>2, <1>3, <1>4, Zenon

\* What restoreSubscription leaves: only its own registration is rolled back,
\* to the snapshot's handler and token, under the identifier it had.
LEMMA Restored ==
  ASSUME Types, Tokens, Named, NEW c \in Subscribes, Registered(c)
  PROVE  restoreSubscription(c) =
           IF subs[f(c)] = None \/ subs[f(c)].handler # c THEN subs
           ELSE IF snap[c] = None THEN [subs EXCEPT ![f(c)] = None]
           ELSE [subs EXCEPT ![f(c)] = [handler |-> snap[c].handler, subID |-> subs[f(c)].subID, token |-> snap[c].token]]
<1> DEFINE g == f(c)
<1>1. g \in Filters /\ subs[g] \in Registrations \cup {None} /\ snap[c] \in Registrations \cup {None}
  BY Facts, Zenon DEF Types
<1>2. ASSUME subs[g] # None, snap[c] # None
      PROVE  [subs EXCEPT ![g].handler = snap[c].handler, ![g].token = snap[c].token] =
             [subs EXCEPT ![g] = [handler |-> snap[c].handler, subID |-> subs[g].subID, token |-> snap[c].token]]
  <2>1. [[subs[g] EXCEPT !.handler = snap[c].handler] EXCEPT !.token = snap[c].token]
          = [handler |-> snap[c].handler, subID |-> subs[g].subID, token |-> snap[c].token]
    BY <1>1, <1>2, Overwritten, Zenon
  <2>2. [subs EXCEPT ![g].handler = snap[c].handler, ![g].token = snap[c].token]
          = [subs EXCEPT ![g] = [[subs[g] EXCEPT !.handler = snap[c].handler] EXCEPT !.token = snap[c].token]]
    BY <1>1, Zenon DEF Types
  <2> QED BY <2>1, <2>2, Zenon
<1> QED BY <1>2, Current, Zenon DEF restoreSubscription

\* Every step keeps Named.
LEMMA StepNamed == Types /\ Tokens /\ Named /\ [Next]_vars => Named'
<1> SUFFICES ASSUME Types, Tokens, Named, [Next]_vars PROVE Named'
  BY Zenon
<1> DEFINE Registry == \A g \in Filters, r \in Registrations : subs'[g] = r => Names(r, g)'
           Snapshots == \A c \in Calls, r \in Registrations : snap'[c] = r => Names(r, f(c))' /\ r.handler # c
           Replayed == \A g \in Filters, r \in Registrations : replaying' # None /\ replaying'[g] = r => Names(r, g)'
           Remote == \A g \in Filters, b \in BrokerSubs : broker'[g] = b /\ b # None => Sound(b, g)'
<1>1. \A r \in Registrations, g \in Filters : Names(r, g) => Names(r, g)'
  BY Kept, Facts, Zenon DEF Names, Sound
<1>2. \A b \in BrokerSubs, g \in Filters : Sound(b, g) => Sound(b, g)'
  BY Kept, Facts, Zenon DEF Sound
<1>3. (subs' = subs => Registry) /\ (snap' = snap => Snapshots) /\ (replaying' = replaying => Replayed)
      /\ (broker' = broker => Remote)
  BY <1>1, <1>2, Facts, Zenon DEF Named
<1> HIDE DEF Registry, Snapshots, Replayed, Remote
<1>4. Registry /\ Snapshots /\ Replayed /\ Remote => Named'
  BY Zenon DEF Named, Registry, Snapshots, Replayed, Remote
<1> USE DEF Goto, callVars, connVars
<1>5. ASSUME NEW c \in Calls, snapshotSubscription(c) PROVE Snapshots
  <2>1. snap' = [snap EXCEPT ![c] = subs[f(c)]] /\ pc[c] = "idle"
    BY <1>5, Zenon DEF snapshotSubscription
  <2>2. ASSUME NEW r \in Registrations, subs[f(c)] = r PROVE Names(r, f(c))' /\ r.handler # c
    BY <1>1, <2>1, <2>2, Facts, SMTT(60) DEF Named, Names, Sound, Registered
  <2>3. ASSUME NEW d \in Calls \ {c}, NEW r \in Registrations, snap[d] = r PROVE Names(r, f(d))' /\ r.handler # d
    BY <1>1, <2>3, Facts, Zenon DEF Named
  <2> QED BY <2>1, <2>2, <2>3, Zenon DEF Snapshots, Types
<1>6. ASSUME NEW c \in Calls, addSubscription(c) PROVE Registry
  <2>1. c \in Subscribes /\ subs' = [subs EXCEPT ![f(c)] = Registration(c, subSeq + 1)]
    BY <1>6, Facts, Zenon DEF addSubscription, Types
  <2>2. Registered(c)' /\ token'[c] = subSeq + 1
    BY <1>6, <2>1, Zenon DEF addSubscription, Types, Registered
  <2>3. ASSUME NEW r, r = Registration(c, subSeq + 1) PROVE Names(r, f(c))'
    <3>1. r.handler = c /\ r.token = subSeq + 1 /\ r.subID = SubIDOf[c]
      BY <2>3, Zenon DEF Registration
    <3> QED BY <2>1, <2>2, <3>1, Zenon DEF Names, Sound
  <2>4. ASSUME NEW g \in Filters \ {f(c)}, NEW r \in Registrations, subs[g] = r PROVE Names(r, g)'
    BY <1>1, <2>4, Zenon DEF Named
  <2> QED BY <2>1, <2>3, <2>4, Zenon DEF Registry, Types
<1>7. ASSUME NEW c \in Calls, requestAck(c) PROVE Remote
  <2>1. CASE broker' = broker
    BY <1>3, <2>1, Zenon
  <2>2. CASE broker' = [broker EXCEPT ![f(c)] = IF c \in Subscribes THEN [handler |-> c, subID |-> SubIDOf[c]] ELSE None]
    <3>1. ASSUME NEW b, b = [handler |-> c, subID |-> SubIDOf[c]], c \in Subscribes PROVE Sound(b, f(c))'
      <4>1. b.handler = c /\ b.subID = SubIDOf[c] /\ Registered(c)
        BY <1>7, <3>1, Zenon DEF requestAck, Registered
      <4> QED BY <3>1, <4>1, Kept, Zenon DEF Sound
    <3>2. ASSUME NEW g \in Filters \ {f(c)}, NEW b \in BrokerSubs, broker[g] = b, b # None PROVE Sound(b, g)'
      BY <1>2, <3>2, Zenon DEF Named
    <3> QED BY <2>2, <3>1, <3>2, Zenon DEF Remote, Types
  <2> QED BY <1>7, <2>1, <2>2, Zenon DEF requestAck
<1>8. ASSUME NEW c \in Calls, Finish(c) PROVE Registry
  <2>1. subs' = subs \/ subs' = removeSubscriptionIfCurrent(c) \/ (c \in Subscribes /\ subs' = restoreSubscription(c))
    BY <1>8, Zenon DEF Finish
  <2>2. ASSUME NEW g \in Filters, subs' = [subs EXCEPT ![g] = None] PROVE Registry
    BY <1>1, <2>2, Facts, Zenon DEF Registry, Named, Types
  <2>3. ASSUME c \in Subscribes, subs[f(c)] # None, snap[c] # None,
               subs' = [subs EXCEPT ![f(c)] = [handler |-> snap[c].handler, subID |-> subs[f(c)].subID, token |-> snap[c].token]]
        PROVE  Registry
    <3>1. subs[f(c)] \in Registrations /\ snap[c] \in Registrations /\ f(c) \in Filters
      BY <2>3, Facts, Zenon DEF Types
    <3>2. Names(subs[f(c)], f(c)) /\ Names(snap[c], f(c))
      BY <2>3, <3>1, Facts, Zenon DEF Named
    <3>3. PICK r : r = [handler |-> snap[c].handler, subID |-> subs[f(c)].subID, token |-> snap[c].token]
      BY Zenon
    <3>4. r.handler = snap[c].handler /\ r.subID = subs[f(c)].subID /\ r.token = snap[c].token /\ r \in Registrations
      BY <3>1, <3>3, Facts, Zenon DEF Registrations
    <3>5. Names(r, f(c))
      BY <3>2, <3>4, Zenon DEF Names, Sound
    <3>6. Names(r, f(c))'
      BY <1>1, <3>1, <3>4, <3>5, Zenon
    <3> QED BY <1>1, <2>3, <3>1, <3>3, <3>6, Zenon DEF Registry, Named, Types
  <2>4. c \in Subscribes => Registered(c)
    BY <1>8, Zenon DEF Finish, Registered
  <2> QED BY <1>3, <2>1, <2>2, <2>3, <2>4, Restored, Facts, Zenon DEF removeSubscriptionIfCurrent
<1>9. ASSUME NEW resumed \in BOOLEAN, Reconnect(resumed) PROVE Replayed /\ Remote
  <2>1. replaying' = subs /\ (broker' = broker \/ broker' = [g \in Filters |-> None])
    BY <1>9, Zenon DEF Reconnect
  <2>2. Replayed
    BY <1>1, <2>1, Zenon DEF Replayed, Named
  <2> QED BY <1>3, <2>1, <2>2, Zenon DEF Remote
<1>10. ASSUME NEW rejected \in SUBSET Filters, replaySubscriptions(rejected) PROVE Replayed /\ Remote
  <2>1. ASSUME NEW g \in Filters, NEW b \in BrokerSubs, b = Resubscription(replaying[g]), replaying[g] # None
        PROVE  Sound(b, g)'
    <3>1. replaying[g] \in Registrations /\ Names(replaying[g], g)
      BY <1>10, <2>1, Zenon DEF replaySubscriptions, Named, Types
    <3>2. b.handler = replaying[g].handler /\ b.subID = replaying[g].subID
      BY <2>1, Zenon DEF Resubscription
    <3>3. Sound(b, g)
      BY <3>1, <3>2, Zenon DEF Names, Sound
    <3> QED BY <1>2, <2>1, <3>3, Zenon
  <2>2. Remote
    BY <1>2, <1>10, <2>1, Zenon DEF Remote, replaySubscriptions, Named
  <2> QED BY <1>10, <2>2, Zenon DEF replaySubscriptions, Replayed
<1>11. \A c \in Calls : Call(c) => Named'
  <2>1. ASSUME NEW c \in Calls, snapshotSubscription(c) PROVE Named'
    BY <1>3, <1>4, <1>5, <2>1, Zenon DEF snapshotSubscription
  <2>2. ASSUME NEW c \in Calls, addSubscription(c) PROVE Named'
    BY <1>3, <1>4, <1>6, <2>2, Zenon DEF addSubscription
  <2>3. ASSUME NEW c \in Calls, requestAck(c) PROVE Named'
    BY <1>3, <1>4, <1>7, <2>3, Zenon DEF requestAck
  <2>4. ASSUME NEW c \in Calls, Finish(c) PROVE Named'
    BY <1>3, <1>4, <1>8, <2>4, Zenon DEF Finish
  <2> QED BY <2>1, <2>2, <2>3, <2>4, Zenon DEF Call
<1>12. ASSUME NEW resumed \in BOOLEAN, Reconnect(resumed) PROVE Named'
  BY <1>3, <1>4, <1>9, <1>12, Zenon DEF Reconnect
<1>13. ASSUME NEW rejected \in SUBSET Filters, replaySubscriptions(rejected) PROVE Named'
  BY <1>3, <1>4, <1>10, <1>13, Zenon DEF replaySubscriptions
<1>14. CASE UNCHANGED vars
  BY <1>3, <1>4, <1>14, Zenon DEF vars
<1> QED BY <1>11, <1>12, <1>13, <1>14, Zenon DEF Next
-----------------------------------------------------------------------------
(* Rollbacks.                                                              *)

\* A Subscribe fails when it returns an error.
LEMMA FailsOnReturn ==
  ASSUME Types, [Next]_vars, NEW x \in Subscribes, Failed(x)', ~Failed(x)
  PROVE  Finish(x) /\ pc[x] = "wait" /\ subs' = restoreSubscription(x) /\ Registered(x)
<1> USE Facts DEF Types, Failed, Goto, callVars, connVars
<1>1. ASSUME NEW c \in Calls, Call(c) PROVE c = x /\ Finish(x)
  <2>1. CASE snapshotSubscription(c)
    BY <2>1, Zenon DEF snapshotSubscription
  <2>2. CASE addSubscription(c)
    BY <2>2, Zenon DEF addSubscription
  <2>3. CASE requestAck(c)
    BY <2>3, Zenon DEF requestAck
  <2>4. CASE Finish(c)
    <3>1. c = x
      BY <2>4, ZenonT(60) DEF Finish
    <3> QED BY <2>4, <3>1, Zenon
  <2> QED BY <1>1, <2>1, <2>2, <2>3, <2>4, Zenon DEF Call
<1>2. ASSUME NEW resumed \in BOOLEAN, Reconnect(resumed) PROVE FALSE
  BY <1>2, Zenon DEF Reconnect
<1>3. ASSUME NEW rejected \in SUBSET Filters, replaySubscriptions(rejected) PROVE FALSE
  BY <1>3, Zenon DEF replaySubscriptions
<1>4. Finish(x)
  BY <1>1, <1>2, <1>3, Zenon DEF Next, vars
<1> QED BY <1>4, Zenon DEF Finish, Registered

\* How the registration of a filter changes.
Adds(c, g) == c \in Subscribes /\ addSubscription(c) /\ f(c) = g /\ subs'[g] = Registration(c, subSeq + 1)
RollsBack(c, g) ==
  /\ c \in Subscribes /\ Finish(c) /\ f(c) = g /\ Failed(c)' /\ ~Failed(c) /\ Registered(c)
  /\ subs[g] # None /\ subs[g].handler = c
  /\ \/ snap[c] = None /\ subs'[g] = None
     \/ snap[c] # None /\ subs'[g] # None /\ subs'[g].handler = snap[c].handler
Removes(u, g) ==
  /\ u \in Unsubscribes /\ Finish(u) /\ f(u) = g /\ answer[u] = "accepted" /\ pc[u] = "wait"
  /\ snap[u] # None /\ subs[g] # None /\ subs[g].token = snap[u].token /\ subs'[g] = None

\* addSubscription, restoreSubscription and removeSubscriptionIfCurrent are all
\* that changes a registration.
LEMMA RegistryChanges ==
  ASSUME Types, Tokens, Named, [Next]_vars, NEW g \in Filters, subs'[g] # subs[g]
  PROVE  \E c \in Calls : Adds(c, g) \/ RollsBack(c, g) \/ Removes(c, g)
<1> USE Facts
<1>1. PICK c \in Calls : addSubscription(c) \/ Finish(c)
  BY Zenon DEF Next, Call, vars, snapshotSubscription, requestAck, Reconnect, replaySubscriptions
<1>2. CASE addSubscription(c)
  <2>1. c \in Subscribes /\ subs' = [subs EXCEPT ![f(c)] = Registration(c, subSeq + 1)]
    BY <1>2, Zenon DEF addSubscription, Types
  <2> QED BY <1>2, <2>1, Zenon DEF Adds, Types
<1>3. CASE Finish(c) /\ c \in Unsubscribes
  <2>1. subs' = removeSubscriptionIfCurrent(c) /\ answer[c] = "accepted" /\ pc[c] = "wait"
    BY <1>3, Zenon DEF Finish
  <2> QED BY <1>3, <2>1, Zenon DEF removeSubscriptionIfCurrent, Removes, Types
<1>4. CASE Finish(c) /\ c \in Subscribes
  <2>1. /\ subs' = restoreSubscription(c) /\ result' = [result EXCEPT ![c] = "err"]
        /\ pc[c] = "wait" /\ pc' = [pc EXCEPT ![c] = "done"]
    BY <1>4, Zenon DEF Finish, Goto
  <2>2. Failed(c)' /\ ~Failed(c) /\ Registered(c)
    BY <1>4, <2>1, Zenon DEF Failed, Registered, Types
  <2>3. f(c) = g /\ subs[g] # None /\ subs[g].handler = c
    <3>1. ~(subs[f(c)] = None \/ subs[f(c)].handler # c)
      BY <1>4, <2>1, <2>2, Restored, Zenon
    <3>2. f(c) # g => subs'[g] = subs[g]
      <4>1. subs' = [subs EXCEPT ![f(c)] = None] \/ \E r : subs' = [subs EXCEPT ![f(c)] = r]
        BY <1>4, <2>1, <2>2, <3>1, Restored, Zenon
      <4> QED BY <4>1, Zenon DEF Types
    <3> QED BY <3>1, <3>2, Zenon
  <2>4. CASE snap[c] = None
    BY <1>4, <2>1, <2>2, <2>3, <2>4, Restored, ZenonT(60) DEF Types, RollsBack
  <2>5. CASE snap[c] # None
    <3>1. subs'[g] = [handler |-> snap[c].handler, subID |-> subs[g].subID, token |-> snap[c].token]
      BY <1>4, <2>1, <2>2, <2>3, <2>5, Restored, ZenonT(60) DEF Types
    <3>2. snap[c] \in Registrations /\ subs[g] \in Registrations
      BY <2>3, <2>5, Zenon DEF Types
    <3>3. subs'[g] \in Registrations
      BY <3>1, <3>2, Zenon DEF Registrations
    <3> QED BY <1>4, <2>2, <2>3, <2>5, <3>1, <3>3, SMTT(60) DEF RollsBack
  <2> QED BY <2>4, <2>5, Zenon
<1> QED BY <1>1, <1>2, <1>3, <1>4, Zenon

\* Every step keeps Twice.
LEMMA StepTwice == Types /\ Tokens /\ Named /\ Twice /\ [Next]_vars => Twice'
<1> SUFFICES ASSUME Types, Tokens, Named, Twice, [Next]_vars, NEW g \in Filters, NEW x \in Subscribes,
                    subs'[g] # None, subs'[g].handler = x, Failed(x)'
             PROVE  \E d \in Subscribes \ {x} : f(d) = g /\ Failed(d)'
  BY Zenon DEF Twice
<1> USE Facts
<1>1. CASE subs'[g] = subs[g]
  <2>1. CASE Failed(x)
    BY <1>1, <2>1, Kept, Zenon DEF Twice
  <2>2. CASE ~Failed(x)
    <3>1. subs' = restoreSubscription(x) /\ Registered(x) /\ Finish(x)
      BY <2>2, FailsOnReturn, Zenon
    <3>2. subs[g] \in Registrations /\ f(x) = g
      BY <1>1, SMTT(60) DEF Types, Named, Names, Sound
    <3>3. snap[x] = None \/ (snap[x] \in Registrations /\ snap[x].handler # x)
      BY Zenon DEF Types, Named
    <3> QED BY <1>1, <3>1, <3>2, <3>3, Restored, SMTT(60) DEF Types
  <2> QED BY <2>1, <2>2, Zenon
<1>2. CASE subs'[g] # subs[g]
  <2>1. PICK c \in Calls : Adds(c, g) \/ RollsBack(c, g) \/ Removes(c, g)
    BY <1>2, RegistryChanges, Zenon
  <2>2. CASE Adds(c, g)
    <3>1. x = c /\ pc'[c] = "write"
      BY <2>2, Zenon DEF Adds, Registration, addSubscription, Goto, Types
    <3> QED BY <3>1, Zenon DEF Failed
  <2>3. CASE RollsBack(c, g)
    <3>1. snap[c] \in Registrations /\ snap[c].handler = x
      BY <2>3, Zenon DEF RollsBack, Types
    <3>2. x # c
      BY <3>1, Zenon DEF Named
    <3> QED BY <2>3, <3>2, Zenon DEF RollsBack
  <2> QED BY <2>1, <2>2, <2>3, Zenon DEF Removes
<1> QED BY <1>1, <1>2, Zenon

\* As long as no overlap is noted for a filter, a call begins only when no
\* other runs.
LEMMA OneByOne ==
  ASSUME Types, [Next]_vars, NEW g \in Filters, g \notin overlap'
  PROVE  /\ g \notin overlap
         /\ \/ snap' = snap /\ \A c \in Calls : c \in Running(g)' => c \in Running(g)
            \/ \E c \in Calls : /\ snapshotSubscription(c)
                                /\ \A d \in Calls : d \in Running(g)' => d \in Running(g) \/ (d = c /\ f(c) = g /\ Running(g) = {})
<1> USE Facts DEF Types, Goto, callVars, connVars
<1>1. g \notin overlap
  BY Zenon DEF Next, Call, vars, snapshotSubscription, addSubscription, requestAck, Finish, Reconnect, replaySubscriptions
<1>2. ASSUME NEW c \in Calls, snapshotSubscription(c), NEW d \in Calls, d \in Running(g)', d \notin Running(g)
      PROVE  d = c /\ f(c) = g /\ Running(g) = {}
  BY <1>2, Zenon DEF snapshotSubscription, Running
<1>3. ASSUME NEW c \in Calls, addSubscription(c) \/ requestAck(c) \/ Finish(c)
      PROVE  snap' = snap /\ \A d \in Calls : d \in Running(g)' => d \in Running(g)
  <2>1. snap' = snap /\ pc[c] \notin {"idle", "done"} /\ \A d \in Calls \ {c} : pc'[d] = pc[d]
    BY <1>3, ZenonT(60) DEF addSubscription, requestAck, Finish
  <2> QED BY <2>1, Zenon DEF Running
<1>4. (\E resumed \in BOOLEAN : Reconnect(resumed)) \/ (\E rejected \in SUBSET Filters : replaySubscriptions(rejected))
      \/ UNCHANGED vars => UNCHANGED <<pc, snap>>
  BY Zenon DEF Reconnect, replaySubscriptions, vars
<1>5. UNCHANGED <<pc, snap>> => snap' = snap /\ \A d \in Calls : d \in Running(g)' => d \in Running(g)
  BY Zenon DEF Running
<1> QED BY <1>1, <1>2, <1>3, <1>4, <1>5, SMTT(60) DEF Next, Call

\* Every step keeps Serial.
LEMMA StepSerial == Types /\ Tokens /\ Named /\ Serial /\ [Next]_vars => Serial'
<1> SUFFICES ASSUME Types, Tokens, Named, Serial, [Next]_vars, NEW g \in Filters, g \notin overlap'
             PROVE  /\ \A c, d \in Calls : c \in Running(g)' /\ d \in Running(g)' => c = d
                    /\ \A x \in Subscribes : subs'[g] # None /\ subs'[g].handler = x => ~Failed(x)'
                    /\ \A c \in Calls, x \in Subscribes :
                         c \in Running(g)' /\ snap'[c] # None /\ snap'[c].handler = x => ~Failed(x)'
  BY Zenon DEF Serial, Running
<1> USE Facts
<1>1. g \notin overlap
  BY OneByOne, Zenon
<1>2. /\ \A c, d \in Calls : c \in Running(g) /\ d \in Running(g) => c = d
      /\ \A x \in Subscribes : subs[g] # None /\ subs[g].handler = x => ~Failed(x)
      /\ \A c \in Calls, x \in Subscribes : c \in Running(g) /\ snap[c] # None /\ snap[c].handler = x => ~Failed(x)
  BY <1>1, Zenon DEF Serial
<1>3. \A c, d \in Calls : c \in Running(g)' /\ d \in Running(g)' => c = d
  BY <1>2, OneByOne, SMTT(60)
<1>4. ASSUME NEW x \in Subscribes, f(x) = g, Failed(x)', ~Failed(x)
      PROVE  Finish(x) /\ subs' = restoreSubscription(x) /\ Registered(x) /\ x \in Running(g)
  BY <1>4, FailsOnReturn, Zenon DEF Running
<1>5. ASSUME NEW x \in Subscribes, subs'[g] # None, subs'[g].handler = x, Failed(x)' PROVE FALSE
  <2>1. f(x) = g
    <3>1. Types' /\ Named'
      BY StepTypes, StepNamed, Zenon
    <3>2. subs'[g] \in Registrations
      BY <1>5, <3>1, Zenon DEF Types
    <3> QED BY <1>5, <3>1, <3>2, ZenonT(60) DEF Named, Names, Sound
  <2>2. CASE subs'[g] = subs[g]
    <3>1. ~Failed(x) /\ subs[g].handler = x /\ subs[g] # None
      BY <1>2, <1>5, <2>2, Zenon
    <3>2. subs' = restoreSubscription(x) /\ Registered(x)
      BY <1>4, <1>5, <2>1, <3>1, Zenon
    <3>3. snap[x] = None \/ (snap[x] \in Registrations /\ snap[x].handler # x)
      BY Zenon DEF Types, Named
    <3> QED BY <1>5, <2>1, <3>1, <3>2, <3>3, Restored, SMTT(60) DEF Types
  <2>3. CASE subs'[g] # subs[g]
    <3>1. PICK c \in Calls : Adds(c, g) \/ RollsBack(c, g) \/ Removes(c, g)
      BY <2>3, RegistryChanges, Zenon
    <3>2. CASE Adds(c, g)
      <4>1. x = c /\ pc'[c] = "write"
        BY <1>5, <3>2, Zenon DEF Adds, Registration, addSubscription, Goto, Types
      <4> QED BY <1>5, <4>1, Zenon DEF Failed
    <3>3. CASE RollsBack(c, g)
      <4>1. snap[c] # None /\ snap[c].handler = x /\ pc[c] = "wait" /\ pc' = [pc EXCEPT ![c] = "done"]
        BY <1>5, <3>3, Zenon DEF RollsBack, Finish, Goto
      <4>2. ~Failed(x)
        BY <1>2, <3>3, <4>1, Zenon DEF RollsBack, Running
      <4>3. x # c
        BY <4>1, Zenon DEF Named, Types
      <4>4. pc[x] = "wait" /\ pc'[x] = "done"
        BY <1>4, <1>5, <2>1, <4>2, Zenon DEF Finish, Failed
      <4> QED BY <4>1, <4>3, <4>4, Zenon DEF Types
    <3> QED BY <1>5, <3>1, <3>2, <3>3, Zenon DEF Removes
  <2> QED BY <2>2, <2>3, Zenon
<1>6. ASSUME NEW c \in Calls, NEW x \in Subscribes, c \in Running(g)', snap'[c] # None, snap'[c].handler = x, Failed(x)'
      PROVE  FALSE
  <2>1. CASE c \in Running(g) /\ snap'[c] = snap[c]
    <3>1. ~Failed(x) /\ f(x) = g /\ x # c
      BY <1>2, <1>6, <2>1, SMTT(60) DEF Types, Named, Names, Sound, Running
    <3> QED BY <1>2, <1>4, <1>6, <2>1, <3>1, Zenon
  <2>2. ASSUME NEW d \in Calls, snapshotSubscription(d), d = c \/ snap'[c] # snap[c] PROVE FALSE
    <3>1. d = c /\ pc[c] = "idle" /\ snap'[c] = subs[f(c)] /\ pc' = [pc EXCEPT ![c] = pc'[c]] /\ pc'[c] # "done" /\ result' = result
      BY <2>2, Zenon DEF snapshotSubscription, Goto, Types
    <3>2. Failed(x)
      BY <1>6, <3>1, Zenon DEF Failed, Types
    <3>3. f(c) = g
      BY <1>6, Zenon DEF Running
    <3> QED BY <1>2, <1>6, <3>1, <3>2, <3>3, Zenon
  <2> QED BY <1>6, <2>1, <2>2, OneByOne, Zenon
<1> QED BY <1>3, <1>5, <1>6, Zenon

\* Everything the rollbacks rest on.
Rollbacks == Types /\ Tokens /\ Named /\ Serial /\ Twice

\* It holds in every reachable state.
LEMMA RollbacksHold == Spec => []Rollbacks
<1>1. Init => Rollbacks
  <2> SUFFICES ASSUME Init PROVE Rollbacks
    BY Zenon
  <2>1. \A c \in Calls : pc[c] = "idle" /\ snap[c] = None
    BY Zenon DEF Init
  <2>2. \A g \in Filters : subs[g] = None /\ broker[g] = None
    BY Zenon DEF Init
  <2>3. Tokens /\ Serial
    BY <2>1, <2>2, Facts, Zenon DEF Tokens, Serial, Registered, Running
  <2>4. Named /\ Twice
    BY <2>1, <2>2, Facts, Zenon DEF Init, Named, Twice
  <2> QED BY <2>3, <2>4, InitTypes, Zenon DEF Rollbacks
<1>2. Rollbacks /\ [Next]_vars => Rollbacks'
  BY StepTypes, StepTokens, StepNamed, StepSerial, StepTwice, Zenon DEF Rollbacks
<1> QED BY <1>1, <1>2, PTL DEF Spec

\* The registry and the calls have their types.
THEOREM TypeCorrect == Spec => []TypeOK
<1>1. Rollbacks => TypeOK
  <2> SUFFICES ASSUME Rollbacks PROVE TypeOK
    BY Zenon
  <2>1. \A g \in Filters : subs[g] # None => subs[g].token \in 1 .. subSeq
    BY Facts, SMTT(60) DEF Rollbacks, Types, Tokens, Named, Names, Sound
  <2> QED BY <2>1, Zenon DEF Rollbacks, Types, TypeOK, Labels, Answers, Results, BrokerSubs
<1> QED BY <1>1, RollbacksHold, PTL

\* restoreSubscription compares tokens before it rolls back: for any number of
\* Subscribes, in any interleaving, a filter whose calls never overlapped, or
\* that saw only one of them fail, keeps no handler of a failed Subscribe.
THEOREM FailuresRolledBack == Spec => []LoneFailureIsRolledBack
<1>1. Rollbacks => LoneFailureIsRolledBack
  <2> SUFFICES ASSUME Rollbacks, NEW g \in Filters, Quiet(g), subs[g] # None, result[subs[g].handler] = "err"
               PROVE  /\ g \in overlap
                      /\ \E c, d \in Subscribes : f(c) = g /\ f(d) = g /\ result[c] = "err" /\ result[d] = "err" /\ c # d
    BY Zenon DEF LoneFailureIsRolledBack
  <2>1. PICK x \in Subscribes : x = subs[g].handler /\ f(x) = g /\ Registered(x)
    BY Facts, SMTT(60) DEF Rollbacks, Types, Named, Names, Sound
  <2>2. Failed(x)
    BY <2>1, Facts, Zenon DEF Quiet, Running, Failed, Registered
  <2>3. g \in overlap
    BY <2>1, <2>2, ZenonT(60) DEF Rollbacks, Serial
  <2>4. PICK d \in Subscribes \ {x} : f(d) = g /\ Failed(d)
    BY <2>1, <2>2, Zenon DEF Rollbacks, Twice
  <2> QED BY <2>1, <2>2, <2>3, <2>4, Zenon DEF Failed
<1> QED BY <1>1, RollbacksHold, PTL

\* The application uses a Subscription Identifier for one filter only.
OwnIdentifiers == \A c, d \in Subscribes : SubIDOf[c] = SubIDOf[d] /\ SubIDOf[c] # 0 => f(c) = f(d)

\* dispatch looks a stamped message up by its identifiers: where no two filters
\* share one, a handler registered with an identifier runs at most once for all
\* the copies of a message that the broker sends, whatever was replaced,
\* rolled back or replayed before.
THEOREM RunsOnce == OwnIdentifiers => (Spec => []StampedRunsOnce)
<1> SUFFICES ASSUME OwnIdentifiers PROVE Spec => []StampedRunsOnce
  BY Zenon
<1>1. Rollbacks => StampedRunsOnce
  <2> SUFFICES ASSUME Rollbacks, NEW g \in Filters, subs[g] # None, subs[g].subID # 0
               PROVE  Cardinality({h \in Filters : broker[h] # None /\ g \in dispatch(Copy(h))}) <= 1
    BY Zenon DEF StampedRunsOnce
  <2> DEFINE C == {h \in Filters : broker[h] # None /\ g \in dispatch(Copy(h))}
  <2>1. ASSUME NEW h \in C PROVE h = g
    <3>1. Copy(h) # {} /\ subs[g].subID \in Copy(h)
      BY <2>1, Zenon DEF dispatch
    <3>2. broker[h].subID = subs[g].subID /\ broker[h] # None
      BY <2>1, <3>1, Zenon DEF Copy
    <3>3. PICK c \in Subscribes : f(c) = h /\ broker[h].subID = SubIDOf[c]
      BY <2>1, <3>2, Zenon DEF Rollbacks, Types, Named, Sound
    <3>4. PICK d \in Subscribes : f(d) = g /\ subs[g].subID = SubIDOf[d]
      BY SMTT(60) DEF Rollbacks, Types, Named, Names, Sound
    <3> QED BY <3>2, <3>3, <3>4, Zenon DEF OwnIdentifiers
  <2>2. C \subseteq {g}
    BY <2>1, Zenon
  <2>3. IsFiniteSet({g}) /\ Cardinality({g}) = 1
    BY FS_Singleton, Zenon
  <2>4. Cardinality(C) <= Cardinality({g})
    BY <2>2, <2>3, FS_Subset, Zenon
  <2> QED BY <2>3, <2>4, Zenon
<1> QED BY <1>1, RollbacksHold, PTL
-----------------------------------------------------------------------------
(* With the windows closed.                                                *)

\* With the windows closed, a call that another must not overtake is one
\* between its snapshot and its write.
LEMMA Closed ==
  ASSUME Windows = {}
  PROVE  \A c, d \in Calls : Undisturbed(c) /\ d # c /\ f(d) = f(c) => pc[d] \notin {"add", "write"}
BY Zenon DEF Undisturbed, Between

\* Only addSubscription registers a call, only snapshotSubscription notes a
\* registration for it, and a call goes forward.
LEMMA Moves ==
  ASSUME Types, [Next]_vars, NEW d \in Calls
  PROVE  /\ d \in Subscribes /\ Registered(d)' /\ ~Registered(d) =>
              addSubscription(d) /\ pc[d] = "add" /\ token'[d] = subSeq + 1 /\ subSeq' = subSeq + 1
         /\ snap'[d] # snap[d] \/ (pc'[d] = "add" /\ pc[d] # "add") =>
              snapshotSubscription(d) /\ pc[d] = "idle" /\ snap'[d] = subs[f(d)] /\ replaying = None
         /\ pc'[d] = "write" /\ pc[d] # "write" =>
              (addSubscription(d) /\ pc[d] = "add") \/ (snapshotSubscription(d) /\ d \in Unsubscribes /\ pc[d] = "idle")
         /\ pc'[d] = "wait" /\ pc[d] # "wait" => requestAck(d) /\ pc[d] = "write"
         /\ pc'[d] # "done" => pc[d] # "done"
         /\ pc'[d] = "done" /\ pc[d] # "done" => Finish(d) /\ pc[d] = "wait"
<1> USE Facts DEF Types, Registered, Goto, callVars, connVars
<1>1. ASSUME NEW c \in Calls, snapshotSubscription(c)
      PROVE  /\ pc[c] = "idle" /\ pc' = [pc EXCEPT ![c] = IF c \in Subscribes THEN "add" ELSE "write"]
             /\ snap' = [snap EXCEPT ![c] = subs[f(c)]] /\ replaying = None
  BY <1>1, Zenon DEF snapshotSubscription
<1>2. ASSUME NEW c \in Calls, addSubscription(c)
      PROVE  /\ pc[c] = "add" /\ pc' = [pc EXCEPT ![c] = "write"] /\ c \in Subscribes
             /\ snap' = snap /\ subSeq' = subSeq + 1 /\ token' = [token EXCEPT ![c] = subSeq + 1]
  BY <1>2, Zenon DEF addSubscription
<1>3. ASSUME NEW c \in Calls, requestAck(c) PROVE pc[c] = "write" /\ pc' = [pc EXCEPT ![c] = "wait"] /\ snap' = snap
  BY <1>3, Zenon DEF requestAck
<1>4. ASSUME NEW c \in Calls, Finish(c) PROVE pc[c] = "wait" /\ pc' = [pc EXCEPT ![c] = "done"] /\ snap' = snap
  BY <1>4, Zenon DEF Finish
<1>5. (\E resumed \in BOOLEAN : Reconnect(resumed)) \/ (\E rejected \in SUBSET Filters : replaySubscriptions(rejected))
      \/ UNCHANGED vars => UNCHANGED <<pc, snap>>
  BY Zenon DEF Reconnect, replaySubscriptions, vars
<1>6. CASE UNCHANGED <<pc, snap>>
  BY <1>6, Zenon
<1>7. ASSUME NEW c \in Calls, Call(c), c # d PROVE pc'[d] = pc[d] /\ snap'[d] = snap[d]
  BY <1>1, <1>2, <1>3, <1>4, <1>7, SMTT(60) DEF Call
<1>8. CASE pc'[d] = pc[d] /\ snap'[d] = snap[d]
  BY <1>8, Zenon
<1>9. CASE snapshotSubscription(d)
  BY <1>1, <1>9, SMTT(60)
<1>10. CASE addSubscription(d)
  <2>1. pc[d] = "add" /\ pc'[d] = "write" /\ snap'[d] = snap[d]
    BY <1>2, <1>10, SMTT(60)
  <2>2. token'[d] = subSeq + 1 /\ subSeq' = subSeq + 1
    BY <1>2, <1>10, SMTT(60)
  <2> QED BY <1>10, <2>1, <2>2, Zenon
<1>11. CASE requestAck(d) \/ Finish(d)
  BY <1>3, <1>4, <1>11, ZenonT(60)
<1> QED BY <1>5, <1>6, <1>7, <1>8, <1>9, <1>10, <1>11, Zenon DEF Next, Call

\* A call is still undisturbed when it moves.
LEMMA InTurn ==
  ASSUME Types, Windows = {}, NEW c \in Calls, snapshotSubscription(c) \/ addSubscription(c) \/ requestAck(c),
         NEW d \in Calls, d # c, f(d) = f(c)
  PROVE  pc[d] \notin {"add", "write"}
BY Closed, Zenon DEF snapshotSubscription, addSubscription, requestAck

\* Every step keeps Turns.
LEMMA StepTurns == Windows = {} /\ Types /\ Turns /\ [Next]_vars => Turns'
<1> SUFFICES ASSUME Windows = {}, Types, Turns, [Next]_vars, NEW c \in Calls, NEW d \in Calls, f(c) = f(d),
                    pc'[c] \in {"add", "write"}, pc'[d] \in {"add", "write"}, c # d
             PROVE  FALSE
  BY Zenon DEF Turns
<1>1. ASSUME NEW x \in Calls, pc'[x] \in {"add", "write"}
      PROVE  pc[x] \in {"add", "write"} \/ (snapshotSubscription(x) /\ pc[x] = "idle")
  BY <1>1, Moves, Zenon
<1>2. ASSUME NEW x \in Calls, snapshotSubscription(x), NEW y \in Calls, y # x, f(x) = f(y), pc'[y] \in {"add", "write"}
      PROVE  FALSE
  <2>1. pc'[y] = pc[y]
    BY <1>2, Zenon DEF snapshotSubscription, Goto, Types
  <2> QED BY <1>2, <2>1, InTurn, Zenon
<1> QED BY <1>1, <1>2, Zenon DEF Turns

\* Every step keeps Newest.
LEMMA StepNewest == Windows = {} /\ Types /\ Tokens /\ Named /\ Turns /\ Newest /\ [Next]_vars => Newest'
<1> SUFFICES ASSUME Windows = {}, Types, Tokens, Named, Turns, Newest, [Next]_vars, NEW c \in Subscribes, pc'[c] = "write"
             PROVE  /\ subs'[f(c)] # None /\ subs'[f(c)].handler = c
                    /\ \A d \in Subscribes : Registered(d)' /\ f(d) = f(c) => token'[d] <= token'[c]
                    /\ \A d \in Calls : f(d) = f(c) /\ snap'[d] # None => snap'[d].handler # c
  BY Zenon DEF Newest
<1> USE Facts
<1>1. CASE pc[c] # "write"
  <2>1. addSubscription(c) /\ ~Registered(c)
    BY <1>1, Moves, Zenon DEF Registered
  <2>2. /\ subs'[f(c)] = Registration(c, subSeq + 1) /\ token' = [token EXCEPT ![c] = subSeq + 1] /\ snap' = snap
        /\ subSeq' = subSeq + 1 /\ subSeq \in Nat /\ token \in [Calls -> 0 .. subSeq]
    BY <2>1, Zenon DEF addSubscription, Types
  <2>3. \A d \in Calls : snap[d] # None => snap[d].handler # c
    BY <2>1, SMTT(60) DEF Named, Names, Sound, Types
  <2>4. subs'[f(c)] # None /\ subs'[f(c)].handler = c
    BY <2>2, SMTT(60) DEF Registration
  <2> QED BY <2>2, <2>3, <2>4, SMTT(60)
<1>2. CASE pc[c] = "write"
  <2>1. /\ subs[f(c)] # None /\ subs[f(c)].handler = c /\ Registered(c)
        /\ \A d \in Subscribes : Registered(d) /\ f(d) = f(c) => token[d] <= token[c]
        /\ \A d \in Calls : f(d) = f(c) /\ snap[d] # None => snap[d].handler # c
    BY <1>2, Zenon DEF Newest, Registered
  <2>2. \A d \in Calls : d # c /\ f(d) = f(c) => ~snapshotSubscription(d) /\ ~addSubscription(d)
    BY <1>2, InTurn, Zenon
  <2>3. subs'[f(c)] = subs[f(c)]
    <3>1. SUFFICES ASSUME subs'[f(c)] # subs[f(c)] PROVE FALSE
      BY Zenon
    <3>2. PICK e \in Calls : Adds(e, f(c)) \/ RollsBack(e, f(c)) \/ Removes(e, f(c))
      BY <3>1, RegistryChanges, Zenon
    <3>3. ~Adds(e, f(c))
      BY <1>2, <2>2, Zenon DEF Adds, addSubscription
    <3>4. ~RollsBack(e, f(c))
      BY <1>2, <2>1, Zenon DEF RollsBack, Finish
    <3>5. CASE Removes(e, f(c))
      <4>1. snap[e] \in Registrations /\ subs[f(c)] \in Registrations /\ f(e) = f(c) /\ subs[f(c)].token = snap[e].token
        BY <2>1, <3>5, Zenon DEF Removes, Types
      <4>2. token[snap[e].handler] = token[c] /\ Registered(snap[e].handler)
        BY <2>1, <4>1, SMTT(60) DEF Named, Names, Sound
      <4> QED BY <2>1, <4>1, <4>2, Zenon DEF Tokens
    <3> QED BY <3>2, <3>3, <3>4, <3>5, Zenon
  <2>4. \A d \in Subscribes : Registered(d)' /\ f(d) = f(c) => Registered(d) /\ token'[d] = token[d]
    <3>1. ~addSubscription(c)
      BY <1>2, Zenon DEF addSubscription
    <3> QED BY <2>2, <3>1, Moves, Kept, Zenon
  <2>5. \A d \in Calls : f(d) = f(c) => snap'[d] = snap[d]
    <3>1. ~snapshotSubscription(c)
      BY <1>2, Zenon DEF snapshotSubscription
    <3> QED BY <2>2, <3>1, Moves, Zenon
  <2>6. token'[c] = token[c]
    BY <2>1, Kept, Zenon
  <2> QED BY <2>1, <2>3, <2>4, <2>5, <2>6, Zenon
<1> QED BY <1>1, <1>2, Zenon

\* Every step keeps Cut.
LEMMA StepCut == Types /\ Cut /\ [Next]_vars => Cut'
<1> SUFFICES ASSUME Types, Cut, [Next]_vars PROVE Cut'
  BY Zenon
<1> USE Facts DEF Types, Cut, Goto, callVars, connVars
<1>1. ASSUME NEW c \in Calls, snapshotSubscription(c) PROVE Cut'
  BY <1>1, SMTT(60) DEF snapshotSubscription
<1>2. ASSUME NEW c \in Calls, addSubscription(c) PROVE Cut'
  BY <1>2, Zenon DEF addSubscription
<1>3. ASSUME NEW c \in Calls, requestAck(c) PROVE Cut'
  BY <1>3, SMTT(60) DEF requestAck
<1>4. ASSUME NEW c \in Calls, Finish(c) PROVE Cut'
  BY <1>4, Zenon DEF Finish
<1>5. ASSUME NEW resumed \in BOOLEAN, Reconnect(resumed) PROVE Cut'
  BY <1>5, SubscriptionsAssumption, SMTT(60) DEF Reconnect
<1>6. ASSUME NEW rejected \in SUBSET Filters, replaySubscriptions(rejected) PROVE Cut'
  BY <1>6, Zenon DEF replaySubscriptions
<1>7. CASE UNCHANGED vars
  BY <1>7, Zenon DEF vars
<1> QED BY <1>1, <1>2, <1>3, <1>4, <1>5, <1>6, <1>7, Zenon DEF Next, Call

\* The handler of a registration is a registered Subscribe for the filter, the
\* token of the registration its own.
LEMMA Handlers ==
  ASSUME Types, Named
  PROVE  /\ \A g \in Filters : subs[g] # None =>
              /\ subs[g].handler \in Subscribes /\ Registered(subs[g].handler) /\ f(subs[g].handler) = g
              /\ subs[g].token = Age(subs[g])
         /\ \A c \in Calls : snap[c] # None =>
              /\ snap[c].handler \in Subscribes /\ Registered(snap[c].handler) /\ f(snap[c].handler) = f(c)
              /\ snap[c].token = Age(snap[c]) /\ snap[c].handler # c
         /\ \A g \in Filters : broker[g] # None =>
              broker[g].handler \in Subscribes /\ Registered(broker[g].handler) /\ f(broker[g].handler) = g
         /\ \A g \in Filters : replaying # None /\ replaying[g] # None =>
              replaying[g].handler \in Subscribes /\ Registered(replaying[g].handler) /\ f(replaying[g].handler) = g
         /\ \A c \in Subscribes : token[c] \in Nat
BY Facts, SMTT(60) DEF Types, Named, Names, Sound, Age

\* Every step keeps Rolled.
LEMMA StepRolled ==
  Windows = {} /\ Types /\ Tokens /\ Named /\ Turns /\ Rolled /\ [Next]_vars => Rolled'
<1> SUFFICES ASSUME Windows = {}, Types, Tokens, Named, Turns, Rolled, [Next]_vars PROVE Rolled'
  BY Zenon
<1> USE Facts
<1>0. /\ Types' /\ Tokens' /\ Named' /\ Turns' /\ subSeq \in Nat
      /\ \A c \in Subscribes : token[c] \in 0 .. subSeq
      /\ \A c \in Subscribes : ~Registered(c) /\ Registered(c)' => subSeq' = subSeq + 1 /\ token'[c] = subSeq + 1
  BY StepTypes, StepTokens, StepNamed, StepTurns, Moves, Zenon DEF Types
<1>1. ASSUME NEW c \in Subscribes, Registered(c)', snap'[c] # None PROVE token'[snap'[c].handler] < token'[c]
  <2>1. snap'[c] = snap[c]
    <3>1. ~snapshotSubscription(c)
      BY <1>1, Zenon DEF snapshotSubscription, Goto, Types, Registered
    <3> QED BY <3>1, Moves, Zenon
  <2>2. snap[c].handler \in Subscribes /\ Registered(snap[c].handler)
    BY <1>1, <2>1, Handlers, Zenon
  <2>3. token'[snap[c].handler] = token[snap[c].handler] /\ token[snap[c].handler] \in 0 .. subSeq
    BY <1>0, <2>2, Kept, Zenon
  <2>4. CASE Registered(c)
    <3>1. token[snap[c].handler] < token[c] /\ token'[c] = token[c]
      BY <1>1, <2>1, <2>4, Kept, Zenon DEF Rolled, Age
    <3> QED BY <2>1, <2>3, <3>1, Zenon
  <2>5. CASE ~Registered(c)
    <3>1. token[snap[c].handler] < subSeq + 1
      BY <1>0, <2>3, Compared, Zenon
    <3>2. token'[c] = subSeq + 1
      BY <1>0, <1>1, <2>5, Zenon
    <3> QED BY <2>1, <2>3, <3>1, <3>2, Zenon
  <2> QED BY <2>4, <2>5, Zenon
<1>2. ASSUME NEW g \in Filters, NEW d \in Subscribes, subs'[g] # None, Registered(d)', f(d) = g,
             token'[d] > token'[subs'[g].handler]
      PROVE  Failed(d)'
  <2>1. CASE subs'[g] = subs[g] /\ Registered(d)
    <3>1. token'[d] = token[d] /\ token'[subs[g].handler] = token[subs[g].handler]
      BY <1>2, <2>1, Kept, Handlers, Zenon
    <3> QED BY <1>2, <2>1, <3>1, Kept, Zenon DEF Rolled, Age
  <2>2. CASE ~Registered(d)
    <3>1. addSubscription(d)
      BY <1>2, <2>2, Moves, Zenon
    <3>2. subs'[g].handler = d
      BY <1>2, <3>1, Zenon DEF addSubscription, Registration, Types
    <3>3. token'[d] \in Nat
      BY <1>0, Compared, Zenon DEF Types
    <3> QED BY <1>2, <3>2, <3>3, Compared, Zenon
  <2>3. ASSUME NEW c \in Calls, Adds(c, g) PROVE FALSE
    <3>1. subs'[g].handler = c /\ token'[c] = subSeq + 1 /\ subSeq' = subSeq + 1 /\ token' \in [Calls -> 0 .. subSeq']
      BY <1>0, <2>3, Zenon DEF Adds, addSubscription, Registration, Types
    <3>2. token'[d] \in 0 .. subSeq + 1
      BY <3>1, Zenon
    <3>3. ~(token'[d] > subSeq + 1)
      BY <1>0, <3>2, Compared, Zenon
    <3> QED BY <1>2, <3>1, <3>3, Zenon
  <2>4. ASSUME NEW c \in Calls, RollsBack(c, g), Registered(d) PROVE Failed(d)'
    <3>1. /\ c \in Subscribes /\ f(c) = g /\ Failed(c)' /\ ~Failed(c) /\ Registered(c) /\ pc[c] = "wait"
          /\ subs[g] # None /\ subs[g].handler = c /\ snap[c] # None /\ subs'[g].handler = snap[c].handler
      BY <1>2, <2>4, Zenon DEF RollsBack, Finish
    <3>2. snap[c].handler \in Subscribes /\ Registered(snap[c].handler)
      BY <3>1, Handlers, Zenon
    <3>3. token'[d] = token[d] /\ token'[snap[c].handler] = token[snap[c].handler]
      BY <2>4, <3>2, Kept, Zenon
    <3>4. token[d] > token[snap[c].handler]
      BY <1>2, <3>1, <3>3, Zenon
    <3>5. token[d] = token[c] => d = c
      BY <2>4, <3>1, Zenon DEF Tokens
    <3>6. token[d] > token[c] => Failed(d)
      BY <1>2, <2>4, <3>1, Zenon DEF Rolled, Age
    <3>7. token[d] < token[c] => Failed(d)
      BY <1>2, <2>4, <3>1, <3>4, Zenon DEF Rolled, Age
    <3>8. token[d] = token[c] \/ token[d] > token[c] \/ token[d] < token[c]
      <4>1. token[c] \in Nat /\ token[d] \in Nat
        BY <3>1, Handlers, Zenon
      <4> QED BY <4>1, Compared, Zenon
    <3> QED BY <3>1, <3>5, <3>6, <3>7, <3>8, Kept, Zenon
  <2> QED BY <1>2, <2>1, <2>2, <2>3, <2>4, RegistryChanges, Zenon DEF Removes
<1>3. ASSUME NEW c \in Subscribes, NEW d \in Subscribes, snap'[c] # None, pc'[c] \in {"add", "write", "wait"},
             Registered(d)', f(d) = f(c), token'[d] > token'[snap'[c].handler],
             Registered(c)' => token'[d] < token'[c]
      PROVE  Failed(d)'
  <2>1. CASE snapshotSubscription(c)
    <3>1. snap'[c] = subs[f(c)] /\ token' = token /\ \A x \in Subscribes : Registered(x)' => Registered(x)
      BY <2>1, Zenon DEF snapshotSubscription, Goto, Types, Registered
    <3>2. Registered(d) /\ token[d] > token[subs[f(c)].handler] /\ subs[f(c)] # None
      BY <1>3, <3>1, Zenon
    <3> QED BY <1>3, <3>2, Kept, Zenon DEF Rolled, Age
  <2>2. CASE ~snapshotSubscription(c)
    <3>1. snap'[c] = snap[c] /\ pc[c] \in {"add", "write", "wait"}
      BY <1>3, <2>2, Moves, Zenon
    <3>2. token'[snap[c].handler] = token[snap[c].handler] /\ token[snap[c].handler] \in Nat
      BY <1>3, <3>1, Kept, Handlers, ZenonT(60)
    <3>3. CASE Registered(d)
      <4>1. token'[d] = token[d] /\ (Registered(c) => token[d] < token[c])
        BY <1>3, <3>3, Kept, ZenonT(60)
      <4> QED BY <1>3, <3>1, <3>2, <3>3, <4>1, Kept, Zenon DEF Rolled, Age
    <3>4. CASE ~Registered(d)
      <4>1. addSubscription(d) /\ token'[d] = subSeq + 1 /\ subSeq' = subSeq + 1 /\ pc[d] = "add"
        BY <1>3, <3>4, Moves, Zenon
      <4>2. c # d
        <5>1. c = d => token'[d] < token'[d] /\ token'[d] \in Nat
          BY <1>0, <1>3, Compared, Zenon DEF Types
        <5> QED BY <5>1, Compared, Zenon
      <4>3. pc[c] # "add"
        BY <1>3, <4>1, <4>2, InTurn, Zenon
      <4>4. Registered(c)
        BY <3>1, <4>3, Zenon DEF Registered
      <4>5. token'[d] < token[c]
        BY <1>3, <4>4, Kept, Zenon
      <4>6. token[c] \in 0 .. subSeq
        BY <1>0, Zenon
      <4>7. ~(subSeq + 1 < token[c])
        BY <1>0, <4>6, Compared, Zenon
      <4> QED BY <4>1, <4>5, <4>7, Zenon
    <3> QED BY <3>3, <3>4, Zenon
  <2> QED BY <2>1, <2>2, Zenon
<1>4. ASSUME NEW c \in Subscribes, pc'[c] = "add", subs'[f(c)] # None
      PROVE  snap'[c] # None /\ token'[snap'[c].handler] >= token'[subs'[f(c)].handler]
  <2>1. CASE snapshotSubscription(c)
    <3>1. snap'[c] = subs[f(c)] /\ token' = token /\ subs' = subs
      BY <2>1, Zenon DEF snapshotSubscription, Goto, Types
    <3>2. token[subs[f(c)].handler] \in Nat
      BY <1>4, <3>1, Handlers, ZenonT(60)
    <3> QED BY <1>4, <3>1, <3>2, Compared, Zenon
  <2>2. CASE ~snapshotSubscription(c)
    <3>1. snap'[c] = snap[c] /\ pc[c] = "add"
      BY <1>4, <2>2, Moves, Zenon
    <3>2. ASSUME snap[c] # None PROVE token'[snap[c].handler] = token[snap[c].handler] /\ token[snap[c].handler] \in Nat
      BY <3>2, Kept, Handlers, Zenon
    <3>3. CASE subs'[f(c)] = subs[f(c)]
      <4>1. token'[subs[f(c)].handler] = token[subs[f(c)].handler]
        BY <1>4, <3>3, Kept, Handlers, Zenon
      <4> QED BY <1>4, <3>1, <3>2, <3>3, <4>1, Zenon DEF Rolled, Age
    <3>4. CASE subs'[f(c)] # subs[f(c)]
      <4>1. PICK e \in Calls : Adds(e, f(c)) \/ RollsBack(e, f(c)) \/ Removes(e, f(c))
        BY <3>4, RegistryChanges, Zenon
      <4>2. CASE Adds(e, f(c))
        <5>1. e # c
          BY <1>4, <4>2, Zenon DEF Adds, addSubscription, Goto, Types
        <5> QED BY <3>1, <4>2, <5>1, InTurn, Zenon DEF Adds
      <4>3. CASE RollsBack(e, f(c))
        <5>1. /\ e \in Subscribes /\ Registered(e) /\ subs[f(c)] # None /\ subs[f(c)].handler = e
              /\ snap[e] # None /\ subs'[f(c)].handler = snap[e].handler
          BY <1>4, <4>3, Zenon DEF RollsBack
        <5>2. /\ token[snap[e].handler] < token[e] /\ token'[snap[e].handler] = token[snap[e].handler]
              /\ token[e] \in Nat /\ token[snap[e].handler] \in Nat
          BY <5>1, Kept, Handlers, Zenon DEF Rolled, Age
        <5>3. snap[c] # None /\ token[snap[c].handler] >= token[e]
          BY <3>1, <5>1, Zenon DEF Rolled, Age
        <5>4. token[snap[c].handler] >= token[snap[e].handler]
          <6>1. token[snap[c].handler] \in Nat
            BY <3>2, <5>3, Zenon
          <6> QED BY <5>2, <5>3, <6>1, NotOlder, Zenon
        <5> QED BY <3>1, <3>2, <5>1, <5>2, <5>3, <5>4, Zenon
      <4> QED BY <1>4, <4>1, <4>2, <4>3, Zenon DEF Removes
    <3> QED BY <3>3, <3>4, Zenon
  <2> QED BY <2>1, <2>2, Zenon
<1> QED BY <1>1, <1>2, <1>3, <1>4, Zenon DEF Rolled, Age

\* Every step keeps Ended.
LEMMA StepEnded == Types /\ Tokens /\ Named /\ Newest /\ Cut /\ Ended /\ [Next]_vars => Ended'
<1> SUFFICES ASSUME Types, Tokens, Named, Newest, Cut, Ended, [Next]_vars, NEW u \in Unsubscribes,
                    pc'[u] = "wait", answer'[u] = "accepted", snap'[u] # None, broker'[f(u)] # None
             PROVE  token'[broker'[f(u)].handler] > token'[snap'[u].handler]
  BY Zenon DEF Ended, Age
<1> USE Facts
<1>1. pc[u] = "wait" /\ snap'[u] = snap[u]
  <2>1. ASSUME requestAck(u) PROVE FALSE
    BY <2>1, ZenonT(60) DEF requestAck, Types
  <2> QED BY <2>1, Moves, Zenon
<1>2. answer[u] = "accepted" /\ replaying = None
  <2>1. \A c \in Calls : Call(c) => answer'[u] = answer[u]
    BY <1>1, ZenonT(60) DEF Call, snapshotSubscription, addSubscription, requestAck, Finish, Types
  <2>2. \A resumed \in BOOLEAN : ~Reconnect(resumed)
    BY <1>1, Zenon DEF Reconnect
  <2>3. answer[u] = "accepted"
    BY <2>1, <2>2, Zenon DEF Next, replaySubscriptions, vars, callVars
  <2> QED BY <1>1, <2>3, Zenon DEF Cut
<1>3. /\ snap[u].handler \in Subscribes /\ Registered(snap[u].handler) /\ f(snap[u].handler) = f(u)
      /\ token'[snap[u].handler] = token[snap[u].handler] /\ token[snap[u].handler] \in Nat
  BY <1>1, Handlers, Kept, Zenon
<1>4. CASE broker'[f(u)] = broker[f(u)]
  <2>1. token'[broker[f(u)].handler] = token[broker[f(u)].handler]
    BY <1>4, Handlers, Kept, Zenon
  <2> QED BY <1>1, <1>2, <1>3, <1>4, <2>1, Zenon DEF Ended, Age
<1>5. CASE broker'[f(u)] # broker[f(u)]
  <2>1. PICK c \in Calls : requestAck(c)
    BY <1>1, <1>2, <1>5, ZenonT(60) DEF Next, Call, snapshotSubscription, addSubscription, Finish, Reconnect, replaySubscriptions, vars
  <2>2. c \in Subscribes /\ f(c) = f(u) /\ broker'[f(u)] = [handler |-> c, subID |-> SubIDOf[c]] /\ pc[c] = "write" /\ token' = token
    <3>1. f(u) \in Filters /\ f(c) \in Filters /\ broker'[f(u)] # None
      BY <2>1, Zenon
    <3>2. ASSUME NEW r, broker' = [broker EXCEPT ![f(c)] = r] PROVE f(c) = f(u) /\ broker'[f(u)] = r
      BY <1>5, <3>1, <3>2, Zenon DEF Types
    <3>3. pc[c] = "write" /\ token' = token
      BY <2>1, Taken, Zenon
    <3>4. c \notin Unsubscribes \/ broker' # [broker EXCEPT ![f(c)] = None]
      BY <3>1, <3>2, Zenon
    <3>5. broker' # broker
      BY <1>5, Zenon
    <3>6. c \in Subscribes /\ broker' = [broker EXCEPT ![f(c)] = [handler |-> c, subID |-> SubIDOf[c]]]
      BY <2>1, <3>4, <3>5, Taken, Zenon
    <3> QED BY <3>2, <3>3, <3>6, Zenon
  <2>3. broker'[f(u)].handler = c /\ token[c] \in Nat /\ Registered(c)
    <3>1. broker'[f(u)].handler = c
      BY <2>2, HandlerField, Zenon
    <3>2. token[c] \in Nat
      BY <2>2, Handlers, Zenon
    <3> QED BY <2>2, <3>1, <3>2, Zenon DEF Registered
  <2>4. token[snap[u].handler] <= token[c] /\ snap[u].handler # c
    BY <1>1, <1>3, <2>2, Zenon DEF Newest
  <2>5. token[snap[u].handler] # token[c]
    BY <1>3, <2>2, <2>3, <2>4, Zenon DEF Tokens
  <2>6. token[c] > token[snap[u].handler]
    BY <1>3, <2>3, <2>4, <2>5, Compared, Zenon
  <2> QED BY <1>1, <2>2, <2>3, <2>6, ZenonT(60)
<1> QED BY <1>4, <1>5, Zenon

\* The broker has just taken the SUBSCRIBE of c, or the UNSUBSCRIBE.
Accepts(c, g) == c \in Calls /\ requestAck(c) /\ f(c) = g /\ answer'[c] = "accepted"

\* A call that waits for another answer than an acceptance fails.
LEMMA Unaccepted ==
  ASSUME Types, [Next]_vars, NEW c \in Subscribes, pc[c] = "wait", answer[c] # "accepted"
  PROVE  Failed(c)' \/ (pc'[c] = "wait" /\ answer'[c] # "accepted")
<1> USE Facts DEF Types, Goto, callVars, connVars
<1>1. CASE Finish(c)
  BY <1>1, Zenon DEF Finish, Failed
<1>2. ASSUME NEW d \in Calls, Call(d), ~Finish(c) PROVE pc'[c] = "wait" /\ answer'[c] = answer[c]
  <2>1. CASE snapshotSubscription(d)
    BY <2>1, Zenon DEF snapshotSubscription
  <2>2. CASE addSubscription(d)
    BY <2>2, Zenon DEF addSubscription
  <2>3. CASE requestAck(d)
    BY <2>3, Zenon DEF requestAck
  <2>4. CASE Finish(d)
    <3>1. d # c
      BY <1>2, <2>4, Zenon
    <3> QED BY <2>4, <3>1, Zenon DEF Finish
  <2> QED BY <1>2, <2>1, <2>2, <2>3, <2>4, Zenon DEF Call
<1>3. ASSUME NEW resumed \in BOOLEAN, Reconnect(resumed) PROVE pc'[c] = "wait" /\ answer'[c] = "failed"
  BY <1>3, Zenon DEF Reconnect
<1>4. ASSUME NEW rejected \in SUBSET Filters, replaySubscriptions(rejected) PROVE pc'[c] = "wait" /\ answer'[c] = answer[c]
  BY <1>4, Zenon DEF replaySubscriptions
<1> QED BY <1>1, <1>2, <1>3, <1>4, Zenon DEF Next, vars

\* What ties a subscription to the registry stays, unless an Unsubscribe takes
\* the registration or the broker takes another request for the filter.
LEMMA HoldsKept ==
  ASSUME Windows = {}, Types, Tokens, Named, Turns, Rolled, [Next]_vars, NEW g \in Filters,
         NEW y \in Subscribes, Registered(y), f(y) = g, ~Failed(y)', Holds(g, y),
         \A c \in Calls : ~Removes(c, g) /\ ~Accepts(c, g)
  PROVE  Holds(g, y)'
<1> USE Facts
<1>0. /\ token'[y] = token[y] /\ token[y] \in 0 .. subSeq /\ subSeq \in Nat
      /\ \A c \in Subscribes : token[c] \in Nat
  BY Kept, Handlers, Zenon DEF Types
<1>1. subs'[g] # None /\ token'[subs'[g].handler] >= token[y]
  <2>0. subs[g] # None /\ token[subs[g].handler] >= token[y]
    BY Zenon DEF Holds, Age
  <2>1. CASE subs'[g] = subs[g]
    BY <2>0, <2>1, Handlers, Kept, ZenonT(60)
  <2>2. CASE subs'[g] # subs[g]
    <3>1. PICK c \in Calls : Adds(c, g) \/ RollsBack(c, g)
      BY <2>2, RegistryChanges, Zenon
    <3>2. CASE Adds(c, g)
      <4>1. subs'[g] = Registration(c, subSeq + 1) /\ token'[c] = subSeq + 1 /\ c \in Subscribes
        BY <3>2, Zenon DEF Adds, addSubscription, Types
      <4>2. subs'[g] # None /\ subs'[g].handler = c
        <5>1. subSeq + 1 \in Nat
          BY <1>0, Compared, Zenon
        <5>2. subs'[g] \in Registrations
          BY <4>1, <5>1, Zenon
        <5>3. subs'[g].handler = c
          BY <4>1, HandlerField, Zenon
        <5> QED BY <5>2, <5>3, Zenon
      <4>3. subSeq + 1 >= token[y]
        BY <1>0, Compared, Zenon
      <4> QED BY <4>1, <4>2, <4>3, Zenon
    <3>3. CASE RollsBack(c, g)
      <4>1. /\ c \in Subscribes /\ f(c) = g /\ Failed(c)' /\ ~Failed(c) /\ Registered(c) /\ subs[g].handler = c
            /\ c # y
        BY <3>3, Zenon DEF RollsBack
      <4>2. token[c] # token[y] /\ token[c] >= token[y]
        BY <2>0, <4>1, Zenon DEF Tokens
      <4>3. token[c] > token[y]
        BY <1>0, <4>1, <4>2, Compared, Zenon
      <4>4. snap[c] # None /\ token[snap[c].handler] >= token[y]
        BY <4>1, <4>3, Zenon DEF Holds, Age
      <4>5. subs'[g] # None /\ subs'[g].handler = snap[c].handler
        BY <3>3, <4>4, Zenon DEF RollsBack
      <4> QED BY <4>4, <4>5, Handlers, Kept, Zenon
    <3> QED BY <3>1, <3>2, <3>3, Zenon
  <2> QED BY <2>1, <2>2, Zenon
<1>2. ASSUME NEW c \in Subscribes, f(c) = g, Registered(c)', token'[c] > token[y], ~Failed(c)'
      PROVE  /\ pc'[c] = "write" \/ (pc'[c] = "wait" /\ answer'[c] # "accepted")
             /\ snap'[c] # None /\ token'[snap'[c].handler] >= token[y]
  <2>1. CASE ~Registered(c)
    <3>1. addSubscription(c) /\ pc[c] = "add"
      BY <1>2, <2>1, Moves, Zenon
    <3>2. pc'[c] = "write" /\ snap' = snap
      BY <3>1, Zenon DEF addSubscription, Goto, Types
    <3>3. snap[c] # None /\ token[snap[c].handler] >= token[y]
      BY <1>2, <3>1, Zenon DEF Holds, Age
    <3> QED BY <3>2, <3>3, Handlers, Kept, Zenon
  <2>2. CASE Registered(c)
    <3>1. token[c] > token[y] /\ ~Failed(c)
      BY <1>2, <2>2, Kept, Zenon
    <3>2. /\ pc[c] = "write" \/ (pc[c] = "wait" /\ answer[c] # "accepted")
          /\ snap[c] # None /\ token[snap[c].handler] >= token[y]
      BY <1>2, <2>2, <3>1, Zenon DEF Holds, Age
    <3>3. snap'[c] = snap[c]
      BY <3>2, Moves, Zenon
    <3>4. CASE pc[c] = "wait"
      BY <1>2, <3>2, <3>3, <3>4, Unaccepted, Handlers, Kept, ZenonT(60)
    <3>5. CASE pc[c] = "write"
      <4>1. pc'[c] = "write" \/ (requestAck(c) /\ pc'[c] = "wait")
        BY <1>2, <3>5, Moves, Zenon DEF Registered
      <4> QED BY <1>2, <3>2, <3>3, <4>1, Handlers, Kept, ZenonT(60) DEF Accepts
    <3> QED BY <3>2, <3>4, <3>5, ZenonT(60)
  <2> QED BY <2>1, <2>2, Zenon
<1>3. ASSUME NEW c \in Subscribes, f(c) = g, pc'[c] = "add"
      PROVE  snap'[c] # None /\ token'[snap'[c].handler] >= token[y]
  <2>1. CASE snapshotSubscription(c)
    <3>1. snap'[c] = subs[g]
      BY <1>3, <2>1, Zenon DEF snapshotSubscription, Types
    <3>2. subs[g] # None /\ token[subs[g].handler] >= token[y]
      BY Zenon DEF Holds, Age
    <3> QED BY <3>1, <3>2, Handlers, Kept, Zenon
  <2>2. CASE ~snapshotSubscription(c)
    <3>1. pc[c] = "add" /\ snap'[c] = snap[c]
      BY <1>3, <2>2, Moves, Zenon
    <3>2. snap[c] # None /\ token[snap[c].handler] >= token[y]
      BY <1>3, <3>1, Zenon DEF Holds, Age
    <3> QED BY <3>1, <3>2, Handlers, Kept, Zenon
  <2> QED BY <2>1, <2>2, Zenon
<1> QED BY <1>0, <1>1, <1>2, <1>3, Zenon DEF Holds, Age

\* The subscription the broker has just taken is the current registration.
LEMMA HoldsFresh ==
  ASSUME Types, Named, Turns, Newest, NEW g \in Filters, NEW y \in Subscribes, Accepts(y, g)
  PROVE  Holds(g, y)'
<1> USE Facts
<1>1. /\ pc[y] = "write" /\ pc' = [pc EXCEPT ![y] = "wait"] /\ subs' = subs /\ token' = token /\ snap' = snap /\ f(y) = g
  BY Zenon DEF Accepts, requestAck, Goto
<1>2. /\ subs[g] # None /\ subs[g].handler = y /\ token[y] \in Nat
      /\ \A d \in Subscribes : Registered(d) /\ f(d) = g => token[d] <= token[y]
  BY <1>1, Handlers, Zenon DEF Newest
<1>3. \A d \in Subscribes : Registered(d)' => Registered(d)
  BY <1>1, Zenon DEF Registered, Types
<1>4. ASSUME NEW c \in Subscribes, f(c) = g, Registered(c)', token[c] > token[y] PROVE FALSE
  <2>1. token[c] <= token[y] /\ token[c] \in Nat
    BY <1>2, <1>3, <1>4, Handlers, Zenon
  <2> QED BY <1>2, <1>4, <2>1, Compared, Zenon
<1>5. ASSUME NEW c \in Subscribes, f(c) = g, pc'[c] = "add" PROVE FALSE
  <2>1. pc[c] = "add"
    BY <1>1, <1>5, Zenon DEF Types
  <2> QED BY <1>1, <1>5, <2>1, Zenon DEF Turns
<1>6. token'[subs'[g].handler] >= token'[y]
  BY <1>1, <1>2, Compared, Zenon
<1> QED BY <1>1, <1>2, <1>4, <1>5, <1>6, ZenonT(60) DEF Holds, Age

\* How the broker's subscription for a filter changes.
LEMMA BrokerChanges ==
  ASSUME Types, [Next]_vars, NEW g \in Filters, broker'[g] # None
  PROVE  \/ broker'[g] = broker[g] /\ \A c \in Calls : ~Accepts(c, g)
         \/ \E c \in Subscribes : Accepts(c, g) /\ broker'[g].handler = c
         \/ /\ replaying # None /\ replaying[g] # None /\ broker'[g].handler = replaying[g].handler
            /\ \A c \in Calls : ~Accepts(c, g) /\ ~Removes(c, g)
<1> USE Facts
<1>1. ASSUME NEW c \in Calls, Accepts(c, g) PROVE c \in Subscribes /\ broker'[g].handler = c
  <2>1. c \in Subscribes /\ broker' = [broker EXCEPT ![g] = [handler |-> c, subID |-> SubIDOf[c]]]
    BY <1>1, Taken, ZenonT(60) DEF Accepts, Types
  <2> QED BY <2>1, Zenon DEF Types
<1>2. ASSUME \A c \in Calls : ~Accepts(c, g), broker'[g] # broker[g]
      PROVE  /\ replaying # None /\ replaying[g] # None /\ broker'[g].handler = replaying[g].handler
             /\ \A c \in Calls : ~Removes(c, g)
  <2>1. ~\E c \in Calls : Call(c)
    <3>1. ASSUME NEW c \in Calls, requestAck(c) PROVE broker'[g] = broker[g]
      <4>1. ASSUME f(c) # g PROVE broker'[g] = broker[g]
        <5>1. ASSUME NEW r, broker' = [broker EXCEPT ![f(c)] = r] PROVE broker'[g] = broker[g]
          BY <4>1, <5>1, Zenon DEF Types
        <5>2. broker' = broker \/ \E r : broker' = [broker EXCEPT ![f(c)] = r]
          BY <3>1, Taken, Zenon
        <5> QED BY <5>1, <5>2, Zenon
      <4>2. f(c) = g => broker' = broker
        BY <1>2, <3>1, Taken, Zenon DEF Accepts
      <4> QED BY <4>1, <4>2, Zenon
    <3> QED BY <1>2, <3>1, Zenon DEF Call, snapshotSubscription, addSubscription, Finish
  <2>2. ~\E resumed \in BOOLEAN : Reconnect(resumed)
    BY <1>2, Zenon DEF Reconnect
  <2>3. PICK rejected \in SUBSET Filters : replaySubscriptions(rejected)
    BY <1>2, <2>1, <2>2, Zenon DEF Next, vars
  <2>4. \A c \in Calls : ~Removes(c, g)
    BY <2>1, Zenon DEF Removes, Call
  <2> QED BY <1>2, <2>3, <2>4, Zenon DEF replaySubscriptions, Resubscription
<1> QED BY <1>1, <1>2, Zenon

\* Every step keeps Held.
LEMMA StepHeld ==
  Windows = {} /\ Types /\ Tokens /\ Named /\ Turns /\ Newest /\ Rolled /\ Cut /\ Ended /\ Held /\ [Next]_vars => Held'
<1> SUFFICES ASSUME Windows = {}, Types, Tokens, Named, Turns, Newest, Rolled, Cut, Ended, Held, [Next]_vars,
                    NEW g \in Filters, NEW y \in Subscribes, ~Failed(y)'
             PROVE  /\ broker'[g] # None /\ broker'[g].handler = y => Holds(g, y)'
                    /\ replaying' # None /\ replaying'[g] # None /\ replaying'[g].handler = y => Holds(g, y)'
  BY Zenon DEF Held
<1> USE Facts
<1>1. ~Failed(y)
  BY Kept, Zenon
<1>2. ASSUME broker'[g] # None, broker'[g].handler = y PROVE Holds(g, y)'
  <2>1. CASE broker'[g] = broker[g] /\ \A c \in Calls : ~Accepts(c, g)
    <3>1. Holds(g, y) /\ Registered(y) /\ f(y) = g
      BY <1>1, <1>2, <2>1, Handlers, Zenon DEF Held
    <3>2. ASSUME NEW u \in Calls, Removes(u, g) PROVE FALSE
      <4>1. /\ u \in Unsubscribes /\ pc[u] = "wait" /\ answer[u] = "accepted" /\ snap[u] # None /\ f(u) = g
            /\ subs[g] # None /\ subs[g].token = snap[u].token
        BY <3>2, Zenon DEF Removes
      <4>2. token[y] > token[snap[u].handler]
        BY <1>2, <2>1, <4>1, Zenon DEF Ended, Age
      <4>3. token[snap[u].handler] >= token[y] /\ token[snap[u].handler] \in Nat /\ token[y] \in Nat
        BY <3>1, <4>1, Handlers, Zenon DEF Holds, Age
      <4> QED BY <4>2, <4>3, Compared, ZenonT(60)
    <3> QED BY <2>1, <3>1, <3>2, HoldsKept, ZenonT(60)
  <2>2. CASE \E c \in Subscribes : Accepts(c, g) /\ broker'[g].handler = c
    BY <1>2, <2>2, HoldsFresh, Zenon
  <2>3. CASE /\ replaying # None /\ replaying[g] # None /\ broker'[g].handler = replaying[g].handler
             /\ \A c \in Calls : ~Accepts(c, g) /\ ~Removes(c, g)
    <3>1. Holds(g, y) /\ Registered(y) /\ f(y) = g
      BY <1>1, <1>2, <2>3, Handlers, Zenon DEF Held
    <3> QED BY <2>3, <3>1, HoldsKept, Zenon
  <2> QED BY <1>2, <2>1, <2>2, <2>3, BrokerChanges, Zenon
<1>3. ASSUME replaying' # None, replaying'[g] # None, replaying'[g].handler = y PROVE Holds(g, y)'
  <2>1. CASE replaying' = replaying
    <3>1. Holds(g, y) /\ Registered(y) /\ f(y) = g
      BY <1>1, <1>3, <2>1, Handlers, Zenon DEF Held
    <3>2. \A c \in Calls : ~Removes(c, g)
      BY <1>3, <2>1, Zenon DEF Cut, Removes
    <3>3. \A c \in Calls : ~Accepts(c, g)
      <4>1. ASSUME NEW c \in Calls, Accepts(c, g) PROVE FALSE
        <5>1. pc[c] = "write" /\ conn[c] = reconnects
          BY <4>1, Zenon DEF Accepts, requestAck, Types
        <5>2. conn[c] < reconnects /\ reconnects \in Nat
          BY <1>3, <2>1, <5>1, Facts, SMTT(60) DEF Cut, Types
        <5> QED BY <5>1, <5>2, Compared, Zenon
      <4> QED BY <4>1, Zenon
    <3> QED BY <3>1, <3>2, <3>3, HoldsKept, Zenon
  <2>2. ASSUME NEW resumed \in BOOLEAN, Reconnect(resumed) PROVE Holds(g, y)'
    <3>1. replaying' = subs /\ subs' = subs /\ pc' = pc /\ token' = token /\ snap' = snap /\ result' = result
      BY <2>2, Zenon DEF Reconnect
    <3>2. subs[g] # None /\ subs[g].handler = y /\ token[y] \in Nat
      BY <1>3, <3>1, Handlers, Zenon
    <3>3. ASSUME NEW c \in Subscribes, f(c) = g, Registered(c), token[c] > token[y] PROVE Failed(c)
      BY <3>2, <3>3, Zenon DEF Rolled, Age
    <3>4. ASSUME NEW c \in Subscribes, f(c) = g, pc[c] = "add" PROVE snap[c] # None /\ token[snap[c].handler] >= token[y]
      BY <3>2, <3>4, ZenonT(60) DEF Rolled, Age
    <3>5. token'[subs'[g].handler] >= token'[y] /\ subs'[g] # None
      BY <3>1, <3>2, Compared, Zenon
    <3> QED BY <3>1, <3>2, <3>3, <3>4, <3>5, ZenonT(60) DEF Holds, Age, Registered, Failed
  <2>3. replaying' # replaying => \E resumed \in BOOLEAN : Reconnect(resumed)
    BY <1>3, Zenon DEF Next, Call, snapshotSubscription, addSubscription, requestAck, Finish, replaySubscriptions, vars, connVars
  <2> QED BY <2>1, <2>2, <2>3, Zenon
<1> QED BY <1>2, <1>3, Zenon

\* Everything the deliveries rest on.
Deliveries == Rollbacks /\ Turns /\ Newest /\ Rolled /\ Cut /\ Ended /\ Held

\* With the windows closed it holds in every reachable state.
LEMMA DeliveriesHold == Windows = {} => (Spec => []Deliveries)
<1> SUFFICES ASSUME Windows = {} PROVE Spec => []Deliveries
  BY Zenon
<1>1. Init => Turns /\ Newest /\ Rolled /\ Cut /\ Ended /\ Held
  <2> SUFFICES ASSUME Init PROVE Turns /\ Newest /\ Rolled /\ Cut /\ Ended /\ Held
    BY Zenon
  <2>1. /\ \A c \in Calls : pc[c] = "idle" /\ conn[c] = 0 /\ snap[c] = None
        /\ \A g \in Filters : subs[g] = None /\ broker[g] = None
        /\ replaying = None /\ reconnects = 0
    BY Zenon DEF Init
  <2>2. Turns /\ Newest /\ Cut
    BY <2>1, Facts, SMTT(60) DEF Turns, Newest, Cut
  <2>3. Rolled /\ Ended /\ Held
    BY <2>1, Facts, ZenonT(60) DEF Rolled, Ended, Held, Registered
  <2> QED BY <2>2, <2>3, Zenon
<1>2. Rollbacks /\ Turns /\ Newest /\ Rolled /\ Cut /\ Ended /\ Held /\ [Next]_vars
        => (Turns /\ Newest /\ Rolled /\ Cut /\ Ended /\ Held)'
  BY StepTurns, StepNewest, StepRolled, StepCut, StepEnded, StepHeld, ZenonT(60) DEF Rollbacks
<1> QED BY <1>1, <1>2, RollbacksHold, PTL DEF Spec, Deliveries

\* The application gives the Subscribes for a filter the same identifier.
OneIdentifier == \A c, d \in Subscribes : f(c) = f(d) => SubIDOf[c] = SubIDOf[d]

\* Subscribe registers before it writes and replays after a reconnect: once the
\* calls for a filter have returned, the copies the broker forwards for the
\* Subscribe that succeeded run a handler, and its own unless the registration
\* of a failed Subscribe was restored.  It takes calls for a filter that do
\* not interleave between snapshot and write (SubsSnapshotWindow.cfg shows why)
\* and one identifier per filter (SubsIdentifier.cfg).
THEOREM DeliveriesArrive == Windows = {} /\ OneIdentifier => (Spec => []DeliveriesReachHandler)
<1> SUFFICES ASSUME Windows = {}, OneIdentifier PROVE Spec => []DeliveriesReachHandler
  BY Zenon
<1>1. Deliveries => DeliveriesReachHandler
  <2> SUFFICES ASSUME Deliveries, NEW g \in Filters, Quiet(g), broker[g] # None, result[broker[g].handler] = "ok"
               PROVE  /\ g \in dispatch(Copy(g))
                      /\ result[subs[g].handler] # "err" => subs[g].handler = broker[g].handler
    BY Zenon DEF DeliveriesReachHandler
  <2> USE Facts DEF Deliveries, Rollbacks
  <2>1. PICK y \in Subscribes : y = broker[g].handler /\ Registered(y) /\ f(y) = g /\ ~Failed(y)
    BY Handlers, Zenon DEF Failed
  <2>2. Holds(g, y)
    BY <2>1, Zenon DEF Held
  <2>3. subs[g] # None /\ token[subs[g].handler] >= token[y]
    BY <2>2, Zenon DEF Holds, Age
  <2>4. PICK x \in Subscribes : x = subs[g].handler /\ Registered(x) /\ f(x) = g
    BY <2>3, Handlers, Zenon
  <2>5. pc[x] = "done"
    BY <2>4, Zenon DEF Quiet, Running, Registered
  <2>6. ASSUME x # y PROVE result[x] = "err"
    <3>1. token[x] # token[y]
      BY <2>1, <2>4, <2>6, Zenon DEF Tokens
    <3>2. token[x] > token[y]
      BY <2>1, <2>3, <2>4, <3>1, Handlers, Compared, ZenonT(60)
    <3> QED BY <2>2, <2>4, <2>5, <3>2, Zenon DEF Holds, Failed
  <2>7. subs[g].subID = broker[g].subID /\ subs[g].subID \in Nat
    BY <2>3, SMTT(60) DEF Types, Named, Names, Sound, OneIdentifier
  <2>8. g \in dispatch(Copy(g))
    BY <2>3, <2>7, Zenon DEF dispatch, Copy
  <2> QED BY <2>1, <2>4, <2>6, <2>8, Zenon
<1> QED BY <1>1, DeliveriesHold, PTL

=============================================================================
