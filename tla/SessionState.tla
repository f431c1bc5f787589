---------------------------- MODULE SessionState ----------------------------
(***************************************************************************)
(* The three pieces of session state that session.go keeps and that every  *)
(* goroutine of the client shares: the packet identifier allocator         *)
(* (idAllocator), the QoS>0 session store (memStore) and the send quota    *)
(* (quota).  Each is a record, each method an operator from the record to  *)
(* its next value.  Every method runs under one mutex, so one application  *)
(* of an operator is one atomic step of the client.                        *)
(***************************************************************************)
EXTENDS Integers, FiniteSets

CONSTANT MaxId      \* the largest packet identifier, 65535 in the code

ASSUME MaxIdAssumption == MaxId \in Nat \ {0}

PacketIds == 1 .. MaxId

\* 1 << 16 in the code: the identifiers and the reserved 0.
packetIDSpace == MaxId + 1

-----------------------------------------------------------------------------
(* idAllocator: the in-use set, the rotating cursor, the generation.       *)

IdAllocators == [used : SUBSET PacketIds, next : 0 .. MaxId, gen : Nat]

NewIds == [used |-> {}, next |-> 0, gen |-> 0]

FreeIds(a) == PacketIds \ a.used

\* How many identifiers the scan of Acquire passes before it looks at id.
ScanDistance(a, id) == (id - a.next) % packetIDSpace

\* The identifier Acquire returns: the first free one from the cursor on.
IsNextId(a, id) ==
  /\ id \in FreeIds(a)
  /\ \A other \in FreeIds(a) : ScanDistance(a, id) <= ScanDistance(a, other)

AcquireId(a, id) ==
  [a EXCEPT !.used = @ \cup {id}, !.next = (id + 1) % packetIDSpace]

\* Mutant: ReleaseAt without the generation check.
ReleaseIdUnchecked(a, id, gen) == [a EXCEPT !.used = @ \ {id}]

ReleaseIdAt(a, id, gen) ==
  IF gen = a.gen THEN [a EXCEPT !.used = @ \ {id}] ELSE a

ResetIds(a) == [used |-> {}, next |-> 0, gen |-> a.gen + 1]

-----------------------------------------------------------------------------
(* memStore: entries keyed by (id, kind), with the Seq of their first Save. *)

StoredKinds == {"publish", "pubrel", "inbound"}

NewStore == [msgs |-> {}, seq |-> 0]

Entry(s, id, kind) == {m \in s.msgs : m.id = id /\ m.kind = kind}

Contains(s, id, kind) == Entry(s, id, kind) # {}

\* A new key takes the next Seq, a key that is present keeps its own.
Save(s, id, kind, msg) ==
  LET prev == Entry(s, id, kind)
      n    == IF prev = {} THEN s.seq + 1 ELSE (CHOOSE m \in prev : TRUE).seq
  IN  [msgs |-> (s.msgs \ prev) \cup {[id |-> id, kind |-> kind, msg |-> msg, seq |-> n]},
       seq  |-> IF prev = {} THEN n ELSE s.seq]

Delete(s, id, kind) == [s EXCEPT !.msgs = @ \ Entry(s, id, kind)]

\* All: the stored entries, in ascending Seq order; First is its head.
First(msgs, m) == m \in msgs /\ \A n \in msgs : m.seq <= n.seq

ResetStore(s) == NewStore

\* inflightPermits: the entries that hold a send permit.
Inflight(s) == {m \in s.msgs : m.kind \in {"publish", "pubrel"}}

-----------------------------------------------------------------------------
(* quota: the free permits, the generation, the failed mark.               *)

Quotas == [avail : Nat, gen : Nat, failed : BOOLEAN]

newQuota(n) == [avail |-> n, gen |-> 0, failed |-> FALSE]

\* acquire grants a permit exactly when the quota has not failed and one is free.
CanAcquire(q) == ~q.failed /\ q.avail > 0

acquire(q) == [q EXCEPT !.avail = @ - 1]

\* Mutant: releaseAt credits whatever connection the permit came from.
releaseAtUnchecked(q, gen) == [q EXCEPT !.avail = @ + 1]

releaseAt(q, gen) == IF gen = q.gen THEN [q EXCEPT !.avail = @ + 1] ELSE q

\* Mutant: reset leaves the failed mark of the previous connection.
resetKeepsFailed(q, n) == [avail |-> n, gen |-> q.gen + 1, failed |-> q.failed]

reset(q, n) == [avail |-> n, gen |-> q.gen + 1, failed |-> FALSE]

fail(q) == [q EXCEPT !.failed = TRUE]

=============================================================================
