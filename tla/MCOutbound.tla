----------------------------- MODULE MCOutbound -----------------------------
EXTENDS Outbound, TLC

CONSTANTS p1, p2, q1, s1, s2, u1, f1

\* The two publishes of a run run the same code; its invariants name neither.
Interchangeable == Permutations({p1, p2})

\* The calls of one behaviour: a publish and a Subscribe, or an Unsubscribe
\* and the resubscriptions of the links.
Begun == {p \in Calls : pc[p] # "idle"}
Mixes == Begun \subseteq {q1, s1} \/ Begun \subseteq {u1} \cup Resubs

\* The first broker grants two permits, the second one only one.
Shrinking == (nconn = 1 => recvMax = 2) /\ (nconn = 2 => recvMax = 1)

=============================================================================
