-------------------------- MODULE MCSubscriptions --------------------------
EXTENDS Subscriptions, TLC

CONSTANTS a, b, c, d, u, g, h

\* Every call is about the one filter g, or c about an overlapping one.
OneFilter  == [x \in Calls |-> g]
TwoFilters == [x \in Calls |-> IF x = c THEN h ELSE g]

\* The identifier that the application uses for g; one for each Subscribe.
SameID == [x \in Subscribes |-> IF x = c THEN 0 ELSE 1]
OwnIDs == [x \in Subscribes |-> IF x = a THEN 1 ELSE 2]

\* The Subscribes for g differ in nothing.
Alike == Permutations(Subscribes \ {c})

\* Any four of the calls and one reconnect, or three and two.
Mixes == Cardinality({x \in Calls : pc[x] # "idle"}) + reconnects <= 5

=============================================================================
