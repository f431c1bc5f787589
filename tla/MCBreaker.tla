----------------------------- MODULE MCBreaker -----------------------------
EXTENDS Breaker, TLC

CONSTANTS a, b, c

\* The publishes run the same code; the properties name none of them.
Interchangeable == Permutations(Publishes)

=============================================================================
