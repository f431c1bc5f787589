----------------------------- MODULE MCFraming -----------------------------
EXTENDS Framing

\* Radix 3: 81 lengths, bytes 0 to 5.
AllLengths == 0 .. 80
AllInputs == UNION {[1 .. k -> 0 .. 5] : k \in 0 .. 5}
AllLimits == {0, 1, 2, 3, 10, 40, 84, 85, 99}

============================================================================
