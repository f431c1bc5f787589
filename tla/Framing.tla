------------------------------ MODULE Framing ------------------------------
(***************************************************************************)
(* The length field of protocol/wire.go: the loop of appendVarint writes a *)
(* remaining length, the loop of readVarintFrom (and, step for step, of    *)
(* cursor.readVarint) reads it, and ReadFrame checks the length against    *)
(* the packet size limit in 32-bit arithmetic.  The radix is a parameter,  *)
(* 128 in the code: a byte is a digit, plus the radix when more follow.    *)
(***************************************************************************)
EXTENDS Integers, Sequences

CONSTANTS
  Radix,                \* 128
  Width,                \* 2^32, the number of values of a uint32
  Lengths,              \* the lengths that are encoded
  Inputs,               \* the byte strings that are decoded
  Limits                \* values of maxPacketSize

ASSUME FramingAssumption ==
  /\ Radix \in Nat \ {0, 1} /\ Width \in Nat /\ Width > Radix * Radix * Radix * Radix + 5
  /\ Lengths \subseteq 0 .. Radix * Radix * Radix * Radix - 1
  /\ Inputs \subseteq Seq(0 .. 2 * Radix - 1) /\ Limits \subseteq 0 .. Width - 1

maxVarintBytes == 4

Power == [n \in 0 .. maxVarintBytes |->
            <<1, Radix, Radix * Radix, Radix * Radix * Radix, Radix * Radix * Radix * Radix>>[n + 1]]

VARIABLES
  given,                \* what the behaviour starts from: a length or a byte string
  pc,                   \* "encode", "decode", "check", "accepted", "toolarge" or "malformed"
  v,                    \* appendVarint: what is left to write
  buf,                  \* the bytes
  n, value,             \* readVarintFrom: bytes read, value so far
  maxPacketSize

vars == <<given, pc, v, buf, n, value, maxPacketSize>>

FromLength == given.kind = "length"

-----------------------------------------------------------------------------
\* One turn of appendVarint's loop.
appendVarint ==
  /\ pc = "encode"
  /\ v' = v \div Radix
  /\ buf' = Append(buf, IF v' > 0 THEN (v % Radix) + Radix ELSE v % Radix)
  /\ pc' = IF v' = 0 THEN (IF FromLength THEN "decode" ELSE "accepted") ELSE "encode"
  /\ UNCHANGED <<given, n, value, maxPacketSize>>

\* Mutant: an encoding with superfluous bytes is let through.
nonMinimalNever(k, last) == FALSE

nonMinimalVarint(k, last) == k > 0 /\ last = 0

\* One turn of readVarintFrom's loop: a byte that ends the value, or goes
\* on, or the end of the input.
readVarintFrom ==
  /\ pc = "decode"
  /\ IF n = maxVarintBytes \/ n = Len(buf)
     THEN pc' = "malformed" /\ UNCHANGED <<n, value>>
     ELSE LET b == buf[n + 1]
          IN  /\ value' = value + (b % Radix) * Power[n]
              /\ n' = n + 1
              /\ pc' = IF b >= Radix THEN "decode"
                       ELSE IF nonMinimalVarint(n, b) THEN "malformed" ELSE "check"
  /\ UNCHANGED <<given, v, buf, maxPacketSize>>

varintLen(x) ==
  IF x < Power[1] THEN 1 ELSE IF x < Power[2] THEN 2 ELSE IF x < Power[3] THEN 3 ELSE 4

\* Mutant: a limit smaller than the header is not looked for.
tooLargeUnguarded(length, max) ==
  LET overhead == 1 + varintLen(length)
  IN  length > (max - overhead) % Width

\* ReadFrame's test, with the subtraction modulo 2^32.
tooLarge(length, max) ==
  LET overhead == 1 + varintLen(length)
  IN  max < overhead \/ length > (max - overhead) % Width

\* ReadFrame accepts the length.  One that was read from bytes is written
\* again, to compare.
ReadFrame ==
  /\ pc = "check"
  /\ IF tooLarge(value, maxPacketSize) THEN pc' = "toolarge" /\ UNCHANGED <<v, buf>>
     ELSE IF FromLength THEN pc' = "accepted" /\ UNCHANGED <<v, buf>>
     ELSE pc' = "encode" /\ v' = value /\ buf' = <<>>
  /\ UNCHANGED <<given, n, value, maxPacketSize>>

Init ==
  /\ maxPacketSize \in Limits /\ n = 0 /\ value = 0
  /\ \/ \E x \in Lengths : given = [kind |-> "length", length |-> x] /\ v = x /\ buf = <<>> /\ pc = "encode"
     \/ \E s \in Inputs : given = [kind |-> "bytes", bytes |-> s] /\ v = 0 /\ buf = s /\ pc = "decode"

Next == appendVarint \/ readVarintFrom \/ ReadFrame

Spec == Init /\ [][Next]_vars

-----------------------------------------------------------------------------
\* What the two loops agree on: a written length is read back, whole and in
\* varintLen bytes, never reported as malformed; and with nonMinimalVarint,
\* "exactly one encoding per value", bytes that are accepted are the ones
\* appendVarint writes for the value they have.
LengthsRoundTrip ==
  /\ FromLength =>
       /\ pc # "malformed"
       /\ pc \in {"check", "accepted", "toolarge"} =>
            value = given.length /\ n = Len(buf) /\ n = varintLen(value)
  /\ ~FromLength /\ pc = "accepted" => buf = SubSeq(given.bytes, 1, n)

\* ReadFrame: the limit "caps the TOTAL packet size", header and length
\* field included, at every limit from 0 to the largest uint32.
LimitIsTotalSize ==
  /\ pc = "toolarge" => 1 + n + value > maxPacketSize
  /\ pc = "accepted" => 1 + n + value <= maxPacketSize

=============================================================================
