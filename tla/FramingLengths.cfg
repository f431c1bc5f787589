SPECIFICATION Spec
CONSTANTS
  Radix = 3
  Width = 100
  Lengths <- AllLengths
  Inputs <- AllInputs
  Limits <- AllLimits
INVARIANTS
  LengthsRoundTrip
  LimitIsTotalSize
CHECK_DEADLOCK FALSE
