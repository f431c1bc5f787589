SPECIFICATION FairSpec
CONSTANTS
  a = a  b = b  c = c
  Publishes = {a, b, c}
  FailureThreshold = 2
  HalfOpenMax = 2
  CallbackPanics = FALSE
  MaxEpoch = 4
INVARIANTS
  ProbesAccounted
  CallbacksFormChain
  QueueHasDrainer
PROPERTIES
  
  StaleOutcomesDiscarded
CHECK_DEADLOCK FALSE
