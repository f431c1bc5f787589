SPECIFICATION FairSpec
CONSTANTS
  s1 = s1  s2 = s2  t1 = t1  None = None
  Starts = {s1, s2}
  Stops = {t1}
  InitialBackoff = 1
  MaxBackoff = 3
  Attempts <- TwoAttempts
  MaxAttempts = 2
  MaxDrops = 2
  MaxConnects = 3
INVARIANTS
  StopIsFinal
  DropIsNoticed
  TokensAreDrops
  RetryIsTruthful
PROPERTIES
  DropLeadsToAttempt
CHECK_DEADLOCK FALSE
