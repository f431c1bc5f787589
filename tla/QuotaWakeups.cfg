SPECIFICATION FairSpec
CONSTANTS
  Callers = {p1, p2, p3}
  MaxPermits = 1
  MaxBroadcasts = 4
INVARIANTS
  NoMissedWakeup
  
PROPERTIES
  ImplementsSemaphore
CHECK_DEADLOCK FALSE
