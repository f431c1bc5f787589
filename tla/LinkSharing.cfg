SPECIFICATION FairSpec
CONSTANTS
  Writers = {"writer"}
  MaxFrames = 1
  MaxPings = 1
INVARIANTS
  LostMeansFailed
  WatchdogIsPatient
PROPERTIES
  DeadLinkIsCleared
  DisconnectReturns
  WaitsEnd
CHECK_DEADLOCK FALSE
