SPECIFICATION Spec
CONSTANTS
  Outgoing <- AllPackets
  Foreign <- ForeignFrames
  MaxSent = 2
  maxPacketSize = 200
INVARIANTS
  StreamInStep
  AcceptedIsExpressible
CHECK_DEADLOCK FALSE
