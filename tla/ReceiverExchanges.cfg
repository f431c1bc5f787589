SPECIFICATION FairSpec
CONSTANTS
  m1 = m1  m2 = m2  m3 = m3  x = x  y = y  None = None
  Messages = {m1, m2, m3}
  Qos2 = {m1, m2}
  Topics = {x, y}
  TopicOf <- OneTopicEach
  TopicAliasMaximum = 1
  Windows = {}
  MaxLinks = 2
  MaxId = 1
INVARIANTS
  ExactlyOnceReceived
  AcknowledgedMeansDelivered
  NoOrphanRecord
  TopicsResolved
PROPERTIES
  ExchangesComplete
CHECK_DEADLOCK FALSE
