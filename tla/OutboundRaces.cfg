SPECIFICATION Spec
CONSTANTS
  p1 = p1  p2 = p2  q1 = q1  s1 = s1  s2 = s2  u1 = u1  f1 = f1
  None = None  Previous = Previous
  MaxId = 1
  Qos1 = {p1}
  Qos2 = {q1}
  Subs = {}
  Unsubs = {}
  Filters = {}
  LeftoverIds = {}
  MaxLinks = 2
  RecvMaxes = {1}
  CleanStart = FALSE
  Stalls = {"cleanup", "reuse"}
INVARIANTS
  
  NoOverCredit
  ExactlyOnce
  HealthyLinkHasHealthyQuota
CHECK_DEADLOCK FALSE
