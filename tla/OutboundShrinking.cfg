SPECIFICATION Spec
CONSTANTS
  p1 = p1  p2 = p2  q1 = q1  s1 = s1  s2 = s2  u1 = u1  f1 = f1
  None = None  Previous = Previous
  MaxId = 2
  Qos1 = {p1, p2}
  Qos2 = {}
  Subs = {}
  Unsubs = {}
  Filters = {}
  LeftoverIds = {}
  MaxLinks = 2
  RecvMaxes = {1, 2}
  CleanStart = FALSE
  Stalls = {}
CONSTRAINT Shrinking
SYMMETRY Interchangeable
INVARIANTS
  CeilingRespected
CHECK_DEADLOCK FALSE
