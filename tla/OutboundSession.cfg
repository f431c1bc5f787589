SPECIFICATION Spec
CONSTANTS
  p1 = p1  p2 = p2  q1 = q1  s1 = s1  s2 = s2  u1 = u1  f1 = f1
  None = None  Previous = Previous
  MaxId = 1
  Qos1 = {}
  Qos2 = {q1}
  Subs = {s1}
  Unsubs = {u1}
  Filters = {f1}
  LeftoverIds = {}
  MaxLinks = 2
  RecvMaxes = {1}
  CleanStart = FALSE
  Stalls = {}
CONSTRAINT Mixes
INVARIANTS
  PermitsConserved
  NoSharedIdentifier
  NothingLost
  NobodyStranded
  
CHECK_DEADLOCK FALSE
