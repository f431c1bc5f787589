SPECIFICATION Spec
CONSTANTS
  a = a  b = b  c = c  d = d  u = u  g = g  h = h  None = None
  Subscribes = {a, b, c, d}
  Unsubscribes = {u}
  Filters = {g, h}
  FilterOf <- TwoFilters
  SubIDOf <- SameID
  Windows = {}
  MaxReconnects = 2
SYMMETRY Alike
CONSTRAINT Mixes
INVARIANTS
  
  StampedRunsOnce
  LoneFailureIsRolledBack
CHECK_DEADLOCK FALSE
