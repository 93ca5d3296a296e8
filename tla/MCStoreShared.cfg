SPECIFICATION Spec
CONSTANTS
  Null = Null
  s1 = s1
  s2 = s2
  s3 = s3
  o1 = o1
  o2 = o2
  c1 = c1
  b1 = b1
  r1 = r1
  r2 = r2
  Sessions = {s1, s2, s3}
  Owners = {o1, o2}
  Runtimes = {i1}
  Requests <- PoolRequests
  GlobalLimit = 2
  LeaseTime = 1
  RetryDelays = {0}
  MaxAttempts = 2
  MaxSequence = 3
  MaxNow = 1
SYMMETRY Symmetry
CONSTRAINT PairOrPool
INVARIANTS
  CapacityBound
  ExclusiveOwnership
PROPERTIES
  EverySessionLives
CHECK_DEADLOCK FALSE
