SPECIFICATION Spec
CONSTANTS
  Null = Null
  s1 = s1
  s2 = s2
  s3 = s3
  o1 = o1
  o2 = o2
  c1 = c1
  b1 = b1
  r1 = r1
  r2 = r2
  Sessions = {s1}
  Owners = {o1, o2}
  Runtimes = {i1, i2}
  Requests <- AgentRequests
  GlobalLimit = 1
  LeaseTime = 1
  RetryDelays = {1}
  MaxAttempts = 3
  MaxSequence = 3
  MaxNow = 2
SYMMETRY Symmetry
INVARIANTS
  TypeOK
  AssignmentConsistent
  OutboxConsistent
PROPERTIES
  CancelWins
  JournalFollowsAttempts
  RuntimeBoundOnce
  StagedResultKept
  EndedAttemptsAreInert
CHECK_DEADLOCK FALSE
