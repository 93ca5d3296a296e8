SPECIFICATION FairEngineSpec
CONSTANTS
  Null = Null
  s1 = s1
  s2 = s2
  c1 = c1
  c2 = c2
  b1 = b1
  Sessions = {s1}
  Owners = {o1}
  Runtimes = {r1}
  Requests <- ChatTurns
  GlobalLimit = 2
  LeaseTime = 2
  RetryDelays = {0}
  MaxAttempts = 2
  MaxSequence = 2
  MaxNow = 2
  WorkerCount = 2
  Reports <- AnswerOrFailure
  TimelyRenewal = TRUE
PROPERTIES
  WorkersReturnToIdle
  CancellingEnds
  CommittingEnds
CHECK_DEADLOCK FALSE
