SPECIFICATION FairEngineSpec
CONSTANTS
  Null = Null
  s1 = s1
  s2 = s2
  c1 = c1
  c2 = c2
  b1 = b1
  Sessions = {s1}
  Owners = {o1}
  Runtimes = {r1}
  Requests <- ChatTurns
  GlobalLimit = 2
  LeaseTime = 1
  RetryDelays = {0}
  MaxAttempts = 2
  MaxSequence = 1
  MaxNow = 1
  WorkerCount = 2
  Reports <- AnswerOrFailure
  TimelyRenewal = FALSE
PROPERTIES
  WorkersReturnToIdle
CHECK_DEADLOCK FALSE
