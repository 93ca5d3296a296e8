SPECIFICATION EngineSpec
CONSTANTS
  Null = Null
  s1 = s1
  s2 = s2
  c1 = c1
  c2 = c2
  b1 = b1
  Sessions = {s1, s2}
  Owners = {o1, o2}
  Runtimes = {r1}
  Requests <- TwoTurns
  GlobalLimit = 2
  LeaseTime = 2
  RetryDelays = {0}
  MaxAttempts = 2
  MaxSequence = 2
  MaxNow = 2
  WorkerCount = 2
  Reports <- AnswerOrFailure
  TimelyRenewal = TRUE
INVARIANTS
  BusyWorkersReturn
  OneDriver
CONSTRAINT OneLongOrTwoShort
CHECK_DEADLOCK FALSE
