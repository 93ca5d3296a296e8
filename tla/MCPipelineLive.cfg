SPECIFICATION FairPipelineSpec
CONSTANTS
  Null = Null
  Absent = Null
  s1 = s1
  s2 = s2
  c1 = c1
  g1 = g1
  Sessions = {s1, s2}
  Owners = {o1}
  Runtimes = {t1}
  Requests <- AgentAndChat
  GlobalLimit = 1
  LeaseTime = 1
  RetryDelays = {0}
  MaxAttempts = 1
  MaxSequence = 2
  MaxNow = 0
  Runs = {g1}
  Conversations = {c1}
  Messages = {m1}
  Projections <- ProjectionIds
  MaxRevision = 0
  MaxMessages = 1
  Processes = {p1}
  Endings <- FailureOnly
  Updates <- OneUpdate
PROPERTIES
  CommittingEndsOrConflicts
CHECK_DEADLOCK FALSE
