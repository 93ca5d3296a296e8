SPECIFICATION PipelineSpec
CONSTANTS
  Null = Null
  Absent = Null
  s1 = s1
  s2 = s2
  c1 = c1
  g1 = g1
  Sessions = {s1}
  Owners = {o1}
  Runtimes = {t1}
  Requests <- AllKinds
  GlobalLimit = 1
  LeaseTime = 1
  RetryDelays = {0}
  MaxAttempts = 2
  MaxSequence = 2
  MaxNow = 0
  Runs = {g1}
  Conversations = {c1}
  Messages = {m1, m2}
  Projections <- ProjectionIds
  MaxRevision = 1
  MaxMessages = 3
  Processes = {p1, p2}
  Endings <- FailureOnly
  Updates <- FewUpdates
INVARIANTS
  ProjectedIsPublished
  AnswersFollowTheirQuestion
PROPERTIES
  ResultsMoveForward
CHECK_DEADLOCK FALSE
