SPECIFICATION AttemptsSpec
CONSTANTS
  MaxAttempt = 2
  MaxCalls = 1
INVARIANTS
  ApprovalSpentOnce
CHECK_DEADLOCK FALSE
