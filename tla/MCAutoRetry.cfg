SPECIFICATION Spec
CONSTANTS
  Plan = {p}
  Content = {v1}
  Key = {}
  NoContent = NoContent
  Client = {}
  MaxExec = 1
  NSteps = 1
  MaxAttempts = 1
  AutoAllowed = {v1}
  Malformed = {}
  Misplaced = {}
  Mutating = {1}
  Idempotent = {}
  Snapshot = TRUE
  Rollback = TRUE
INVARIANT FailureAwaitsHuman
CHECK_DEADLOCK FALSE
