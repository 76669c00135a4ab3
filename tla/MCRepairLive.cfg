SPECIFICATION FairSpec
CONSTANTS
  Plan = {p, q}
  Content = {v1}
  Key = {}
  NoContent = NoContent
  Client = {}
  MaxExec = 2
  NSteps = 1
  MaxAttempts = 1
  AutoAllowed = {v1}
  Malformed = {}
  Misplaced = {}
  Mutating = {1}
  Idempotent = {}
  Snapshot = FALSE
  Rollback = TRUE
PROPERTY Settles
CHECK_DEADLOCK FALSE
