SPECIFICATION Spec
CONSTANTS
  Plan = {p}
  Content = {v1}
  Key = {}
  NoContent = NoContent
  Client = {c1, c2}
  MaxExec = 1
  NSteps = 1
  MaxAttempts = 1
  AutoAllowed = {v1}
  Malformed = {}
  Misplaced = {}
  Mutating = {}
  Idempotent = {}
  Snapshot = TRUE
  Rollback = TRUE
INVARIANT PausedIsListed
