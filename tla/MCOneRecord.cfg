SPECIFICATION Spec
CONSTANTS
  Plan = {p}
  Content = {v1}
  Key = {j, k}
  NoContent = NoContent
  Client = {c1, c2}
  MaxExec = 2
  NSteps = 1
  MaxAttempts = 1
  AutoAllowed = {}
  Malformed = {}
  Misplaced = {}
  Mutating = {}
  Idempotent = {}
  Snapshot = FALSE
  Rollback = FALSE
INVARIANT OneRecordPerPlan
