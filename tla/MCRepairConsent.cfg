SPECIFICATION Spec
CONSTANTS
  Plan = {p}
  Content = {v1, v2, bad}
  Key = {k}
  NoContent = NoContent
  Client = {c1}
  MaxExec = 1
  NSteps = 1
  MaxAttempts = 1
  AutoAllowed = {v2}
  Malformed = {bad}
  Misplaced = {v2}
  Mutating = {}
  Idempotent = {}
  Snapshot = TRUE
  Rollback = FALSE
INVARIANT Consent
