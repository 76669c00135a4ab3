SPECIFICATION Spec
CONSTANTS
  Plan = {p}
  Content = {v1}
  Key = {k}
  NoContent = NoContent
  Client = {c1}
  MaxExec = 1
  NSteps = 2
  MaxAttempts = 2
  AutoAllowed = {v1}
  Malformed = {}
  Misplaced = {}
  Mutating = {1, 2}
  Idempotent = {1}
  Snapshot = TRUE
  Rollback = TRUE
INVARIANTS TypeOK InOrder PausedIsListed
PROPERTIES NoBlindRepeat LifecycleSpec
