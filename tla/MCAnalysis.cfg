SPECIFICATION FairSpec
CONSTANTS
  Window = 1
  MinClusterSize = 2
  Settings <- MCSettings
  Anomaly <- MCAnomaly
  Batch <- MCBatch
  Draft <- MCDraft
  NoContainer = "none"
  MaxIterations = 10
  RecursionLimit = 25
  MaxReports = 2
INVARIANTS TypeOK CapBeforeLimit TaintedNeverAuto PlanFitsEvidence ProfileExact LoneLeftOut
PROPERTIES TableSpec Concludes
