SPECIFICATION Spec
CONSTANTS
  Kind = {a, b}
  Zone = {none, utc}
  NoZone = none
  Normal = Normal
  Semantic = {a, b}
  Message <- OneMessage
  MaxTime = 2
  Minute = 3
  MaxGone = 1
  MaxRows = 1
  BatchSize = 2
  LogLine = {i1, i2, i3}
  ConsumerBatch = 1
INVARIANTS TypeOK NothingPassedOver AnalysedOnce
SYMMETRY Symmetry
CHECK_DEADLOCK FALSE
