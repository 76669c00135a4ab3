SPECIFICATION FairSpec
CONSTANTS
  Kind = {a}
  Zone = {none}
  NoZone = none
  Message <- OneMessage
  Normal = Normal
  Semantic = {}
  MaxTime = 2
  Minute = 2
  MaxGone = 0
  MaxRows = 2
  BatchSize = 2
  LogLine = {1, 2, 3}
  ConsumerBatch = 1
PROPERTY Drains
CHECK_DEADLOCK FALSE
