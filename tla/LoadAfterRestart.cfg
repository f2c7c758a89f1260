SPECIFICATION Spec

CONSTANTS
  MaxLoads = 1
  ShardCount = 2
  KafkaModes = {TRUE}
  Partitions = {p1}
  MaxOffset = 1
  Artifacts <- BehindArtifacts
  InitialHigh <- SameHigh
  InitialCommitted <- SameCommitted
  High = 1
  GroupOffset = 1

INVARIANTS
  CutoverCoversLog

CHECK_DEADLOCK FALSE
