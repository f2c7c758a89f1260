SPECIFICATION FairSpec
CONSTANTS
  MaxLoads = 1
  ShardCount = 2
  KafkaModes = {TRUE}
  Partitions = {p1, p2}
  MaxOffset = 2
  Artifacts <- BehindArtifacts
  InitialHigh <- SameHigh
  InitialCommitted <- SameCommitted
  High = 1
  GroupOffset <- NewGroup
INVARIANTS
  CutoverCoversLog
  CommittedIsApplied
PROPERTIES
  LoadsEnd
CHECK_DEADLOCK FALSE
