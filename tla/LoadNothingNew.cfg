SPECIFICATION FairSpec

CONSTANTS
  MaxLoads = 1
  ShardCount = 1
  KafkaModes = {TRUE}
  Partitions = {p1}
  MaxOffset = 1
  Artifacts <- CurrentArtifact
  InitialHigh <- SameHigh
  InitialCommitted <- SameCommitted
  High = 1
  GroupOffset <- NewGroup

PROPERTIES
  LoadsEnd

CHECK_DEADLOCK FALSE
