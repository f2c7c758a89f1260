SPECIFICATION FairSpec
CONSTANTS
  MaxLoads = 2
  ShardCount = 2
  KafkaModes = {TRUE, FALSE}
  Partitions = {p1}
  MaxOffset = 1
  Artifacts <- CurrentArtifact
  InitialHigh <- SameHigh
  InitialCommitted <- SameCommitted
  High = 1
  GroupOffset <- NewGroup
INVARIANTS
  TypeOK
  CutoverIsReported
  ReturnedLoadIsSettled
  PartialCutoverIsReported
PROPERTIES
  ImplementsLoadReports
  DestructorReturns
  CancelledLoadReturns
CHECK_DEADLOCK FALSE
