SPECIFICATION Spec
CONSTANTS
  Keys <- TwoKeys
  Partitions <- TwoPartitions
  FullKeys <- FirstKey
  ReaderKeys <- FirstKey
  MaxMessages = 3
  MaxGeneration = 3
  MaxRewinds = 1
  Capacity = 1
  UsesCompactDelta = TRUE
  NoRow = NoRow
  NoSnapshot = NoSnapshot
INVARIANTS
  TypeOK
  ScanMatchesMap
  ServesAcknowledged
PROPERTIES
  CompactionInputIsFrozen
  ImplementsServedRows
CONSTRAINT
  UntilDisturbed
CHECK_DEADLOCK FALSE
