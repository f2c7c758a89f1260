SPECIFICATION Spec

CONSTANTS
  Keys <- OneKey
  Partitions <- OnePartition
  FullKeys <- FirstKey
  ReaderKeys <- NoKeys
  MaxMessages = 2
  MaxGeneration = 2
  MaxRewinds = 1
  Capacity = 1
  UsesCompactDelta = TRUE
  NoRow = NoRow
  NoSnapshot = NoSnapshot

INVARIANTS
  ReplayIsSafe

CHECK_DEADLOCK FALSE
