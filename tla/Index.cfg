SPECIFICATION Spec
CONSTANTS
  Keys <- EightKeys
  HashWidth = 1024
  H2Divisor = 8
  Hash <- WrappingHash
  GroupWidth = 8
  RowSlotSize = 2
  MaxRows = 8
  MaxDoublings = 2
  MaxChanges = 3
  ChangedKeys <- ThreeKeys
CHECK_DEADLOCK FALSE
INVARIANTS
  BuildLeavesAnEmptySlot
  BuiltIndexIsExact
  AcceptedIndexIsConsistent
