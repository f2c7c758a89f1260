SPECIFICATION FairSpec
CONSTANTS
  Keys <- ThreeKeys
  Threads = {t1, t2}
  Capacity = 2
  HashModulus = 8
  Hash <- SameHash
  Rows <- SomeRows
  NoRow = NoRow
INVARIANTS
  TypeOK
  MapInv
  KeyHasOneSlot
  CountAgreesWithSlots
  ExhaustedOnlyWhenFull
PROPERTIES
  VisibleRowOnlyAdvances
  ImplementsAtomicMap
  EveryCallReturns
