SPECIFICATION Spec
CONSTANTS
  Log <- ThreeLogs
  Sent <- AllButOne
  Topic <- TwoTopics
  Requests <- SomeRequests
  kInt64Max = 9
  MaxFaults = 1
  MaxRebalances = 1
INVARIANTS
  CommitLeavesNoGap
  HandlesReleasedOnce
PROPERTY
  WhatIsAheadIsCommitted
