SPECIFICATION Spec
CONSTANTS
  None = None
  kUInt32Max = 4294
  kUInt64Max = 99999
  StableHash <- SmallHash
  kDefaultShardCount = 2
  SchemaFiles <- AllSchemaFiles
  Inputs <- AllInputs
  Keys <- FourKeys
  Index <- TwoShards
  RealtimeModes = {FALSE}
  Invocations <- NoInvocations
  LibraryCalls <- SparseFile
  Artifacts <- AllArtifacts
  Paths <- TwoPaths
  MaxBuilds = 1
  MaxDamages = 0
INVARIANT
  WrittenArtifactIsAccepted
