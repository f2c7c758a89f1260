SPECIFICATION Spec
CONSTANTS
  None = None
  kUInt32Max = 4294
  kUInt64Max = 99999
  StableHash <- SmallHash
  kDefaultShardCount = 2
  SchemaFiles <- AllSchemaFiles
  Inputs <- AllInputs
  Keys <- FourKeys
  Index <- TwoShards
  RealtimeModes = {TRUE, FALSE}
  Invocations <- AllInvocations
  LibraryCalls <- WholeFile
  Artifacts <- AllArtifacts
  Paths <- TwoPaths
  MaxBuilds = 2
  MaxDamages = 1
INVARIANTS
  LookupSeesWholeRows
  AcceptedFileIsAsWritten
  LoadedBuildIsServed
  FinishedBuildIsWhole
