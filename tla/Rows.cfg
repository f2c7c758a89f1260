SPECIFICATION Spec
CONSTANTS
  None = None
  Deployments <- TwoDeployments
  Targets = {serving, rebuild}
  SchemaVersion = 3
INVARIANTS
  LayoutIsSound
  RowsReadBack
  TargetsAgree
  FieldIdKeepsItsMeaning
  ArtifactLayoutIsExact
