CONSTANTS
  BuiltIns <- MCBuiltIns
  Proof = 2
  examples = examples
  Dirs <- MCDirs
  Example = examples
  NoDir = NoDir
  NoName = NoName
  Contents <- MCContents
  Stems <- MCStems
  DashNames = {"--x"}
  Configs <- MCConfigs
  MaxEdits = 1
SPECIFICATION Spec
CHECK_DEADLOCK FALSE
INVARIANT SameCaseSameRules
INVARIANT UnmeteredOnlyAllowed
INVARIANT ManifestHonoured
