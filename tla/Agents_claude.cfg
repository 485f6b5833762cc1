SPECIFICATION AgentSpec
CONSTANTS
  GoodFiles = {"v1", "v2"}
  BadFiles = {"v3"}
  MaxFileChanges = 2
  Configs <- Pipelines
  MaxRuns = 4
  Timeout = 1
  Backends = {"stdin"}
  MaxThoughts = 2
  WarnAfter = 2
PROPERTY SuccessIsReturned
CHECK_DEADLOCK FALSE
