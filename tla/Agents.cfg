\* Every accepted configuration of Pipelines, up to four runs of a stage; one interval of
\* silence is too much; the three session backends; a silence of two
\* heartbeats.
SPECIFICATION AgentSpec
CONSTANTS
  GoodFiles = {"v1", "v2"}
  BadFiles = {"v3"}
  MaxFileChanges = 2
  Configs <- Pipelines
  MaxRuns = 4
  Timeout = 1
  Backends = {"serve", "stdin", "appserver"}
  MaxThoughts = 2
  WarnAfter = 2
INVARIANTS
  AgentTypeOK
  BudgetIsKept
  WatcherIsCurrent
  SuccessIsEarned
  SilenceIsReal
  NothingLeft
PROPERTIES
  RunsComeToAnEnd
CHECK_DEADLOCK FALSE
