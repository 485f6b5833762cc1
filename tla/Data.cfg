\* Two goroutines and two tasks for the state file, and one crash; two reporters and two calls to
\* GitHub, one refusal, one crash or one change by others; two workers and two writes to the
\* other trackers; two callers of the engine; all the checks with two retries.
SPECIFICATION DataSpec
SYMMETRY Goroutines
CONSTANTS
  Tasks = {t1, t2}
  DataKeys = {triage_reason}
  DataVals = {v1}
  Absent = Absent
  Clients = {c1, c2}
  None = None
  MaxCrashes = 1
  Repo <- TwoTasks
  Reporters = {c1, c2}
  Reports = {"open", "blocked", "closed"}
  Settings = {"d1"}
  MaxCalls = 2
  MaxRefusals = 1
  MaxUpsets = 1
  Boards <- SomeBoards
  Workflows <- SomeWorkflows
  Workers = {c1, c2}
  Keys = 2
  Written = {"a", "b"}
  MaxWrites = 2
  Trees <- SomeTrees
  Callers = {c1, c2}
  WorkerLimit = 3
  Standing = {"open", "closed", "in_progress"}
  OthersSet = {"a"}
  GateOptions <- SomeOptions
  Descriptions <- SomeDescriptions
  MaxTaskRetries = 2
INVARIANTS
  DataTypeOK
  SnapshotCurrent
  GitHubAgrees
  TreeIsFaithful
  WriteIsKept
  GraphIsSound
  WorkFollowsGraph
  GatesHold
PROPERTIES
  SetsAreAtomic
CHECK_DEADLOCK FALSE
