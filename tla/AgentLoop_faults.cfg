\* Two tasks, the second depending on the first, one retry of each kind, all gates, the
\* fallback model, a budget, a failing call of the tracker, git or the disk anywhere,
\* and a crash or restart anywhere, on tk, which shows a task that ended blocked or
\* failed as open.  Liveness: no symmetry.
\* The system stops when its run ends: deadlock is not an error.
SPECIFICATION FairSpec
CONSTANTS
  t1 = t1
  t2 = t2
  Trackers = {"tk"}
  Tasks = {t1, t2}
  Deps <- ChainDeps
  Workers = {w1, w2}
  None = None
  MaxRetries = 1
  MaxTasks = 2
  RequireReview = TRUE
  MergeOnSuccess = TRUE
  HasFallbackModel = TRUE
  StopChannel = FALSE
  Gates = TRUE
  MaxRestarts = 1
  MaxFaults = 1
INVARIANTS
  InProgressIsRecorded
  DependenciesHold
  ReviewComesFirst
PROPERTIES
  RunEnds
CHECK_DEADLOCK FALSE
