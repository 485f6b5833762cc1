\* A crash after the state file says completed and before the push.
SPECIFICATION Spec
CONSTANTS
  t1 = t1
  t2 = t2
  Trackers = {"tk", "github"}
  Tasks = {t1, t2}
  Deps <- NoDeps
  Workers = {w1, w2}
  None = None
  MaxRetries = 0
  MaxTasks = 0
  RequireReview = TRUE
  MergeOnSuccess = TRUE
  HasFallbackModel = FALSE
  StopChannel = FALSE
  Gates = FALSE
  MaxRestarts = 1
  MaxFaults = 0
INVARIANTS
  ClosedIsLanded
CHECK_DEADLOCK FALSE
