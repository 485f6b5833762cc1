\* Two workers, two independent tasks, one retry of each kind, a stop
\* channel, a budget of two tasks a run, and two crashes or restarts at any step (the
\* second may hit the recovery from the first).  On tk a task that ends blocked or
\* failed is open again, and counts again.
\* The system stops when its run ends: deadlock is not an error.
SPECIFICATION Spec
CONSTANTS
  t1 = t1
  t2 = t2
  Trackers = {"tk", "github"}
  Tasks = {t1, t2}
  Deps <- NoDeps
  Workers = {w1, w2}
  None = None
  MaxRetries = 1
  MaxTasks = 2
  RequireReview = TRUE
  MergeOnSuccess = TRUE
  HasFallbackModel = FALSE
  StopChannel = TRUE
  Gates = FALSE
  MaxRestarts = 2
  MaxFaults = 0
INVARIANTS
  TypeOK
  TaskRunByOne
  PushBuildsOnRemote
  LandedIsNotRerun
  ReportsAreTrue
  TaskBudget

  
SYMMETRY LoopSymmetry
CHECK_DEADLOCK FALSE
