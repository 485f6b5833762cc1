\* Two tasks below a closed root, the second depending on the first, in a tracker that
\* lists dependencies under the key the shipped trackers write.  Nothing fails.
SPECIFICATION Spec
CONSTANTS
  r = r
  t1 = t1
  t2 = t2
  noTask = noTask
  e1 = e1
  e2 = e2
  NoTask = noTask
  Task = {r, t1, t2}
  Root = r
  Parent <- BelowRoot
  DependsOn <- RootChain
  DependencyKey = "dependencies"
  Backpressure = 100
  Bus = "memory"
  BackendType = "tk"
  Executor = {e1}
  Slots = 1
  InitiallyUp = {e1}
  Matches <- ByAnyone
  Accepts <- ByAnyone
  InitialStatus <- RootClosed
  Room = 1
  Ids = {1, 2, 3}
  MaxDeliveries = 1
  Faults = {}
  MaxFaults = 0
INVARIANTS
  TrackerDependenciesFirst
