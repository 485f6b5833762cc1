\* Two unrelated tasks below a closed root compete for one slot; snapshots and diffs may
\* wait while newer trees are read.  Liveness: no symmetry, no failures.
SPECIFICATION FairSpec
CONSTANTS
  r = r
  t1 = t1
  t2 = t2
  noTask = noTask
  e1 = e1
  e2 = e2
  NoTask = noTask
  Task = {r, t1, t2}
  Root = r
  Parent <- BelowRoot
  DependsOn <- NoChain
  DependencyKey = "dependencies"
  Backpressure = 100
  Bus = "memory"
  BackendType = "tk"
  Executor = {e1}
  Slots = 1
  InitiallyUp = {e1}
  Matches <- ByAnyone
  Accepts <- ByAnyone
  InitialStatus <- RootClosed
  Room = 1
  Ids = {1, 2, 3}
  MaxDeliveries = 1
  Faults = {"lag"}
  MaxFaults = 0
INVARIANTS
  WithinCapacity
PROPERTIES
  QueueDrains
