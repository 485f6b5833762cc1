\* The default tracker, NATS and two executors, one of which lacks an ability the first task
\* needs; two tasks below a closed root, one the parent of the other; a failing runner or
\* tracker write, a lost event, an expired or a stopping executor at any step.
SPECIFICATION Spec
CONSTANTS
  r = r
  t1 = t1
  t2 = t2
  noTask = noTask
  e1 = e1
  e2 = e2
  NoTask = noTask
  Task = {r, t1, t2}
  Root = r
  Parent <- Nested
  DependsOn <- NoChain
  DependencyKey = "dependencies"
  Backpressure = 100
  Bus = "nats"
  BackendType = "tk"
  Executor = {e1, e2}
  Slots = 1
  InitiallyUp = {e1, e2}
  Matches <- ByAnyone
  Accepts <- FirstByOne
  InitialStatus <- RootClosed
  Room = 1
  Ids = {1, 2}
  MaxDeliveries = 1
  Faults = {"fails", "write", "stop", "drop", "expiry"}
  MaxFaults = 1
INVARIANTS
  TypeOK
  RunsAlone
