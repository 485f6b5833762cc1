\* Issues of GitHub below a closed root, one the parent of the other, a Redis broker and an
\* executor that registers late: items come back when their ack is late or a failure is
\* transient, the tree cannot be read or the mastermind restarts.  Two of these together,
\* at any step.
SPECIFICATION Spec
CONSTANTS
  r = r
  t1 = t1
  t2 = t2
  noTask = noTask
  e1 = e1
  e2 = e2
  NoTask = noTask
  Task = {r, t1, t2}
  Root = r
  Parent <- Nested
  DependsOn <- NoChain
  DependencyKey = "dependencies"
  Backpressure = 100
  Bus = "redis"
  BackendType = "github"
  Executor = {e1}
  Slots = 1
  InitiallyUp = {}
  Matches <- ByAnyone
  Accepts <- ByAnyone
  InitialStatus <- RootClosed
  Room = 1
  Ids = {1, 2}
  MaxDeliveries = 2
  Faults = {"late", "transient", "outage", "restart"}
  MaxFaults = 2
INVARIANTS
  DependenciesFirst
