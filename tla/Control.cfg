\* One task of two tries on two executors, one of which registers late; four commands on
\* two backends; four service calls of one asker, two of them under one key; three
\* rounds of two roots; two emitters and four events; three tasks of which three events and
\* a key reach the monitor.  One fault of any kind.
SPECIFICATION ControlSpec
CONSTANTS
  e1 = e1
  e2 = e2
  j1 = j1
  c1 = c1
  c2 = c2
  c3 = c3
  c4 = c4
  r1 = r1
  r2 = r2
  r3 = r3
  r4 = r4
  Workers = {e1, e2}
  Settled = {e1}
  Skills <- BothSkills
  Jobs = {j1}
  Needs <- JobNeeds
  Tries = 2
  Attempts = 2
  Unassigned = unassigned
  DispatchFaults = {"lost", "shutdown"}
  MaxDispatchFaults = 1
  Commands = {c1, c2, c3, c4}
  Stores = {"b1", "b2"}
  Targets <- CommandStores
  Commented = {c1}
  Flaw <- CommandFlaws
  MaxSends <- CommandSends
  MaxVersion = 3
  StatusFaults = {"write", "comment", "restart", "lost"}
  MaxStatusFaults = 1
  Requests = {r1, r2, r3, r4}
  Askers = {"a1"}
  AskedBy <- RequestAsker
  Key <- RequestKey
  Service <- RequestService
  Policy <- RequestPolicy
  ServiceAttempts = 2
  ServiceRoom = 1
  Nobody = nobody
  GraphRefs = {"g1", "g2"}
  BackendType <- RootBackend
  GraphTasks <- RootTasks
  SyncStatuses = {}
  Filters <- FeedFilters
  FeedRoom = 1
  MaxSyncs = 3
  Emitters = {"w1", "w2"}
  MaxEvents = 4
  MaxPending = 2
  MirrorRoom = 1
  ViewTasks <- TaskOrder
  ViewWorkers <- WorkerOrder
  Takers <- TaskTakers
  Place <- TaskPlaces
  Relations <- TaskRelations
  Viewers <- SomeViewers
  PanelRowLimit = 9
  ViewportHeight = 4
  OutputBufCap = 1
  MaxViewEvents = 3
  MaxKeys = 1
INVARIANTS
  ControlTypeOK
  DispatchIsSound
  AnswerIsTrue
  CallsAreMatched
  CopyIsCurrent
  EventsAreAccounted
  ViewIsTrue
PROPERTIES
  ExpectedIsOverwritten
CHECK_DEADLOCK FALSE
