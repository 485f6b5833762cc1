---------------------------- MODULE QueueScheduling ----------------------------
(* The mastermind's scheduler at work with the executors' queue runtimes: the     *)
(* goroutines started by Mastermind.Start (internal/distributed/mastermind.go),   *)
(* the scheduler of mastermind_scheduler.go, the bus's pub/sub channels and       *)
(* queue, the executor registry, QueueWorkerRuntime (worker_runtime.go) and the   *)
(* tracker that holds the tasks.                                                  *)
EXTENDS MastermindScheduler, TaskQueue

CONSTANTS
    BackendType,   \* the tracker: "tk", "beads", "linear" or "github"
    Executor,      \* executors (queue worker runtimes)
    Slots,         \* maxConcurrency of each executor
    InitiallyUp,   \* executors registered before the first graph is read
    Matches,       \* Matches[t]: executors whose advertisement satisfies t
    Accepts,       \* Accepts[t]: executors whose own check lets t through
    InitialStatus, \* the tracker's statuses at the start
    Room,          \* capacity of a subscription's channel (32 in the code)
    Ids,           \* bound: identities of queue items, the items alive at once
    MaxDeliveries, \* bound: unsettled deliveries of one item at a time
    Faults,        \* the failures this instance allows
    MaxFaults      \* bound: how many of them happen

\* What the tracker's next tree says of a task that was given this status.  tk keeps a
\* blocked task open; of GitHub's issues the mastermind sets and reads open or closed.
Shown(status) ==
    CASE BackendType = "tk"     -> IF status = "blocked" THEN "open" ELSE status
      [] BackendType = "github" -> IF status = "closed" THEN "closed" ELSE "open"
      [] OTHER                  -> status

ASSUME SchedulingAssumption ==
    /\ BackendType \in {"tk", "beads", "linear", "github"}
    /\ Slots \in Nat \ {0} /\ Room \in Nat \ {0}
    /\ Ids \subseteq Nat \ {0} /\ MaxDeliveries \in Nat /\ MaxFaults \in Nat
    /\ InitiallyUp \subseteq Executor
    /\ Matches \in [Task -> SUBSET Executor]
    /\ Accepts \in [Task -> SUBSET Executor]
    /\ InitialStatus \in [Task -> Status]
    /\ \A t \in Task : Shown(InitialStatus[t]) = InitialStatus[t]
    /\ Faults \subseteq {"outage", "write", "drop", "workspace", "fails", "transient",
                         "stop", "expiry", "restart", "lag", "late"}

VARIABLES
    tracker,    \* [Task -> Status]: what the task tracker holds
    sched,      \* the scheduler's record
    todo,       \* what the running scheduling round still has to do
    previous,   \* the sync loop: the tree it last published
    snapshots, diffs, monitor, updates, \* the mastermind's subscription channels
    registry,   \* [Executor -> advertisement]
    queue,      \* the bus's work queue
    up,         \* [Executor -> lifecycle]
    held,       \* [Executor -> items received and waiting for a slot]
    slot,       \* [Executor \X slot number -> what runs there]
    done,       \* history: tasks a worker reported completed
    left        \* the bound: failures that may still happen

channels == <<snapshots, diffs, monitor, updates>>
workers  == <<queue, up, held, slot>>
vars     == <<tracker, sched, todo, previous, channels, registry, workers, done, left>>

NoItem  == [id |-> 0, task |-> NoTask]
Item    == [id : Ids, task : Task]
Places  == Executor \X (1 .. Slots)
Idle    == [item |-> NoItem, phase |-> "idle"]
Nothing == [block |-> {}, send |-> {}, mark |-> {}]
Absent  == [slots |-> 0, known |-> FALSE, present |-> FALSE]

Fault(fault) == fault \in Faults /\ left > 0 /\ left' = left - 1

Fine == UNCHANGED left

\* Publish never waits: when a subscriber's channel is full the event is lost.
\* That loss counts as a fault, one fault a step; an instance that has none left
\* waits for room.
Publish(channel, next, event) == Len(channel) < Room /\ next = Append(channel, event)

Lose(channel, next) == Len(channel) = Room /\ next = channel /\ Fault("drop")

Send(channel, next, event) == (Publish(channel, next, event) /\ Fine) \/ Lose(channel, next)

Load(e) == Cardinality({p \in Places : p[1] = e /\ slot[p].phase = "run"})

FreeSlots == Cardinality({p \in Places : p[2] <= registry[p[1]].slots})

\* Tasks some advertised executor satisfies; an advertisement that a heartbeat
\* created carries no capability and satisfies none.
Matched == {t \in Task : \E e \in Matches[t] : registry[e].present /\ registry[e].known}

ItemsInUse == Range(queue.ready) \cup queue.taken
              \cup (UNION {Range(held[e]) : e \in Executor}) \cup {slot[p].item : p \in Places}

\* The identity a new item gets: the least that is free, any would do.
FreeIds ==
    LET free == Ids \ {i.id : i \in ItemsInUse} IN {id \in free : \A other \in free : id <= other}

Deliveries(item) ==
    Cardinality({p \in Places : slot[p].item = item})
    + MapThenSumSet(LAMBDA e : Cardinality({i \in DOMAIN held[e] : held[e][i] = item}), Executor)

\* A nacked item keeps its identity, except that Redis adds a new entry.
NackIds(item) ==
    IF Bus = "redis" THEN FreeIds \cup {id \in {item.id} : Deliveries(item) = 1} ELSE {item.id}

-------------------------------------------------------------------------------
Init ==
    /\ tracker = InitialStatus
    /\ sched = EmptyScheduler
    /\ todo = Nothing
    /\ previous = NoGraph
    /\ snapshots = <<>> /\ diffs = <<>> /\ monitor = <<>> /\ updates = <<>>
    /\ registry = [e \in Executor |->
          IF e \in InitiallyUp THEN [slots |-> Slots, known |-> TRUE, present |-> TRUE] ELSE Absent]
    /\ queue = EmptyQueue
    /\ up = [e \in Executor |-> IF e \in InitiallyUp THEN "up" ELSE "new"]
    /\ held = [e \in Executor |-> <<>>]
    /\ slot = [p \in Places |-> Idle]
    /\ done = {t \in Task : InitialStatus[t] = "closed"}
    /\ left = MaxFaults

-------------------------------------------------------------------------------
(* The mastermind: reading the tracker and keeping the scheduler's record. *)

Changed(before, current) ==
    [upsert |-> Restrict(current, {t \in DOMAIN current :
                    t \notin DOMAIN before \/ before[t] # current[t]}),
     delete |-> DOMAIN before \ DOMAIN current]

NoChange == [upsert |-> NoGraph, delete |-> {}]

\* The sync loop reads the task tree (a root it cannot read is left out) and
\* publishes it, then the difference to what it last published.  The time between
\* the reading and the handling is the time the event waits in its channel; without
\* the fault "lag" it is handled before the next tick, 5 s later.
SyncTaskGraphs ==
    /\ "lag" \in Faults \/ (snapshots = <<>> /\ diffs = <<>>)
    /\ \E tree \in {tracker, NoGraph} :
        /\ (tree = tracker /\ Fine) \/ (tree = NoGraph /\ Fault("outage"))
        /\ Publish(snapshots, snapshots', tree)
        /\ IF Changed(previous, tree) = NoChange THEN UNCHANGED diffs
           ELSE Publish(diffs, diffs', Changed(previous, tree))
        /\ previous' = tree
        /\ UNCHANGED <<tracker, sched, todo, monitor, updates, registry, workers, done>>

HandleSnapshot ==
    /\ snapshots # <<>>
    /\ sched' = ApplySnapshot(sched, Head(snapshots))
    /\ snapshots' = Tail(snapshots)
    /\ UNCHANGED <<tracker, todo, previous, diffs, monitor, updates, registry, workers, done, left>>

HandleDiff ==
    /\ diffs # <<>>
    /\ sched' = ApplyDiff(sched, Head(diffs))
    /\ diffs' = Tail(diffs)
    /\ UNCHANGED <<tracker, todo, previous, snapshots, monitor, updates, registry, workers, done, left>>

\* A worker's event changes the record and is passed on as a status update,
\* unless it repeats that a task has started.
HandleMonitor ==
    /\ monitor # <<>>
    /\ monitor' = Tail(monitor)
    /\ LET event == Head(monitor)
           t == event.task
           Report(status) == Send(updates, updates', [task |-> t, status |-> status])
       IN  CASE event.type = "started" ->
                  /\ sched' = TaskStarted(sched, t)
                  /\ IF t \in sched.inProgress THEN UNCHANGED updates /\ Fine
                     ELSE Report("in_progress")
             [] event.type = "completed" -> sched' = TaskCompleted(sched, t) /\ Report("closed")
             [] event.type = "failed"    -> sched' = TaskFailed(sched, t) /\ Report("blocked")
    /\ UNCHANGED <<tracker, todo, previous, snapshots, diffs, registry, workers, done>>

\* The mastermind writes a status to the tracker; the write may fail, always so in a
\* Linear team without a workflow state for blocked issues.
HandleStatusUpdate ==
    /\ updates # <<>>
    /\ updates' = Tail(updates)
    /\ \/ Fine /\ tracker' = [tracker EXCEPT ![Head(updates).task] = Shown(Head(updates).status)]
       \/ Fault("write") /\ UNCHANGED tracker
       \/ /\ BackendType = "linear" /\ Head(updates).status = "blocked"
          /\ Fine /\ UNCHANGED tracker
    /\ UNCHANGED <<sched, todo, previous, snapshots, diffs, monitor, registry, workers, done>>

-------------------------------------------------------------------------------
(* The mastermind: one scheduling round at a time. *)

\* A tick or a trigger: the round's decisions are taken under the lock ...
Plan ==
    /\ todo = Nothing
    /\ \E plan \in Plans(sched, FreeSlots, Matched) :
          todo' = [block |-> plan.block, send |-> plan.send, mark |-> {}]
    /\ sched' = AfterPlan(sched, Matched)
    /\ UNCHANGED <<tracker, previous, channels, registry, workers, done, left>>

\* ... and carried out without it: first the reports that no executor matches,
ReportBlocked(t) ==
    /\ t \in todo.block
    /\ Send(updates, updates', [task |-> t, status |-> "blocked"])
    /\ sched' = [sched EXCEPT !.blocked = @ \cup {t}]
    /\ todo' = [todo EXCEPT !.block = @ \ {t}]
    /\ UNCHANGED <<tracker, previous, snapshots, diffs, monitor, registry, workers, done>>

\* then each task is put on the queue,
EnqueueTask(t) ==
    /\ todo.block = {} /\ todo.mark = {} /\ t \in todo.send
    /\ \E id \in FreeIds : queue' = Enqueue(queue, [id |-> id, task |-> t])
    /\ todo' = [todo EXCEPT !.send = @ \ {t}, !.mark = {t}]
    /\ UNCHANGED <<tracker, sched, previous, channels, registry, up, held, slot, done, left>>

\* and only then marked.
MarkEnqueued ==
    /\ todo.mark # {}
    /\ sched' = [sched EXCEPT !.enqueued = @ \cup todo.mark]
    /\ todo' = [todo EXCEPT !.mark = {}]
    /\ UNCHANGED <<tracker, previous, channels, registry, workers, done, left>>

\* A new mastermind process: all it knew is gone, the broker's queue is not.
Restart ==
    /\ Fault("restart") /\ Bus # "memory"
    /\ sched' = EmptyScheduler
    /\ todo' = Nothing
    /\ previous' = NoGraph
    /\ snapshots' = <<>> /\ diffs' = <<>> /\ monitor' = <<>> /\ updates' = <<>>
    /\ registry' = [e \in Executor |-> Absent]
    /\ UNCHANGED <<tracker, workers, done>>

-------------------------------------------------------------------------------
(* The executors. *)

\* The registration is published once, when the runtime starts.
Register(e) ==
    /\ up[e] = "new"
    /\ up' = [up EXCEPT ![e] = "up"]
    /\ registry' = [registry EXCEPT ![e] = [slots |-> Slots, known |-> TRUE, present |-> TRUE]]
    /\ UNCHANGED <<tracker, sched, todo, previous, channels, queue, held, slot, done, left>>

\* Mutant: items that wait for a slot count as load, without a lower bound.
Heartbeat_CountsHeld(e) ==
    /\ up[e] = "up"
    /\ registry' = [registry EXCEPT ![e] = [slots |-> Slots - (Load(e) + Len(held[e])),
                                           known |-> registry[e].known, present |-> TRUE]]
    /\ UNCHANGED <<tracker, sched, todo, previous, channels, workers, done, left>>

\* A heartbeat refreshes the advertisement, or makes one without capabilities.
Heartbeat(e) ==
    /\ up[e] = "up"
    /\ registry' = [registry EXCEPT ![e] =
                        [slots |-> Slots - Load(e), known |-> registry[e].known, present |-> TRUE]]
    /\ UNCHANGED <<tracker, sched, todo, previous, channels, workers, done, left>>

\* Heartbeats came too late: the registry drops the advertisement.
Expire(e) ==
    /\ Fault("expiry") /\ registry[e].present
    /\ registry' = [registry EXCEPT ![e] = Absent]
    /\ UNCHANGED <<tracker, sched, todo, previous, channels, workers, done>>

\* The runtime takes every item it can get, whatever its free slots.
Receive(e) ==
    /\ up[e] = "up" /\ CanTake(queue)
    /\ held' = [held EXCEPT ![e] = Append(@, Head(queue.ready))]
    /\ queue' = Take(queue)
    /\ UNCHANGED <<tracker, sched, todo, previous, channels, registry, up, slot, done, left>>

\* NATS and Redis hand out an item again when its ack is late.
ReceiveAgain(e) ==
    /\ Fault("late") /\ up[e] = "up"
    /\ \E item \in Overdue(queue) :
          /\ Deliveries(item) < MaxDeliveries
          /\ held' = [held EXCEPT ![e] = Append(@, item)]
    /\ UNCHANGED <<tracker, sched, todo, previous, channels, registry, queue, up, slot, done>>

\* An item whose requirements the executor lacks goes back.
Refuse(e) ==
    /\ up[e] = "up" /\ held[e] # <<>>
    /\ \E p \in Places : p[1] = e /\ slot[p] = Idle
    /\ e \notin Accepts[Head(held[e]).task]
    /\ held' = [held EXCEPT ![e] = Tail(@)]
    /\ \E id \in NackIds(Head(held[e])) : queue' = Nack(queue, Head(held[e]), id)
    /\ UNCHANGED <<tracker, sched, todo, previous, channels, registry, up, slot, done, left>>

\* An item gets a slot.  The task starts, unless its workspace cannot be prepared.
Start(p) ==
    LET e    == p[1]
        item == Head(held[e])
        Event(type) == [type |-> type, task |-> item.task]
        Go(phase) == slot' = [slot EXCEPT ![p] = [item |-> item, phase |-> phase]]
    IN  /\ up[e] = "up" /\ slot[p] = Idle /\ held[e] # <<>>
        /\ e \in Accepts[item.task]
        /\ held' = [held EXCEPT ![e] = Tail(@)]
        /\ \/ Send(monitor, monitor', Event("started")) /\ Go("run")
           \/ Fault("workspace") /\ Publish(monitor, monitor', Event("failed")) /\ Go("ack")
           \/ Fault("transient") /\ Publish(monitor, monitor', Event("failed")) /\ Go("nack")
        /\ UNCHANGED <<tracker, sched, todo, previous, snapshots, diffs, updates, registry,
                       queue, up, done>>

\* A stopping executor's context is cancelled: NATS and Redis send no event with it, and
\* Redis settles no item.
Cancelled(e) == up[e] \in {"stopping", "down"}

\* The runner returns and the outcome is published, before the item is settled.
Finish(p) ==
    LET task == slot[p].item.task
        Event(type) == [type |-> type, task |-> task]
        End(phase)  == slot' = [slot EXCEPT ![p].phase = phase]
        mute   == Cancelled(p[1]) /\ Bus # "memory"
        Failed == IF mute THEN UNCHANGED monitor ELSE Publish(monitor, monitor', Event("failed"))
    IN  /\ slot[p].phase = "run"
        /\ \/ /\ IF mute THEN UNCHANGED monitor /\ Fine
                        ELSE Send(monitor, monitor', Event("completed"))
              /\ done' = done \cup {task} /\ End("ack")
           \/ /\ Fault("fails") \/ (Cancelled(p[1]) /\ Fine)
              /\ Failed /\ UNCHANGED done /\ End("ack")
           \/ /\ Fault("transient") /\ Failed /\ UNCHANGED done /\ End("nack")
        /\ UNCHANGED <<tracker, sched, todo, previous, snapshots, diffs, updates, registry,
                       queue, up, held>>

\* A failure marked transient puts the item back on the queue.
Settle(p) ==
    /\ slot[p].phase \in {"ack", "nack"}
    /\ IF Cancelled(p[1]) /\ Bus = "redis" THEN UNCHANGED queue
       ELSE IF slot[p].phase = "ack" THEN queue' = Ack(queue, slot[p].item)
       ELSE \E id \in NackIds(slot[p].item) : queue' = Nack(queue, slot[p].item, id)
    /\ slot' = [slot EXCEPT ![p] = Idle]
    /\ UNCHANGED <<tracker, sched, todo, previous, channels, registry, up, held, done, left>>

\* Shutdown: the items waiting for a slot go back one by one,
Stop(e) ==
    /\ Fault("stop") /\ up[e] = "up"
    /\ up' = [up EXCEPT ![e] = "stopping"]
    /\ UNCHANGED <<tracker, sched, todo, previous, channels, registry, queue, held, slot, done>>

GiveBack(e) ==
    /\ up[e] = "stopping" /\ held[e] # <<>>
    /\ held' = [held EXCEPT ![e] = Tail(@)]
    /\ \E id \in NackIds(Head(held[e])) : queue' = Nack(queue, Head(held[e]), id)
    /\ UNCHANGED <<tracker, sched, todo, previous, channels, registry, up, slot, done, left>>

\* and the end is announced; items still in the consumer's channel do not go back.
PublishOffline(e) ==
    /\ up[e] = "stopping"
    /\ up' = [up EXCEPT ![e] = "down"]
    /\ held' = [held EXCEPT ![e] = <<>>]
    /\ registry' = [registry EXCEPT ![e] = Absent]
    /\ UNCHANGED <<tracker, sched, todo, previous, channels, queue, slot, done, left>>

-------------------------------------------------------------------------------
Mastermind ==
    \/ SyncTaskGraphs
    \/ HandleSnapshot \/ HandleDiff \/ HandleMonitor \/ HandleStatusUpdate
    \/ Plan \/ MarkEnqueued
    \/ \E t \in Task : ReportBlocked(t) \/ EnqueueTask(t)

Runtime(e) ==
    \/ Receive(e) \/ Refuse(e) \/ GiveBack(e) \/ PublishOffline(e)
    \/ \E p \in Places : p[1] = e /\ (Start(p) \/ Finish(p) \/ Settle(p))

Environment ==
    \/ Restart
    \/ \E e \in Executor : Register(e) \/ Heartbeat(e) \/ Expire(e) \/ ReceiveAgain(e) \/ Stop(e)

Next == Mastermind \/ (\E e \in Executor : Runtime(e)) \/ Environment

Spec == Init /\ [][Next]_vars

\* Each goroutine goes on: the sync loop and the scheduling loop tick, subscribers
\* drain their channels, executors heartbeat, take items and run them to an end.
FairSpec ==
    /\ Spec
    /\ WF_vars(SyncTaskGraphs) /\ WF_vars(HandleSnapshot) /\ WF_vars(HandleDiff)
    /\ WF_vars(HandleMonitor) /\ WF_vars(HandleStatusUpdate)
    /\ WF_vars(Plan \/ MarkEnqueued \/ \E t \in Task : ReportBlocked(t) \/ EnqueueTask(t))
    /\ \A e \in Executor : WF_vars(Heartbeat(e)) /\ WF_vars(Receive(e)) /\ WF_vars(Refuse(e))
    /\ \A p \in Places : WF_vars(Start(p)) /\ WF_vars(Finish(p)) /\ WF_vars(Settle(p))

-------------------------------------------------------------------------------
(* Properties. *)

TypeOK ==
    /\ tracker \in [Task -> Status]
    /\ sched \in SchedulerType
    /\ todo \in [block : SUBSET Task, send : SUBSET Task, mark : SUBSET Task]
    /\ previous \in Trees
    /\ snapshots \in Seq(Trees) /\ Len(snapshots) <= Room
    /\ diffs \in Seq([upsert : Trees, delete : SUBSET Task]) /\ Len(diffs) <= Room
    /\ monitor \in Seq([type : {"started", "completed", "failed"}, task : Task])
    /\ Len(monitor) <= Room
    /\ updates \in Seq([task : Task, status : Status]) /\ Len(updates) <= Room
    /\ registry \in [Executor -> [slots : 0 .. Slots, known : BOOLEAN, present : BOOLEAN]]
    /\ queue \in [ready : Seq(Item), taken : SUBSET Item]
    /\ up \in [Executor -> {"new", "up", "stopping", "down"}]
    /\ held \in [Executor -> Seq(Item)]
    /\ slot \in [Places -> [item : Item \cup {NoItem}, phase : {"idle", "run", "ack", "nack"}]]
    /\ done \in SUBSET Task
    /\ left \in 0 .. MaxFaults

Running(t) == {p \in Places : slot[p].phase = "run" /\ slot[p].item.task = t}

\* Tasks already completed that the tracker may call open again: a status written late
\* reopens an issue of GitHub, and a late "blocked" a task of tk.
Reopenable == IF BackendType \in {"tk", "github"} THEN done ELSE {}

\* Two executors never run the same task at the same time, unless it was completed before
\* and the tracker is one that reopens what a late status names.
RunsAlone == \A t \in Task \ Reopenable : Cardinality(Running(t)) <= 1

\* A task runs only after its parent and the tasks its node lists under a key the
\* scheduler reads were completed.
DependenciesFirst ==
    \A t \in Task : Running(t) # {} => Dependencies(t) \subseteq done

\* A task runs only after the tasks its tracker entry depends on were completed,
\* whatever the key the tracker lists them under.
TrackerDependenciesFirst ==
    \A t \in Task : Running(t) # {} => DependsOn[t] \subseteq done

\* Items that wait for an executor or run on one, duplicates of finished work aside.
Unfinished ==
    {i \in Range(queue.ready) \cup (UNION {Range(held[e]) : e \in Executor})
             \cup {slot[p].item : p \in {x \in Places : slot[x].phase = "run"}} : i.task \notin done}

\* The work queued or running never exceeds the executors' slots times backpressure.
WithinCapacity == Cardinality(Unfinished) * 100 <= Cardinality(Executor) * Slots * Backpressure

\* Every task is closed in the tracker, for good.
EveryTaskCloses == \A t \in Task : <>[](tracker[t] = "closed")

\* No mark takes a place in the budget for ever.
MarksAreFreed == \A t \in Task : []<>(t \notin sched.enqueued \cup sched.inProgress)

\* What is queued comes to its end, in the tracker and in the scheduler's budget.
QueueDrains == EveryTaskCloses /\ MarksAreFreed
===============================================================================
