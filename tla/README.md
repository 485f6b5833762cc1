# yolo-runner: TLA+ models and proofs

yolo-runner takes the open tasks of an epic from a tracker (tk, GitHub, Linear, beads),
runs a coding agent on each one in its own git clone, reviews the result, merges and pushes
it, and records the outcome in the tracker. It runs either as one process (the *agent loop*)
or as a *mastermind* that schedules work over a message bus to *executors*.

This directory holds TLA+ models of it, TLC configurations that check them on small
instances, and TLAPS proofs that hold for every instance. `PROJECT.json` ties every
definition to the lines of code it stands for, and lists the runs, their properties, the
hazards each property is aimed at, and a mutation of the code that each property catches.

    tlc -config AgentLoop_crash.cfg MCAgentLoop      # a run
    tlapm AgentLoop_proofs.tla                       # the proofs

## 1. Inventory of the system

Components, the state they keep, and what makes them correct. "Hard" names the behaviour
that ordinary tests of the component do not reach.

### The single-process runner

| Part | State | Operations | Hard | Correct when |
|---|---|---|---|---|
| **Agent loop** `internal/agent/loop.go` | in-flight map, counters, task lock, landing lock, job and result channels | recover, pick, dispatch, run a task through gates, implementation, review, landing, retry, block, fail | workers against the dispatcher; a crash between two durable writes; a failing call anywhere; budgets | no task runs twice, landing is serialized, nothing closes unreviewed or before its dependencies, no task is lost in progress, what is landed stays so, a run with a budget ends |
| **Scheduler state file** `internal/agent/scheduler_state.go` | JSON file: in flight, completed, blocked, task data; a mutex | Load, five edits, Save with a three-way merge | the mutex is free between Load and Save; a torn write | no update of the sets is lost; the next run can read it |
| **Landing queue, locks** `internal/scheduler` | landing state and attempts; sets of locked tasks | begin, succeed, fail, requeue; try-lock, unlock | events out of order are refused, and the loop ignores the error | the reported landing is the real one |
| **Task engine** `internal/engine`, `storage_engine_task_manager.go` | graph with parents, dependencies, statuses | build, next available, concurrency, update status, completeness | cycles, missing dependencies, containers; a refresh beside a status that is on its way; a status stored before the engine refuses it | cycles are refused and nothing else is; a graph that offers nothing says why; no shared status is lost |
| **In-memory graph** `internal/scheduler/graph.go` | node states under a lock | ready set, reserve, set state, concurrency | – | no program of the repository uses it |
| **Monitor** `ui/monitor`, `cmd/yolo-tui` | workers and tasks folded from events, the rows kept, what is open, the cursor | event, key, render | rows kept too long; rows that come and go under a cursor; cyclic or unknown dependencies; a late warning | rows are those of the present state, every task is in the graph once, an outcome is not shown as better than it was |
| **Runner monitoring** `loop.go`, `runRunnerWithMonitoring` | time of the last output, warned or not | heartbeat, warn, output, finish | output arrives between the decision to warn and the warning | a silence is warned of once, and the watch ends with the run |
| **Git, clones** `internal/vcs/git`, `clone_manager.go` | branches, clones per task | branch, commit, merge, push, clean up | conflicts, a refused push | a clone belongs to one task |
| **Task quality gate** `internal/task_quality`, `loop.go` | tries, tools passed | score a description, look up dependencies, review, run tools, change the model | a failed lookup looks like a missing task; retries of two kinds and a second model share one loop | nothing closes unchecked, each failure costs what it should |

### The distributed runner

| Part | State | Operations | Hard | Correct when |
|---|---|---|---|---|
| **Mastermind scheduler** `mastermind_scheduler.go` | nodes of each graph; enqueued, in-progress and blocked marks | snapshot, diff, monitor event, plan, enqueue, mark | events that overtake the mark; stale snapshots; a budget counted from two sides | a task is on the queue once, after its dependencies, within capacity; marks are freed |
| **Task graph sync and subscriptions** `mastermind.go` | last published trees; a consumer's copy | read trees, publish snapshot and difference, forward, filter | an unreadable tree; two channels without an order; a consumer that is behind | nodes and copies follow the tracker |
| **Queue worker runtime** `worker_runtime.go` | held items, slots, load | register, heartbeat, consume, refuse, start, finish, ack, nack, shut down | the outcome is published before the item is settled | an item is run once and settled |
| **Message bus** `bus.go`, `nats_bus.go`, `redis_bus.go` | subscriber channels, queues, unacknowledged items | publish, enqueue, consume, ack, nack, request | full channels lose events; late acks repeat items | nothing acked comes back |
| **Executor registry** `registry.go` | advertisements with expiry | register, heartbeat, unregister, pick | a heartbeat after expiry | an alive executor is known |
| **Task dispatch** `mastermind.go`, `executor.go` | calls waiting for a correlation id; handlers | dispatch, execute with retries, answer | time limits of the two sides do not agree | an answer is the call's own; executors overlap only behind a caller that gave up |
| **Status updates** `mastermind.go`, `inbox_transport.go` | answers by command id, versions by backend | apply, reject, ack | repeated commands, one backend failing of several, a write reported as failed that was applied | the answer says what was done; an expected version protects a write |
| **Service requests, review and rewrite handlers** | calls waiting under a key | request, handle, answer | answers for other calls on one subject, late ones, two calls under one key | an answer reaches its asker; a waiting call can be answered |
| **Executor pipeline and its configuration** `executor_pipeline.go`, `executor_config.go` | stage, attempts per stage; checksum and last error of the file | load, watch, run a stage, take a transition | retries counted over re-entered stages; a file that is broken and restored | budgets are kept, a forward pipeline ends, the watcher knows the file |

### Agents, trackers, interfaces

| Part | State | Hard | Correct when |
|---|---|---|---|
| **Session runtimes** `opencode`, `claude`, `codex` | process, session, what was read | the process ends at any point between start and teardown | success is what the agent said; no process is left |
| **OpenCode run and watchdog** `opencode/client.go`, `watchdog.go` | last output, log size, client, process | completion, stall, exit and client race | completed only if the prompt ended; the run ends; nothing is left |
| **Process supervisor** `codingagents` | process, readiness, stop and wait | stop, grace, kill and exit in any order | the child is collected |
| **Task managers** `tk`, `github`, `linear`, `beads` | remote statuses; GitHub's file of overrides; tk's tickets in git | load and save of the file are not atomic; relations that leave the tree; statuses a tracker has no word for; commits of several workers | a status that was set is read back and kept; the tree says what the tracker says |
| **Linear agent sessions** `linear/session_processor.go` | first-thought signal | a timer against the run itself | a thought is there, or somebody was told |
| **Event sinks** `contracts/stream_sink.go`, `cmd/yolo-agent` | one pending output, counts, a bounded mirror | throttling that coalesces and drops | every output is accounted for, in order |
| **Command line, configuration, logging, prompts** | – | – | – |

### How they interact

In the single process, `Loop.Run` (the dispatcher) and its workers share memory: the
in-flight map belongs to the dispatcher, jobs and results travel over channels, the task lock
and the landing lock are shared, and dispatcher and workers edit the state file through
Load/edit/Save. Three things outlive the process: the tracker, the state file, and the remote
repository; recovery at the start of a run has only these.

In the distributed runner everything goes over the bus. The mastermind's goroutines each
drain one subscription: registrations, heartbeats, snapshots, diffs, monitor events, status
updates. A ticking loop reads the trackers and publishes snapshots and differences *to
itself*. Another plans: it reads registry and record, decides under a lock, and then sends
without it: publishes blocked reports, puts items on the work queue, and marks each one
after it was put there. Executors take items, announce starts and outcomes as monitor events,
and settle the items afterwards. A monitor event changes the record and becomes a status
update, which the mastermind also sends to itself and only then writes to the tracker.

An agent runs below either runner: the loop's worker (or the executor's handler) calls a
runner, which starts a process, talks to it, watches it and ends it. The loop sees the tasks
through the engine, which reads a tree from the tracker before each answer and writes each
status to the tracker first. The loop's events go to the stream sink and the mirror.

## 2. Modules

| Module | Models | State and actions |
|---|---|---|
| `SchedulerState` | the record in the state file: five edits, the merge of `Save` | pure operators |
| `AtomicState` | *abstract*: a record edited atomically, one edit a step | `inFlight`, `completed`, `blocked` |
| `SchedulerStore` | goroutines that load, edit and save one file, and a crash in the write | `file`, `readable`, `mu`, one job per client; `Load`, `SaveBegin`, `SaveEnd`, `LoadFails`, `Crash` |
| `LandingQueue` | the landing state machine | pure operators |
| `AgentLoop` | `Loop.Run`, its workers and the whole of `runTask` | see below |
| `TaskGates` | the checks of `runTask` with their content: the score of a description, dependency lookups, TDD, review, tools, retries, second model | `stand` is where the task is; lookups, tries, what has passed |
| `RunnerMonitor` | the watch over a run's output | last output, `warned`, the ticker's goroutine and the progress callback |
| `TaskTrees` | what the engine computes: a tree becomes a graph or is refused; what is available, what is complete | pure operators |
| `GraphSearch` | the engine's walks: the depth-first search for a cycle, the count of what may run at once | a stack with what is left to look at; the levels and what each task still waits for |
| `TaskEngine` | the manager that refreshes that graph and shares statuses with the tracker | `stored`, `graph`, the refresh under way, one call per caller |
| `TrackerTrees` | how GitHub, Linear, tk and beads turn issues into a tree | pure operators |
| `GitHubTracker` | statuses and data in GitHub and in the file of overrides | requests that fail, are refused or lose their answer; load, save, crash; a tree read in steps |
| `IssueTrackers` | statuses and data in Linear, tk and beads | workflow states, remembered statuses, tickets written, staged and committed |
| `TaskQueue` | the work queue of the three buses | pure operators on `[ready, taken]` |
| `MastermindScheduler` | the scheduler's record, its events and its decisions | pure operators |
| `QueueScheduling` | the mastermind, the bus, the registry and the executors at work | see below |
| `TaskDispatch` | `DispatchTask` with results by correlation id, `Pick`, and the executor's handler with its attempts | calls, adverts, each executor's inbox and handlers, results on the way |
| `StatusUpdate` | status commands from client to backends and the answers back | commands on the way, versions and holders of each backend, remembered answers |
| `ServiceRequests` | `RequestService`, the response router, the mastermind's handlers | the map of waiting calls, requests and responses on the way |
| `GraphFeed` | snapshots and diffs of the graphs, and a subscriber's copy | published graphs, two channels, the output, the copy |
| `EventSinks` | the throttled stream and the mirrored file | the held output and its counts, the stream, the mirror's queue |
| `MonitorView` | the monitor: what it makes of the events, its rows, the graph, the queue, the keys | `workers`, `tasks`, the kept rows and whether they are old, `panelCursor`, `panelExpand` |
| `ExecutorConfig`, `ExecutorPipeline` | which configurations load, the watcher of the file, and `Execute` over an accepted one | checksum and last error; stage, runs, failures |
| `Watchdog`, `OpenCodeRun` | an OpenCode process, its watchdog, its client and the loop that waits for the three | process, logs, client, loop |
| `SessionRun` | an agent behind a session: `opencode serve`, `claude`, `codex app-server` | process, what it said and what was read, where the adapter is |
| `ProcessSupervisor` | a command under supervision | child, probe, the goroutines that wait and stop |
| `FirstThought` | a Linear session's run and the watch over its first thought | thoughts posted and accepted, the timer, the verdict |
| `MCAgentLoop`, `MCQueueScheduling`, `MCControl`, `MCAgents`, `MCData` | instances for TLC | constants and symmetry |
| `SchedulerStore_proofs`, `AgentLoop_proofs`, `QueueScheduling_proofs`, `QueueRuns_proofs`, `MonitorView_proofs`, `Control_proofs`, `Agents_proofs`, `Data_proofs` | theorems (section 5) | – |

`MCControl`, `MCAgents` and `MCData` each hold several components that share no state. The
variable `part` says which one moves in a behaviour, and never changes: the run checks each
component by itself, over all its interleavings, and no product of them is formed. Their
properties are conjunctions of the named properties of the parts (`NothingLeft` is
`NoProcessLeft`, `NoAgentLeft` and `NoChildLeft`), so that a violation names its part.

Composition: `OpenCodeRun` extends `Watchdog`, `ExecutorPipeline` runs what `ExecutorConfig`
accepts, `GraphSearch` walks the graphs of `TaskTrees` and `TaskEngine` keeps one current;
`TaskEngine` takes the search's answer for what it is shown to be. `TrackerTrees` builds the trees
from the issues that `GitHubTracker` and `IssueTrackers` change, and `QueueScheduling` puts
`MastermindScheduler`, `TaskQueue` and the registry together. `AgentLoop` leaves open what the
gates answer; `TaskGates` derives it.

**AgentLoop.** One step is one call with an effect outside the goroutine: a runner, a git
operation, a tracker write, an edit of the file, a lock, a channel. `mpc` is where the
dispatcher is: `load`, `recover` (one task a step), `top` and `fill` (the outer and the inner
loop), `picked` and `send` (task locked; recorded in flight), `receive` (waiting for a
result), `stopped`, `error`. `wk[w].pc` is where a worker is; its values follow `runTask`
downwards: `gate`, `in_progress`, `implement`, `review`, `verdict`, `qc`,
`mark_completed`, `await_landing`, `attempt`, `merge`, `remediate`, `push`, `close`, then the
ways out: `mark_blocked`, `block`, `clear`, `decide` (retry, fallback model, or failure),
`reopen`, `fail`, `clear_in_flight`, `return` (deferred unlocks), `report`, `unlock`. The other
fields of `wk[w]` are the locals of `runTask`. Texts, events, scores and the command line of a
runner are abstracted to their outcome. `CallFails` lets any call of the tracker, git or the
disk fail, a status write having been applied or not; `Restart` ends the process at any step.

What the tracker makes of what it is told is part of the model: `tracker` is one of `Trackers`,
`status` what its trees show and `retries` the counters that come back with a task. tk has no
word for blocked and failed and shows both as open (`tk/tk.go:250`), already to the next
`NextTasks` of the same run, since the engine reads the tree again before it answers:
such a task is picked again, until the budget is used up. tk, Linear and beads return no
counters with a task, and GitHub those of the last write only (`github/state_store.go:106`), so
that a task that is picked again, in this run or the next, has some or all of its retries again.
The model claims no bound on retries beyond the one a single `runTask` checks.

An edit of the state file is one step here: `SchedulerStore` justifies it, under the condition
that the edits of one task do not overlap, which `TaskRunByOne` establishes here.

**QueueScheduling.** `tracker` is what the task manager holds, `sched` the scheduler's record,
`previous` the last published trees; `snapshots`, `diffs`, `monitor`, `updates` are the
mastermind's subscription channels; `todo` is what the current scheduling round still has to
send; `registry`, `queue`, `held`, `slot` and `up` are the executors' side. Every goroutine
of `Mastermind.Start` and `QueueWorkerRuntime.Start` has its actions: `SyncTaskGraphs`,
`HandleSnapshot`, `HandleDiff`, `HandleMonitor`, `HandleStatusUpdate`, the round
(`Plan`, `ReportBlocked`, `EnqueueTask`, `MarkEnqueued`), and `Register`, `Heartbeat`,
`Receive`, `ReceiveAgain`, `Refuse`, `Start`, `Finish`, `Settle`, and the end of an executor in
three steps: `Stop`, then `GiveBack` for each item it holds, then `PublishOffline`. `Faults` names the
failures an instance allows and `MaxFaults` bounds how many happen. One graph is modelled;
the rotation over graphs and the priorities choose an order, and the model allows any.
Registrations and heartbeats reach the registry at once; that a heartbeat may carry an old
load is covered, because the load may change right after it.

`BackendType` names the tracker: tk shows what was blocked as open, and GitHub what was set to
anything but closed. `DependencyKey` is the metadata key the tracker lists dependencies under,
of which the scheduler reads five (`depends_on`, `depends-on`, `blocked_by`, `blocked-by`, `deps`;
`mastermind_scheduler.go:598`) and the shipped trackers write another, `dependencies`; the parent
comes with the node itself and is always read. An executor that is stopping publishes and settles
with a cancelled context: what is still running then ends without an event on NATS and Redis, and
on Redis its item is not settled either (`worker_runtime.go:458`); the memory bus does not
look at the context. What is given back at `GiveBack` has a context of its own.

## 3. Runs

### Agent loop

| Run | Instance | Shows |
|---|---|---|
| `loop_crash` | tk and GitHub; two workers, two tasks, one retry of each kind, a budget of two, a stop channel, two crashes anywhere (1.8 million states) | `TaskRunByOne`; `PushBuildsOnRemote`; `TaskBudget`; `LandedIsNotRerun`: landed work is never given to an implementation again; `ReportsAreTrue`: the file never says two things of a task, the landing machine is in step with the landing, and a run that ends well leaves nothing recorded; `TerminalIsFinal`: what the tracker shows as closed or blocked stays so |
| `loop_faults` | tk; two workers, two tasks of which one depends on the other, a budget of two, one retry of each kind, gates, fallback model, one failing call and one crash anywhere (480 thousand states, with liveness) | `InProgressIsRecorded`, `DependenciesHold`; `ReviewComesFirst`: nothing is closed without a passed review, nor merged, but for the second attempt below; `RunEnds`: a run with a budget ends |
| `loop_landed` | one crash | **violated**: a task is closed by recovery although its work never reached the main branch |

The bounds: two crashes are needed so that the second hits the recovery from the first; one
retry of each kind so that a task is retried, retried for the other reason, and refused; two
workers so that one can land while the other does, and a budget of two so that a task which tk
offers again uses up the turn of the other. GitHub keeps blocked and failed apart from open with
its file of overrides, as Linear does with a state of that name, and is the one that returns
counters; between them `tk` and `github` are the two ends. Failing calls are in `loop_faults`,
a second crash in `loop_crash`.

`TerminalIsFinal` speaks of what is *shown*. On tk only a closed task is terminal: a blocked or
failed one is open as soon as it is written, and both runs have it picked again. `RunEnds` asks
for a budget (`MaxTasks > 0`) for the same reason: on tk, with none, a task that always fails is
offered by `NextTasks` as long as the process lives, and the run never ends.

`ReviewComesFirst` speaks of merges in the first landing attempt. After a merge conflict an
agent edits the branch and the second attempt lands the result without another review
(`loop.go:685`): without that restriction the property does not hold.

### Mastermind and executors

| Run | Instance | Shows |
|---|---|---|
| `queue_safety` | NATS and tk; two executors of one slot, both registered from the start, one unable to take the first task; two tasks, one the parent of the other; one failure: the runner, a tracker write, a lost event, an expired or a stopping executor (5.3 million states) | `RunsAlone`: no task that is not yet completed runs on two executors at once |
| `queue_broker` | Redis and GitHub, one executor that registers late; two tasks, one the parent of the other; any two failures together of: a redelivery because the ack was late, a transient failure that is put back, an unreadable tree, a restarted mastermind (5.9 million states) | `DependenciesFirst`: no task overtakes its parent or what it lists under a key the scheduler reads |
| `queue_live` | tk; two tasks beside each other, one slot, no failures, trees read while older snapshots wait (75 thousand states) | `WithinCapacity`; `QueueDrains`: every task is closed for good (`EveryTaskCloses`), and no mark takes a place for ever (`MarksAreFreed`) |
| `queue_tracker_key` | tk; two tasks beside each other, one listing the other under `dependencies`; no failures | **violated**: a task runs only after those its tracker entry depends on (`TrackerDependenciesFirst`) |

All of them have the tasks below a closed root, as the trees of an epic are, since the children of
an open root never run, and all use the key that the shipped trackers write.

The bounds: channels of one place instead of 32 still let every kind of event wait
behind and overtake every other kind, since the channels are drained independently, and with
`"lag"` the trees of two ticks wait together; two or three identities allow the duplicates a
task of two can have; two tasks so that one can wait for the other, in the graph or for the
slot. One failure at a time where the property is lost to certain failures anyway, two together
where it survives all of them; the theorems of section 5 remove these bounds, but not the list
of failures each is lost to. Failures of a workspace end like a failing runner and are left
to the theorems. An expired executor is in `queue_safety`, and not among the failures of
`queue_broker`, where it adds nothing to what a restart does.

Which failures each property survives is itself a result of the model:

- `DependenciesFirst` survives all of them: a dependency is only ever looked up as `closed`,
  and nothing says `closed` but a completion. It speaks of the dependencies the scheduler
  *reads*: with the shipped trackers that is the parent alone. What a tracker entry itself
  depends on is overtaken without any failure, which is `queue_tracker_key`.
- `RunsAlone` survives a failing runner, workspace or tracker write, a lost event, and an
  executor that stops, expires or comes late, on every bus. It does **not** survive a transient
  failure (the blocked task is also put back on the queue), an unreadable tree (all marks are
  dropped), a late ack on a bus that redelivers, a restarted mastermind, or two snapshots that
  wait together while events pass them (`"lag"` with two places: the first unmarks, the second
  reopens). The last is why `queue_safety` assumes that a snapshot or diff is handled before the
  next is published, 5 seconds later. Nor does it speak of a completed task on tk or GitHub: a
  status handled late ("in progress", "blocked") opens it again, and it is queued as if new.
- `WithinCapacity` survives lost events, lost tracker writes and trees handled late. It does
  **not** survive one task that fails: a difference or snapshot read before the failure and
  handled after it opens the task again, it is queued a second time, and the next tree, which
  says `blocked`, takes the mark of the item that is now queued. Nor does it survive an
  unreadable tree, a transient failure, an executor that stops, or a task that no registered
  executor matches when it is planned, which is reported as blocked.
- `EveryTaskCloses` is checked on tk. On GitHub a late "in progress" reopens the issue of a task
  that is closed, which then runs once more.
- `MarksAreFreed` does not survive a failed tracker write: a mark set after its task was
  completed stays on a task that the tracker shows in progress.

### Control plane: `control` (1.2 million states)

| Part | Instance | Shows |
|---|---|---|
| `TaskDispatch` | one task of two dispatches on two executors of two attempts each, one executor late; a lost event or a shutdown | `DispatchIsSound`: a success was run to its end by the executor picked; two executors work on one task only behind a caller that gave up (it timed out, could not publish, or could not read the answer); all the work stays within the two budgets multiplied |
| `StatusUpdate` | four commands on two backends, one with a flaw, one sent twice; a failing write, applied or not, or a failing comment, a restart, a lost event | `AnswerIsTrue`: acknowledged is written everywhere, rejected changed nothing (but where a backend failed half way), never both, each backend written once; `ExpectedIsOverwritten`: a version protects what the client saw, but not a status that has no version (below) |
| `ServiceRequests` | four calls of one asker, two under one key, each service once, two attempts | `CallsAreMatched`: an answer is one for the call's key, what waits can be answered, what returned left no entry |
| `GraphFeed` | three rounds over two roots of two trackers, no filter, one by tracker, one by status | `CopyIsCurrent`: after the last round is delivered the copy is the published graphs, whatever was dropped before |
| `EventSinks` | two emitters, four events, an output held twice at most, a mirror of one place | `EventsAreAccounted`: the outputs between two lines of the stream are those the later line counts, and what came after the last is pending; in order; the file complete but for what the mirror skipped |
| `MonitorView` | three tasks, in a cycle or with unknown and own dependencies; a loop or queue workers; three events, one key, three states the viewer may have left before | `ViewIsTrue`: kept rows are the present ones and what is cut off is flagged; every task once in the graph, below its parent; a finished task not shown as better than it ended; the selected row in the window |

`SetTaskStatus` and the comment behind it may be reported as failed although they were applied, and
the mastermind then rejects the command without counting a version (`mastermind.go:918`). The
backend holds a status nobody was told of, and a command that expects the version before it
overwrites it. `ExpectedIsOverwritten` exempts just such a status, until a write with a version
replaces it, and a mastermind that restarted and counts from zero.

One fault of any kind; capacities of one or two instead of 32 or 64. Two calls under one key
are what the router can confuse; a third caller waits for neither in another way.

### Agents: `agents` (155 thousand states, with liveness)

| Part | Instance | Shows |
|---|---|---|
| `ExecutorConfig` | two good files and a bad one, two changes between polls | `WatcherIsCurrent`: when a poll is over, the callback knows what the file means, but for a file that became unreadable and came back |
| `ExecutorPipeline` | eight configurations, of which the loader accepts some that lead back or that `Execute` refuses; four runs of a stage | `BudgetIsKept` |
| `Watchdog`, `OpenCodeRun` | a timeout of one interval, one verification | see below |
| `SessionRun` | the three backends | see below; `claude_result` **violated**: a success that was said is reported as a failure |
| `ProcessSupervisor` | one command with readiness | see below |
| `FirstThought` | two thoughts | see below |
| `RunnerMonitor` | a silence of two heartbeats | see below |

Over these: `SuccessIsEarned` (what is reported as completed was: the prompt ended, the agent
said so, the child exited well, the thought was accepted), `NothingLeft` (no process outlives
the call that started it), `SilenceIsReal` (a run killed or warned for its silence was silent,
and a silence is warned of once) and `RunsComeToAnEnd` (each run ends once its context, its
process or its answer does, a silent agent is warned of, and no watch outlives its run; the
parts' obligations are stated as one `Due ~> Over`, which speaks of the part that moves).

### Trackers, engine, gates and state file: `data` (470 thousand states)

| Part | Instance | Shows |
|---|---|---|
| `SchedulerStore` | two goroutines, two tasks, one crash | `SetsAreAtomic`: no update of the three sets is lost, a refinement of `AtomicState`; `SnapshotCurrent`: a snapshot stays right about its own task. `store_torn` **violated**: after a crash inside `os.WriteFile` no later run can load the file |
| `GitHubTracker` | two tasks, two reporters, two calls; one refusal, and one crash or change by others | `GitHubAgrees`: a status set with success is what is read, but where another save or a crash cut it off; a tree gives statuses that were; a comment is posted once; what may start has its known dependencies closed |
| `TrackerTrees`, `IssueTrackers` | the four trackers' trees of four boards; two Linear workflows; two workers and two writes | `TreeIsFaithful`: a tree the engine can take, with every relation accounted for; `WriteIsKept`: a status reads back (but tk's failed and blocked) and a ticket is committed, whatever workers interleave |
| `TaskTrees`, `GraphSearch`, `TaskEngine` | all graphs of dependencies with a cycle over three tasks and others without, with containers, links from the other end and unknown tasks; every start and order of the search; three statuses when the pool is sized; two callers, a change by others | `GraphIsSound`: the search names only cycles and misses none, the pool covers what is available, a graph that is stuck says why; `WorkFollowsGraph`: work starts after its dependencies, and a refresh loses no status that was shared |
| `TaskGates` | four sets of gates, descriptions that miss some sections or signs, two retries | `GatesHold`: more text never scores less, a complete task is blocked only for a lookup that failed, nothing closes without its checks, retries and second model are used only for their own kind of failure |

Two goroutines with two tasks is the least that has two overlapping edits of different tasks
and of the same one; merging is per task, so a third adds nothing that two do not show, and
the theorems of section 5 remove the bound. The goroutines of every part are interchangeable,
and so are its tasks, and the run has no liveness property, which makes the symmetry sound.

### Fairness

`loop_faults` assumes weak fairness of the dispatcher and of each worker: goroutines are
scheduled, and every runner call has a timeout, so every call returns. Crashes, failing calls,
stop requests and the outcome of runners and reviews have no fairness. What makes the run end is
the budget of tasks and, within one `runTask`, the limits on its two kinds of retry.

`queue_live` assumes weak fairness of each goroutine: the sync and the planning loop tick,
each subscription is drained, and executors heartbeat, take items, run them to an end and
settle them. No failure is fair, and neither is the choice of the executor that takes an item:
with an executor that refuses items, no task needs to end, since the same executor may take
the refused item again for ever (`worker_runtime.go:391`).

`agents` assumes that goroutines run, timers fire and a process that has ended is collected.
An agent need never write, answer or exit, and a context need never end: `RunsComeToAnEnd`
says what follows once one of them does. One strong fairness: a `select` whose two cases are
both ready again and again takes each of them in the end (`RunnerMonitor`), as Go's does.

### Deadlock

The agent loop stops when its run ends, the store when its file is unreadable, and the parts
of `control`, `agents` and `data` when their bounded work is done; there deadlock is not
checked. `QueueScheduling` never stops, and deadlock is checked.

## 4. What the models say of the code

Violated properties:

- **`ResumeCanLoad`** – the state file is truncated and rewritten in place; a crash in between
  makes every later run fail at recovery, until someone removes the file.
- **`ClosedIsLanded`** – a task is recorded as completed before it is landed; recovery closes
  what is recorded as completed. A crash in between loses the work and closes the task.
- **`SuccessIsReturned`** – a claude process that prints its success and exits at once may be
  reported as "claude exited before result": the end of the process closes the pipe that the
  scanner still reads, and both end in one `select` (`claude/task_session_runtime.go:427`).

- **`TrackerDependenciesFirst`** – tk, Linear, GitHub and beads list a task's dependencies under
  `dependencies`; the mastermind copies the metadata unchanged (`mastermind.go:1128`), and its
  scheduler looks for five other keys (`mastermind_scheduler.go:598`). Two tasks, one depending
  on the other, are both sent in the first round.

Noticed while translating, and modelled as it is; no run is about these:

- Snapshots carry a version that the scheduler does not look at (`mastermind_scheduler.go:113`):
  one read before a completion and handled after it reopens the task.
- The scheduler counts a parent as a dependency, so that the children of an open root never run
  (`:573`).
- Retry counters are written to the tracker and read from it when a task is picked
  (`loop.go:416`), but only GitHub's manager returns them, and its write of one drops the other
  (`github/state_store.go:106`): a task that is run again starts its retries afresh.
- A status write that was applied but reported as failed is rejected without a version, and a
  command with the version before it overwrites it unseen (`mastermind.go:918`).
- The loader accepts transitions that `Execute` then refuses (`executor_pipeline.go:256`).
- tk shows a failed or blocked task as open (`tk/tk.go:250`), so that the same run offers it again,
  and without a budget need not end; it also
  counts a dependency outside the root as missing even when it is closed; Linear and GitHub
  leave such a dependency out, and the task does not wait for it.
- A Linear workflow state of type `started` named "Blocked" is never selected for blocked.
- The number of workers is computed once, when the loop starts.
- A review run that itself fails counts as a rejection; what an agent changed to resolve a
  merge conflict is landed without a review (`loop.go:685`).
- `opencode serve` waits for its process or its context after a successful answer
  (`serve_runner_adapter.go:97`), and a failed turn does not end the wait for the app server.
- An OpenCode session that goes idle before its verification may be killed by the watchdog; and
  a client that answered well is reported as failed when the watchdog stalls after it
  (`client.go:396`).
- What queue workers finish stays "in progress" in the monitor: their finish says "task finished"
  (`worker_runtime.go:445`), which is no terminal status (`ui/monitor/model.go:1021`), and their
  failure sets none. A task run again counts as what it was until it ends again.
- A warning sent after the agent returned hides its failure and stays in the completed task
  (`ui/monitor/model.go:466`); with the run's row closed, the monitor still says that rows are
  cut off when they were before (`:681`); rows of the graph can be opened, without effect.
- Held output is flushed only by a following event or `Finish`; GitHub's file of statuses that
  a crash left empty loads without an error, as no statuses.
- On shutdown a NATS or Redis executor drops the event of what it was running, and on Redis also
  the settling of its item (`worker_runtime.go:458`).

Seen, and outside the models:

- The stream's flush writes into the metadata map of an event that the mirror's queue holds too
  (`stream_sink.go:99`): two goroutines may touch one map. `EventSinks` has events as values.
- A push that is reported as failed but reached the remote: `CallFails` lets a failing push have
  pushed nothing.
- An executor whose consumer channel is closed while its context is cancelled may dispatch what
  it still holds.

## 5. Proofs

Everything below holds for every value of the constants that satisfies the named assumptions
(`AbsentAssumption`, `StoreAssumption`, `LoopAssumption`, `GraphAssumption`, `BusAssumption`,
`SchedulingAssumption`, `DispatchAssumption`, `StatusAssumption`, `ServiceAssumption`,
`FeedAssumption`, `SinkAssumption`, `ViewAssumption`, `FilesAssumption`, `PipelineAssumption`,
`TimeoutAssumption`, `WarnAssumption`, `GitHubAssumption`, `IssueAssumption`,
`SearchAssumption`, `EngineAssumption`, `GatesAssumption`): any set of tasks with any
dependencies, any number of clients, workers, executors, commands or events, any channel size
and retry limit, any number of crashes and failures. The assumptions give the constants
their kinds, and say what the code itself checks or configures: a limit is a number, a channel
has room for one message, a command names a backend once, the root a run is asked for is an issue
(each tracker refuses another), a project's ID is no issue's, and the IDs the monitor sorts by are
unique. `Workers` and `Settled` are finite: their number is an option, and those that registered
are in a map. Each runs' module extends the modules with the assumptions, so that TLC
evaluates them.

The theorems about `control` and `data` are stated for the specifications of the parts
(`DispatchSpec`, `GitHubSpec`, ...), of which the runs check all side by side; `ControlTypeCorrect`,
`DataTypeCorrect` and those about `agents` are stated for `ControlSpec`, `DataSpec` and
`AgentSpec`, `part` included.

### Scheduler state file: `SchedulerStore_proofs`

| Theorem | Says | Argument |
|---|---|---|
| `TypeCorrect` | the store's types | induction over the actions; the merge returns a record (`SaveMergeType`) |
| `SnapshotStaysCurrent` | a loaded snapshot is right about its task until it is saved | `MutexInv` (one writer, and only the writer is writing) and that edits of one task do not overlap; the merge of another task's edit leaves this one alone (`MergeOfOneTask`) |
| `StoreImplementsAtomicState` | the protocol refines `AtomicState` | a `SaveEnd` is the atomic edit because the snapshot is current (`SaveIsEdit`), all other steps stutter |

### Agent loop: `AgentLoop_proofs`

| Theorem | Property | Argument |
|---|---|---|
| `AgentLoopTypeCorrect` | `TypeOK` | one lemma for the worker's own state, one for what it writes, one for the dispatcher |
| `TaskExclusion` | `TaskRunByOne` | not inductive: the dispatcher must not hand out a locked task. `LockInv` adds that the picked task is locked and no worker's |
| `LandingSerialized` | `PushBuildsOnRemote` | `LandingInv`: a worker between the landing lock and its release holds the lock, so the base it merged on is still the remote's when it pushes |
| `BudgetKept` | `TaskBudget` | `InFlightInv`: the map of tasks in flight is finite, and has each task that is picked, sent, with a worker, or in a result that waits, in one of these places only. A counter alone does not carry the bound: a task is added when it is sent and counted when its result is received |
| `ProgressRecorded` | `InProgressIsRecorded` | `LoopInv`, below |
| `TerminalStays` | `TerminalIsFinal`, an action property | `LoopInv`: a worker writes a status only for a task that was open when it was picked, and recovery only what the file asks for. It holds for what the tracker shows, `tracker` being any of `Trackers`: on tk that is closed tasks only |
| `DependenciesKept` | `DependenciesHold` | closed is final (`TerminalStays`'s lemma), so what was true when the task was picked stays so |
| `ReviewedFirst` | `ReviewComesFirst` | `PlaceInv`: each place behind the review has the review's verdict in its locals |
| `NothingRedone` | `LandedIsNotRerun` | `TaskInv`: work on the main branch is closed, or in progress and recorded as completed, so that recovery closes it before anything is picked; a place before the landing has its task recorded in flight, which excludes both |
| `ReportsTrue` | `ReportsAreTrue` | `MachineInv` (the landing machine against the place) and `HoldersInv` (who holds the landing lock is between the states of the landing) |

`LoopInv` says of every place of a worker what the tracker and the file hold of its task
(`TaskInv`), what its locals are (`PlaceInv`, `MachineInv`), and of recovery that
its list covers whatever the tracker shows in progress (`RecoveryInv`). The properties are
proved together because each needs the others: recovery may write a status only because the
file is right, the file is right because the worker has reached the step that writes it, and
the worker has reached it only with a task whose status let it be picked. A crash keeps the
tracker and the file and drops the rest, so that `TaskInv` must already be what recovery needs,
at every place.

### Mastermind and executors: `QueueScheduling_proofs`, `QueueRuns_proofs`

| Theorem | Property | Holds for | Argument |
|---|---|---|---|
| `QueueTypeCorrect` | `TypeOK` | everything | by actions; the decisions of the scheduler and the queue's operators keep their types |
| `DependenciesComeFirst` | `DependenciesFirst` | all failures, every bus and tracker, whatever the key | `ClosedIsDone`: whatever says `closed`, in the tracker, a tree, the record or an event, says it of a completed task. `OnlyReleased`: an item anywhere between the round that sends it and the runner has its dependencies completed |
| `TasksRunAlone` | `RunsAlone` (completed tasks of tk and GitHub aside) | `Steady` | `OncePlaced`: a task is in one place only of those between the round and the handling of its end. `MarksHold`: while it is there it is marked, or nobody calls it open any more. `TreesFollow`: snapshot and difference of a tick agree, and call open what the tracker does |
| `CapacityIsKept` | `WithinCapacity` | `Calm` | `InBudget`: what is queued, runs or is about to be sent is within the slots times backpressure. `LoadIsMarked`: each such task is counted once, by a mark or by one on its way. `NothingFails`, `NobodyLeaves`: no tree, record or event calls an unfinished task anything but open or in progress, and the registry keeps whom it had |

The hypotheses are the boundary the code has, found by TLC, and not one that the proof needs:

- `Steady` (no `lag`, `outage` or `transient`; and no `late` or `restart`, or the memory bus, where
  there are none): with any one of these a task does run twice (section 3). Runners, workspaces
  and tracker writes that fail, lost events, executors that stop, expire or come late are
  allowed, any number of times, on every bus.
- `Calm` (memory or NATS; no failure but `lag`, `drop` and `write`; each task matched by an executor
  that is registered from the start; tasks and executors finite): a failure, an executor that
  stops and a task that nobody matches exceed the budget (section 3). For `late`, `expiry` and
  `restart`, and for Redis, whose items change identity when they are refused, TLC finds no
  violation on instances of one or two executors, and the theorem says nothing.

### Control plane: `Control_proofs`

| Theorem | Property | Argument |
|---|---|---|
| `CallsFindTheirAnswers` | `CallsAreMatched` | `ServiceInv`: an entry of the map belongs to the one call that waits under it, and until the call has used up its attempts its request, its answer or a further attempt is still to come; no message is twice in a channel |
| `DispatchesAreSound` | `DispatchIsSound` | `DispatchInv`: calls of a task come in turn, and the earlier ones failed; a handler exists only for a call that was sent to it, once; a result on its way says what its handler did |
| `AnswersAreTrue` | `AnswerIsTrue` | `StatusInv`: what a command is still to write and what it wrote are together what it was meant to; answers, also those remembered, are those of the writes |
| `NoUpdateIsLost` | `ExpectedIsOverwritten`, an action property, for statuses that have a version | the same: versions only grow and were told before they are expected; a write that was reported as failed is remembered as one without a version until the next one that succeeds |
| `CopiesAreCurrent` | `CopyIsCurrent` | `FeedInv`: after the last round its snapshot is still at the source, or forwarded with nothing but differences behind it, or applied, and the newest difference changes nothing in the newest graphs |
| `NoEventIsForgotten` | `EventsAreAccounted` | `SinkInv`: the lines of the stream cover the events up to the last line, without gap or overlap, and what came later is pending; each event is in one place on its way to the file |
| `ControlTypeCorrect` | `ControlTypeOK` | a behaviour of `ControlSpec` is one of each part's own specification (`ExchangesAlone`), so that the invariants above and that of the monitor carry over. Beside them: no version, remembered, told or on its way, is above what the backends' writes are counted to (`VersionsBounded`); a difference names no task its root does not have, and applying it adds none (`DiffWithin`, `ApplyWithin`); the registry lists executors only, in whatever order notices come (`DispatchShapes`); no channel holds more than its room |

### Monitor: `MonitorView_proofs`

`ViewsAreTrue` says `ViewSpec => []ViewIsTrue`. Its four parts rest on each other little:

- *Kept rows are the present ones.* The rows are a function of `Model`; each step either leaves
  all of it alone (`SameRows`), or makes the rows old, or keeps what it has just made of it.
- *Each task is once in the graph, below its parent.* `GraphRows` walks with a list of what is to
  come, as the calls of `emitGraphPanelRows` do that wait for each other. `WalkInv` is inductive
  over its steps: no task is shown twice; depths in the list fall; each entry is below a row that
  nothing has closed, or at the top; each task, and each child of a task that is shown, is shown or
  to come. A task shown at the top with a parent is one that no root leads to, since the roots and
  all below them come first (`RootsFirst`), and a chain of parents that never reaches a root never
  ends (`Endless`). The walk ends because each task comes once as a root or a child and once in the
  second loop (`CallsLeft`); so `GraphIsWhole` holds for cycles, tasks that depend on themselves and
  dependencies that nobody knows.
- *A finished task is not shown as better than it ended.* `FinishIsKept`: what an event leaves of
  the severity agrees with the terminal status until the task begins again.
- *The selected row is in the window*, with as many rows as there is room for: arithmetic on what
  the cursor may be after rows came or went (there is always one row, the run's).

The queue is the one sequence in which each task is ahead of the next (`QueueIsSorted`): any finite
set can be put in an order that is strict and total (`Ordered`).

The library's induction theorems take an operator as a parameter, and cannot be used here. Where a
proof needs induction over a number (a walk of n steps, a join of n sequences, a set of n members)
it takes the first number at which the claim fails, which `NatMin` provides from the
well-foundedness of `<`, and shows that there is none (`UpTo`, `Iterates`, `JoinIs`).

### Agents: `Agents_proofs`

`AgentInv` joins one inductive invariant for each part, since no part touches another's state.

| Theorem | Property | Argument |
|---|---|---|
| `AgentsTypeCorrect` | `AgentTypeOK` | with the invariants, since the counters' bounds follow from them |
| `BudgetsKept` | `BudgetIsKept` | `EntryInv` (a stage is run at least as often as it is come to) and `BudgetInv` (it is run again by itself only with budget left); over every accepted configuration, also one that leads back |
| `WatcherKnows` | `WatcherIsCurrent` | `WatchInv`: the checksum kept is that of what the callback was told, unless reading failed since |
| `SuccessesAreEarned` | `SuccessIsEarned` | `PromptInv`, `WordInv`, `SupervisorInv`, `ThoughtInv`: what looks like a success comes after the prompt's end, the agent's word, the child's exit, the acceptance |
| `SilencesAreReal` | `SilenceIsReal` | `ClockInv`: the watchdog's clock is behind only while the log has grown since it looked; `MonitorInv`: at most one warning is sent or on its way in a silence, beside a late one of the silence before |
| `NothingStays` | `NothingLeft` | `ExitInv`, `AgentInPlace`, `SupervisorInv`: a place behind the wait is reached only by a process that has ended |

### Trackers, engine and gates: `Data_proofs`

| Theorem | Property | Argument |
|---|---|---|
| `StatusesAgree` | `GitHubAgrees` | `GitHubInv`: what a save under way will leave of the others' statuses is what the file has (`FileInv`), without which no save could be shown to lose nothing; a status is kept also while data is set (`AgreeInv`); a request not answered yet has not posted (`PostsInv`); what is now, and what was listed as closed, is among what was possible (`ListInv`). `WaitsForItsOwn` follows from how a tree and its graph are built, for every board |
| `WritesAreKept` | `WriteIsKept` | `IssueInv`: behind the step that stores it a write's status is what the tracker has, one worker is between the look at the ticket and the commit (`WritesInv`), and a status reads back unless somebody is setting another, also while data is written (`KeptInv`) |
| `TreesAreFaithful` | `TreeIsFaithful` | what a breadth-first search finds is the least set with the root and all their children (`Descendants`). Without an issue it would not be closed only if it has that issue's parent, another one: so each task but the root has its parent in the tree and is not its own (`FoundBelow`), and each tracker's tree follows from how its relations are made (`ScopedTreeFacts`) |
| `GraphsAreSound` | `GraphIsSound` | `SearchInv`: each task on the stack leads to the next, and to nothing else but what has been left or is still to be looked at (`WayInv`); what has been left leads only to what has been left, and every set of these has a task that leads to none of it (`VisitedInv`). The last is what lets a search that has left everything say that there is no cycle; it is kept because a task is left only after all it leads to. `LevelsInv`: the first level has every task that may start. `StuckTasksWait`: the open tasks of a stuck graph that nothing explains would each wait for another one, a cycle the search refuses |
| `WorkIsOrdered` | `WorkFollowsGraph` | `EngineInv`: what was offered may run, by the tracker (`OfferedInv`), and the statuses a refresh has read are still the tracker's but for what was not shared (`ReadingInv`): a refresh and the callers exclude each other only in parts |
| `TasksAreGated` | `GatesHold` | that saying more never scores less is proved of the score itself, from the cardinalities of the sections and signs; the rest from `GatesInv`, which adds to the property what each place has passed (`PassedInv`), that what is missed was missing or failed to be looked up (`MissedInv`), and that at the decision one failure of its kind is not paid for yet (`OwnInv`), without which a retry could not be shown to be its own |
| `DataTypeCorrect` | `DataTypeOK` | a behaviour of `DataSpec` is one of each part's own specification (`PartsAlone`), so that the invariants above and those of the state file carry over; with the counters (`TallyInv`, `ExtrasInv`, `GatesFit`) they give the types |

The search and the count of levels are steps of a machine and not recursive operators, as the
code is recursive: what is proved is an invariant of the steps. The breadth-first search of the
trackers is stated by its result.

### What is only model-checked

Liveness under fairness: `RunEnds` (in `loop_faults`), `QueueDrains`, `RunsComeToAnEnd`. Fairness is stated with
`ENABLED`, which the provers do not support. Every invariant and every action property that a
passing run checks is stated by a theorem.

## 6. What is not modelled, and the plan

Not modelled: command lines, prompts, HTTP clients, decoding and aggregation of agents'
messages, git itself, encoding, logging and layout (no state, or only that of an external
program); the in-memory graph and the bus's request and respond, which nothing calls; the
trackers' own selection of the next tasks, which the engine replaces; beads' tree through its
command line; Linear's webhooks; the monitor's history, triage and landing lists; the verbose
mode of the stream, which holds nothing back; and the third-party ACP library.

Abstracted in what is modelled: several graphs and priorities in `QueueScheduling` (any order
is allowed), the wording of descriptions in `TaskGates` (a sign is there or not), the text of
agents' messages (a success, a failure or nothing).

What is left: `CapacityIsKept` without `Calm`'s restriction on the bus, if TLC agrees; and the
history, triage and landing lists of the monitor. New theorems go into the modules of theorems
there are.
