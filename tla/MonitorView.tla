------------------------------ MODULE MonitorView -------------------------------
(* The monitor (internal/ui/monitor): it folds the events of a run into what it    *)
(* knows of workers and tasks, and shows that as rows in a tree, which it keeps    *)
(* until something changes.  The viewer's keys move among the rows, open and close *)
(* them.  Titles, messages and times are left out.                                 *)
EXTENDS Integers, FiniteSets, SequencesExt

CONSTANTS
    ViewTasks,      \* the tasks, ordered by ID
    ViewWorkers,    \* the workers, ordered by ID
    Takers,         \* the workers that may take each task
    Place,          \* the queue position and priority each task is started with
    Relations,      \* for each task the dependencies, or else the parent, its start names
    Viewers,        \* what the viewer's keys may have made of the monitor before the first event
    PanelRowLimit, ViewportHeight, OutputBufCap,
    MaxViewEvents, MaxKeys

\* IDs are unique.  A place is what the monitor keeps of it: a position and a priority.
ASSUME ViewAssumption ==
    /\ \A IDs \in {ViewTasks, ViewWorkers} :
        IDs \in Seq(ToSet(IDs)) /\ \A i, j \in DOMAIN IDs : IDs[i] = IDs[j] => i = j
    /\ "none" \notin ToSet(ViewTasks)
    /\ \A t \in ToSet(ViewTasks) : Takers[t] \subseteq ToSet(ViewWorkers) /\ Place[t] \in Nat \X Int
    /\ Relations # {}
    /\ \A r \in Relations : \A t \in ToSet(ViewTasks) : r[t] \in Seq(ToSet(r[t]))
    /\ \A v \in Viewers : v.cursor \in Nat /\ v.filter \in {"all", "active"}
    /\ PanelRowLimit \in Nat \ {0} /\ ViewportHeight \in Nat \ {0} /\ OutputBufCap \in Nat

VARIABLES
    runBy,          \* the run is an agent loop's or the queue workers'
    relation,       \* the dependencies of its tasks
    taskLife,           \* where each task is in its run
    phase,          \* the type of the last event
    workers, tasks, \* the workers and tasks heard of
    panelCursor, panelExpand, queueFilter,
    panelRowsCache, panelRowsDirty, panelRowsTruncated,
    seenEvents, seenKeys

foldVars == <<taskLife, phase, workers, tasks, seenEvents>>
keyVars  == <<panelCursor, panelExpand, queueFilter, seenKeys>>
rowVars  == <<panelRowsCache, panelRowsDirty, panelRowsTruncated>>
viewVars == <<runBy, relation, foldVars, keyVars, rowVars>>

NoOne == <<>>

ViewInit ==
    /\ runBy \in {"loop", "queue"}
    /\ relation \in IF runBy = "loop" THEN Relations ELSE {CHOOSE r \in Relations : TRUE}
    /\ taskLife = [t \in ToSet(ViewTasks) |-> "new"]
    /\ phase = "none" /\ workers = NoOne /\ tasks = NoOne
    /\ \E v \in Viewers :
        panelCursor = v.cursor /\ panelExpand = v.open /\ queueFilter = v.filter
    /\ panelRowsCache = <<>> /\ panelRowsDirty = TRUE /\ panelRowsTruncated = FALSE
    /\ seenEvents = 0 /\ seenKeys = 0

-------------------------------------------------------------------------------
(* Events. *)

\* The events of one task, in the order a loop's worker emits them: it runs the agent once or
\* more often, and the watch over the agent may warn when the agent has already returned.
LoopSteps ==
    {<<"new", "task_started", "begun">>, <<"begun", "runner_started", "running">>,
     <<"running", "runner_output", "running">>, <<"running", "runner_finished", "ran">>,
     <<"ran", "runner_started", "running">>, <<"begun", "task_finished", "over">>,
     <<"ran", "task_finished", "over">>, <<"over", "task_started", "begun">>}
    \cup {<<l, "runner_warning", l>> : l \in {"running", "ran", "over"}}

\* In the order a queue worker does.
QueueSteps ==
    {<<"new", "task_failed", "over">>, <<"new", "task_started", "begun">>,
     <<"begun", "runner_output", "begun">>, <<"begun", "task_completed", "ran">>, <<"ran", "task_finished", "over">>,
     <<"begun", "task_failed", "over">>, <<"over", "task_started", "begun">>}

\* A task's events come from the worker that took it.
ReportersOf(t, type) ==
    IF taskLife[t] = "new" \/ type = "task_started" THEN Takers[t] ELSE {tasks[t].worker}

\* The status an event ends with, two of the three there are; a queue worker's is a sentence.
StatusesOf(type) ==
    CASE type = "runner_finished" -> {"completed", "blocked"}
      [] type = "task_finished" -> IF runBy = "loop" THEN {"closed", "failed"} ELSE {"task finished"}
      [] OTHER -> {"none"}

StageOf ==
    [task_started |-> "selecting", runner_started |-> "running", runner_finished |-> "closing",
     task_finished |-> "done", task_completed |-> "done"]

SeverityOf(status) ==
    CASE status = "failed" -> "error"
      [] status = "blocked" -> "warning"
      [] status \in {"completed", "closed"} -> "info"
      [] OTHER -> "none"

Unheard == [worker |-> "none", phase |-> "none", stage |-> "none", outputs |-> 0, warned |-> FALSE,
            terminal |-> "none", severity |-> "none", place |-> <<0, 0>>, parents |-> <<>>]

\* applyDerivedTaskEvent.
Derived(task, type, status) ==
    [task EXCEPT
        !.stage = IF type \in DOMAIN StageOf THEN StageOf[type] ELSE @,
        !.outputs = IF type = "runner_output" /\ @ < OutputBufCap THEN @ + 1 ELSE @,
        !.warned = IF type = "runner_finished" THEN FALSE ELSE @ \/ type = "runner_warning",
        !.terminal = IF type \in {"runner_finished", "task_finished"} THEN status ELSE @,
        !.severity =
            CASE type \in {"runner_finished", "task_finished"} -> SeverityOf(status)
              [] type = "runner_warning" -> "warning"
              [] OTHER -> @]

Heard(known, x, value) == [y \in DOMAIN known \cup {x} |-> IF y = x THEN value ELSE known[y]]

\* Apply.  The start that a loop emits names the task's place and relations as well.
Fold(t, w, type, status) ==
    LET old  == IF t \in DOMAIN tasks THEN tasks[t] ELSE Unheard
        told == type = "task_started" /\ runBy = "loop"
        seen == [old EXCEPT !.worker = w, !.phase = type,
                            !.place = IF told THEN Place[t] ELSE @,
                            !.parents = IF told THEN relation[t] ELSE @]
    IN  /\ phase' = type
        /\ workers' = Heard(workers, w, t)
        /\ tasks' = Heard(tasks, t, Derived(seen, type, status))
        /\ panelRowsDirty' = TRUE
        /\ UNCHANGED <<panelRowsCache, panelRowsTruncated>>

ReceiveEvent ==
    /\ seenEvents < MaxViewEvents /\ seenEvents' = seenEvents + 1
    /\ \E t \in ToSet(ViewTasks), step \in IF runBy = "loop" THEN LoopSteps ELSE QueueSteps :
        /\ step[1] = taskLife[t]
        /\ \E w \in ReportersOf(t, step[2]), status \in StatusesOf(step[2]) : Fold(t, w, step[2], status)
        /\ taskLife' = [taskLife EXCEPT ![t] = step[3]]
    /\ UNCHANGED <<runBy, relation, keyVars>>

\* A line of the stream that cannot be decoded: a warning of no task and no worker.
ReceiveGarbage ==
    /\ seenEvents < MaxViewEvents /\ seenEvents' = seenEvents + 1
    /\ phase' = "runner_warning"
    /\ panelRowsDirty' = TRUE
    /\ UNCHANGED <<runBy, relation, taskLife, workers, tasks, panelRowsCache, panelRowsTruncated, keyVars>>

-------------------------------------------------------------------------------
(* What the rows say. *)

Rank == [none |-> 0, info |-> 1, warning |-> 2, error |-> 3]

\* maxSeverity.
Worst(severities) ==
    CHOOSE s \in severities \cup {"none"} : \A u \in severities : Rank[s] >= Rank[u]

\* deriveTaskSeverity.
Severity(task) ==
    LET last == task.severity
    IN  Worst({IF last = "none" THEN SeverityOf(task.terminal) ELSE last,
               IF task.warned THEN "warning" ELSE "none"})

Completed(task) == task.terminal \in {"completed", "closed"}
Ended(task)     == Completed(task) \/ task.terminal \in {"blocked", "failed"}

\* The members of a set, in the order of their IDs.
Sorted(IDs, members) ==
    FlattenSeq([i \in DOMAIN IDs |-> IF IDs[i] \in members THEN <<IDs[i]>> ELSE <<>>])
SortedTasks(members)    == Sorted(ViewTasks, members)
TasksForWorker(known, w) == SortedTasks({t \in DOMAIN known : known[t].worker = w})

\* What the rows are made from.
Model == [phase |-> phase, workers |-> workers, tasks |-> tasks, open |-> panelExpand, filter |-> queueFilter]

TaskSeverity(m)   == Worst({Severity(m.tasks[t]) : t \in DOMAIN m.tasks})
WorkerSeverity(m) == Worst({Severity(m.tasks[m.workers[w]]) : w \in DOMAIN m.workers})
RunSeverity(m) ==
    Worst({TaskSeverity(m), WorkerSeverity(m), IF m.phase = "runner_warning" THEN "warning" ELSE "none"})

-------------------------------------------------------------------------------
(* The queue and the graph. *)

Ahead(known, t, u) ==
    LET p == known[t].place q == known[u].place
    IN  \/ p[1] < q[1]
        \/ p[1] = q[1] /\ p[2] > q[2]
        \/ p = q /\ \E i, j \in DOMAIN ViewTasks : i < j /\ t = ViewTasks[i] /\ u = ViewTasks[j]

\* sortedQueueTaskIDs: when a task has a place, those without one are not in the queue.
InQueue(known, filter0) ==
    LET kept   == {t \in DOMAIN known : filter0 = "all" \/ ~Ended(known[t])}
        placed == {t \in kept : known[t].place[1] > 0 \/ known[t].place[2] # 0}
    IN  IF placed = {} THEN kept ELSE placed
SortedQueue(known, filter0) ==
    CHOOSE queue \in [1 .. Cardinality(InQueue(known, filter0)) -> InQueue(known, filter0)] :
        \A i, j \in DOMAIN queue : i < j => Ahead(known, queue[i], queue[j])

\* The first parent of a task that is known (buildTaskDependencyGraph).
PrimaryParent(known, t) ==
    LET parents == known[t].parents
        knownOf == {i \in DOMAIN parents : parents[i] \in DOMAIN known \ {t}}
    IN  IF knownOf = {} THEN "none" ELSE parents[CHOOSE i \in knownOf : \A j \in knownOf : i <= j]
Children(known, t) == SortedTasks({c \in DOMAIN known : PrimaryParent(known, c) = t})
Roots(known)       == Children(known, "none")

\* emitGraphPanelRows: the task that comes next is shown, unless it is already, and those below
\* it come before the rest, which are the calls that wait for this one.
At(seq, depth) == [i \in DOMAIN seq |-> [task |-> seq[i], depth |-> depth]]
Emit(known, walk) ==
    LET next == Head(walk.todo)
    IN  IF walk.todo = <<>> THEN walk
        ELSE IF \E i \in DOMAIN walk.rows : walk.rows[i].task = next.task
        THEN [walk EXCEPT !.todo = Tail(@)]
        ELSE [rows |-> Append(walk.rows, next),
              todo |-> At(Children(known, next.task), next.depth + 1) \o Tail(walk.todo)]

\* renderGraphPanelRows: from the roots, and then from what no root leads to.  Every task comes
\* once as a root or a child, and once in the second loop.
GraphRows(known) ==
    LET calls == 2 * Cardinality(DOMAIN known)
        walk[n \in 0 .. calls] ==
            IF n = 0 THEN [rows |-> <<>>, todo |-> At(Roots(known) \o SortedTasks(DOMAIN known), 2)]
                     ELSE Emit(known, walk[n - 1])
    IN  walk[calls].rows

-------------------------------------------------------------------------------
(* The rows. *)

Row(open, id, depth, severity, done, opens) ==
    [id |-> id, depth |-> depth, severity |-> severity, completed |-> done,
     hasChildren |-> opens, expanded |-> id \in open]

\* A row that is always open to more, and what is below it.
Panel(open, id, depth, severity, below) ==
    <<Row(open, id, depth, severity, FALSE, TRUE)>> \o (IF id \in open THEN below ELSE <<>>)

\* A task's row, with its outputs below it.
TaskRows(open, id, task, depth) ==
    <<Row(open, id, depth, Severity(task), Completed(task), task.outputs > 0)>>
    \o (IF id \in open
        THEN [i \in 1..task.outputs |-> Row(open, Append(id, i), depth + 1, "none", FALSE, FALSE)]
        ELSE <<>>)

WorkerRows(m, w) ==
    LET own == TasksForWorker(m.tasks, w)
    IN  Panel(m.open, <<"worker", w>>, 2, Worst({Severity(m.tasks[own[i]]) : i \in DOMAIN own}),
              FlattenSeq([i \in DOMAIN own |->
                             TaskRows(m.open, <<"worker", w, own[i]>>, m.tasks[own[i]], 3)]))

WorkersBelow(m) ==
    LET all == Sorted(ViewWorkers, DOMAIN m.workers)
    IN  FlattenSeq([i \in DOMAIN all |-> WorkerRows(m, all[i])])
TasksBelow(m) ==
    LET all == SortedTasks(DOMAIN m.tasks)
    IN  FlattenSeq([i \in DOMAIN all |-> TaskRows(m.open, <<"task", all[i]>>, m.tasks[all[i]], 2)])
QueueBelow(m) ==
    LET queue == SortedQueue(m.tasks, m.filter)
    IN  FlattenSeq([i \in DOMAIN queue |-> TaskRows(m.open, <<"queue", queue[i]>>, m.tasks[queue[i]], 2)])
\* These rows do not open.
GraphBelow(m) ==
    LET rows == GraphRows(m.tasks)
    IN  [i \in DOMAIN rows |->
            Row({}, <<"graph", rows[i].task>>, rows[i].depth, Severity(m.tasks[rows[i].task]),
                Completed(m.tasks[rows[i].task]), Children(m.tasks, rows[i].task) # <<>>)]

RunRow == <<"run">>

AllRows(m) ==
    Panel(m.open, RunRow, 0, RunSeverity(m),
        Panel(m.open, <<"workers">>, 1, WorkerSeverity(m), WorkersBelow(m))
        \o Panel(m.open, <<"tasks">>, 1, TaskSeverity(m), TasksBelow(m))
        \o Panel(m.open, <<"queue">>, 1, TaskSeverity(m), QueueBelow(m))
        \o Panel(m.open, <<"graph">>, 1, TaskSeverity(m), GraphBelow(m)))

Within(rows) == IF Len(rows) > PanelRowLimit THEN SubSeq(rows, 1, PanelRowLimit) ELSE rows

\* panelRows.
PanelRows == IF panelRowsDirty THEN Within(AllRows(Model)) ELSE panelRowsCache

\* What panelRows keeps: nothing when the run's row is closed.
KeepsRows == panelRowsDirty /\ RunRow \in panelExpand
KeepRows ==
    /\ panelRowsCache' = IF KeepsRows THEN PanelRows ELSE panelRowsCache
    /\ panelRowsTruncated' =
        IF KeepsRows THEN Len(AllRows(Model)) > PanelRowLimit ELSE panelRowsTruncated

\* UIState, View.
ShowView ==
    /\ KeepRows
    /\ panelRowsDirty' = (panelRowsDirty /\ ~KeepsRows)
    /\ UNCHANGED <<runBy, relation, foldVars, keyVars>>

-------------------------------------------------------------------------------
(* Keys. *)

\* The row a cursor that may be past the last row stands for.
Selected == IF panelCursor < Len(PanelRows) THEN panelCursor ELSE Len(PanelRows) - 1

\* CycleQueueFilter.
OtherFilter == IF queueFilter = "all" THEN "active" ELSE "all"

\* Mutant: another filter does not make the rows old.
HandleKey_KeepsQueue(key) ==
    LET rows == PanelRows
        row  == rows[Selected + 1]
        toggles == key \in {"enter", "right", "left"} /\ row.hasChildren
        opens   == key = "right" \/ (key = "enter" /\ ~row.expanded)
    IN  /\ panelCursor' = CASE key = "down" /\ Selected < Len(rows) - 1 -> Selected + 1
                            [] key = "up" /\ Selected > 0 -> Selected - 1
                            [] OTHER -> Selected
        /\ panelExpand' = IF ~toggles THEN panelExpand
                          ELSE IF opens THEN panelExpand \cup {row.id} ELSE panelExpand \ {row.id}
        /\ queueFilter' = IF key = "f" THEN OtherFilter ELSE queueFilter
        /\ KeepRows
        /\ panelRowsDirty' = (toggles \/ (panelRowsDirty /\ ~KeepsRows))

HandleKey(key) ==
    LET rows == PanelRows
        row  == rows[Selected + 1]
        toggles == key \in {"enter", "right", "left"} /\ row.hasChildren
        opens   == key = "right" \/ (key = "enter" /\ ~row.expanded)
    IN  /\ panelCursor' = CASE key = "down" /\ Selected < Len(rows) - 1 -> Selected + 1
                            [] key = "up" /\ Selected > 0 -> Selected - 1
                            [] OTHER -> Selected
        /\ panelExpand' = IF ~toggles THEN panelExpand
                          ELSE IF opens THEN panelExpand \cup {row.id} ELSE panelExpand \ {row.id}
        /\ queueFilter' = IF key = "f" THEN OtherFilter ELSE queueFilter
        /\ KeepRows
        /\ panelRowsDirty' = (toggles \/ key = "f" \/ (panelRowsDirty /\ ~KeepsRows))

PressKey ==
    /\ seenKeys < MaxKeys /\ seenKeys' = seenKeys + 1
    /\ \E key \in {"up", "down", "enter", "right", "left", "f"} : HandleKey(key)
    /\ UNCHANGED <<runBy, relation, foldVars>>

ViewNext == ReceiveEvent \/ ReceiveGarbage \/ ShowView \/ PressKey

ViewSpec == ViewInit /\ [][ViewNext]_viewVars

-------------------------------------------------------------------------------
(* The window on the rows. *)

\* panelWindow: the first row shown and the one after the last.
Window(total, cursor, height) ==
    LET above == IF cursor > height \div 2 THEN cursor - height \div 2 ELSE 0
    IN  IF height >= total THEN <<0, total>>
        ELSE IF above + height > total THEN <<total - height, total>>
        ELSE <<above, above + height>>

-------------------------------------------------------------------------------
(* Properties. *)

ViewTypeOK ==
    /\ DOMAIN tasks \subseteq ToSet(ViewTasks) /\ DOMAIN workers \subseteq ToSet(ViewWorkers)
    /\ \A t \in DOMAIN tasks : tasks[t].outputs <= OutputBufCap
    /\ Len(panelRowsCache) <= PanelRowLimit /\ queueFilter \in {"all", "active"}

\* Rows that are kept are those of the present state, and what is cut off is said of
\* (panelRows, and everything that marks its rows as dirty).
RowsAreCurrent ==
    ~panelRowsDirty =>
        /\ panelRowsCache = Within(AllRows(Model))
        /\ panelRowsTruncated = (Len(AllRows(Model)) > PanelRowLimit)

\* Whatever tasks depend on, unknown tasks, themselves or each other, each known task is once in
\* the graph: below its first known parent, or at the top if no chain of parents ends
\* (buildTaskDependencyGraph, emitGraphPanelRows).
NeverEnding(known, t) ==
    \E above \in SUBSET DOMAIN known : t \in above /\ \A x \in above : PrimaryParent(known, x) \in above
GraphHasEveryTask(known) ==
    LET rows == GraphRows(known)
        Parent(i) == PrimaryParent(known, rows[i].task)
        IsBelow(i, j) ==
            /\ j < i /\ rows[i].depth = rows[j].depth + 1
            /\ rows[j].task = Parent(i)
            /\ \A k \in (j + 1)..(i - 1) : rows[k].depth > rows[j].depth
    IN  /\ Len(rows) = Cardinality(DOMAIN known)
        /\ {rows[i].task : i \in DOMAIN rows} = DOMAIN known
        /\ \A i \in DOMAIN rows :
            \/ \E j \in DOMAIN rows : IsBelow(i, j)
            \/ rows[i].depth = 2 /\ (Parent(i) = "none" \/ NeverEnding(known, rows[i].task))

\* A task whose last event is its finish is not shown as better than it ended
\* (applyDerivedTaskEvent, deriveTaskSeverity).
OutcomeIsShown ==
    \A t \in DOMAIN tasks :
        tasks[t].phase = "task_finished" => Rank[Severity(tasks[t])] >= Rank[SeverityOf(tasks[t].terminal)]

\* The window shows the selected row, and as many rows as it has room for, wherever the rows
\* that come and go have left the cursor (uiPanelLines, panelWindow).
SelectedIsShown ==
    LET total  == Len(PanelRows)
        window == Window(total, Selected, ViewportHeight)
    IN  /\ window[1] <= Selected /\ Selected < window[2]
        /\ window[1] >= 0 /\ window[2] <= total
        /\ window[2] - window[1] = IF total < ViewportHeight THEN total ELSE ViewportHeight

\* What the monitor shows is what the events have told it.
ViewIsTrue == RowsAreCurrent /\ GraphHasEveryTask(tasks) /\ OutcomeIsShown /\ SelectedIsShown
================================================================================
