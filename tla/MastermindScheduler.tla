-------------------------- MODULE MastermindScheduler --------------------------
(* The mastermind's view of a task graph and the decisions it takes on it         *)
(* (internal/distributed/mastermind_scheduler.go).  The scheduler's record `s`    *)
(* holds the nodes it knows (a function from the tasks present to their status)   *)
(* and three sets of marks: tasks it has put on the queue, tasks a worker said    *)
(* it started, and tasks it reported as having no capable executor.               *)
EXTENDS Naturals, FiniteSets, Functions, FiniteSetsExt

CONSTANTS Task,
          NoTask,         \* the parent of a task that has none
          Root,           \* the task that names the graph (graph_ref)
          Parent,         \* Parent[t]: parent_task_id of t's node
          DependsOn,      \* DependsOn[t]: the tasks t's tracker entry depends on
          DependencyKey,  \* metadata key under which nodes list them
          Backpressure    \* percentage of the free slots that may be in flight

ASSUME GraphAssumption ==
    /\ NoTask \notin Task
    /\ Parent \in [Task -> Task \cup {NoTask}]
    /\ DependsOn \in [Task -> SUBSET Task]
    /\ Backpressure \in Nat

Status == {"open", "in_progress", "blocked", "closed"}

Trees == UNION {[present -> Status] : present \in SUBSET Task}

NoGraph == [t \in {} |-> "open"]

SchedulerType == [node : Trees, enqueued : SUBSET Task,
                  inProgress : SUBSET Task, blocked : SUBSET Task]

EmptyScheduler == [node |-> NoGraph, enqueued |-> {}, inProgress |-> {}, blocked |-> {}]

-------------------------------------------------------------------------------
(* Events that change the record. *)

Unmark(s, gone) == [s EXCEPT !.enqueued = @ \ gone,
                             !.inProgress = @ \ gone,
                             !.blocked = @ \ gone]

\* Mutant: only the marks of tasks that left the graph are dropped.
PruneState_KeepsClosed(s) == Unmark(s, Task \ DOMAIN s.node)

\* Marks survive only on nodes that are still open or in progress.
PruneState(s) ==
    Unmark(s, Task \ {t \in DOMAIN s.node : s.node[t] \in {"open", "in_progress"}})

\* A snapshot replaces the graphs it names; one that names none only prunes.
ApplySnapshot(s, tree) ==
    PruneState(IF tree = NoGraph THEN s ELSE [s EXCEPT !.node = tree])

ApplyDiff(s, diff) ==
    LET kept == (DOMAIN s.node \cup DOMAIN diff.upsert) \ diff.delete
        node == [t \in kept |-> IF t \in DOMAIN diff.upsert THEN diff.upsert[t] ELSE s.node[t]]
    IN  PruneState([Unmark(s, diff.delete) EXCEPT !.node = node])

SetNode(s, t, status) ==
    [s EXCEPT !.node = [u \in DOMAIN @ |-> IF u = t THEN status ELSE @[u]]]

TaskStarted(s, t) ==
    [SetNode(s, t, "in_progress") EXCEPT !.enqueued = @ \ {t}, !.inProgress = @ \cup {t}]

TaskCompleted(s, t) == Unmark(SetNode(s, t, "closed"), {t})

\* The mark "no executor matches" stays.
TaskFailed(s, t) ==
    [SetNode(s, t, "blocked") EXCEPT !.enqueued = @ \ {t}, !.inProgress = @ \ {t}]

-------------------------------------------------------------------------------
(* Which tasks may run. *)

\* The metadata keys the scheduler reads dependencies from.  The shipped trackers list
\* them under another one, "dependencies"; the parent comes with the node itself.
DependencyKeys == {"depends_on", "depends-on", "blocked_by", "blocked-by", "deps"}

Dependencies(t) ==
    ({Parent[t]} \ {NoTask}) \cup (IF DependencyKey \in DependencyKeys THEN DependsOn[t] ELSE {})

\* Mutant: a dependency that has been taken up is enough.
DependenciesSatisfied_Started(s, t) ==
    \A d \in Dependencies(t) : d \in DOMAIN s.node /\ s.node[d] # "open"

DependenciesSatisfied(s, t) ==
    \A d \in Dependencies(t) : d \in DOMAIN s.node /\ s.node[d] = "closed"

HasChildren(s, t) == \E c \in DOMAIN s.node : Parent[c] = t

RunnableCandidates(s) ==
    {t \in DOMAIN s.node : /\ s.node[t] = "open"
                           /\ ~(t = Root /\ HasChildren(s, t))
                           /\ DependenciesSatisfied(s, t)}

\* Mutant: tasks that run are thought to be off the budget.
Budget_EnqueuedOnly(s, freeSlots) ==
    LET limit == (freeSlots * Backpressure) \div 100
        flight == Cardinality(s.enqueued)
    IN  IF limit > flight THEN limit - flight ELSE 0

\* Free slots times the backpressure factor, less what is marked in flight.
Budget(s, freeSlots) ==
    LET limit  == (freeSlots * Backpressure) \div 100
        flight == Cardinality(s.enqueued) + Cardinality(s.inProgress)
    IN  IF limit > flight THEN limit - flight ELSE 0

\* Mutant: marked tasks are candidates again.
Plans_IgnoresMarks(s, freeSlots, matched) ==
    LET runnable == RunnableCandidates(s)
        ready    == runnable \cap matched
    IN  {[block |-> runnable \ (matched \cup s.blocked), send |-> send] :
            send \in kSubset(Min({Budget(s, freeSlots), Cardinality(ready)}), ready)}

\* What one round decides: tasks to report blocked and tasks to put on the queue.
\* Priority and the rotation over graphs order the candidates; any choice of that
\* many tasks is allowed here.
Plans(s, freeSlots, matched) ==
    LET runnable == RunnableCandidates(s) \ (s.enqueued \cup s.inProgress)
        ready    == runnable \cap matched
    IN  {[block |-> runnable \ (matched \cup s.blocked), send |-> send] :
            send \in kSubset(Min({Budget(s, freeSlots), Cardinality(ready)}), ready)}

\* The round also forgets that a task now matched was reported blocked.
AfterPlan(s, matched) ==
    [s EXCEPT !.blocked = @ \ (matched \cap (RunnableCandidates(s) \ (s.enqueued \cup s.inProgress)))]
===============================================================================
