------------------------------- MODULE TaskEngine -------------------------------
(* The manager that keeps the engine's graph (internal/agent/                       *)
(* storage_engine_task_manager.go).  It reads the tree from the tracker afresh     *)
(* under its lock before each answer; a status goes to the tracker first, without  *)
(* the lock, and then into the graph (internal/engine/engine.go).                  *)
EXTENDS GraphSearch

CONSTANTS
    Callers,     \* the goroutines that start tasks and report their statuses
    OthersSet    \* bound: the tasks whose status others change too, once each

ASSUME EngineAssumption == \A t \in Trees : OthersSet \subseteq t.tasks

-------------------------------------------------------------------------------
(* The manager. *)

VARIABLES
    tree,     \* the tree the tracker holds
    stored,   \* the statuses in the tracker
    graph,    \* the graph of the manager; NoGraph before the first answer
    reading,  \* what the refresh in progress, which holds the lock, has read; or NoGraph
    offered,  \* the tasks the last answer said may start
    refused,  \* the last answer was that the tree is no graph
    calls,    \* what each caller does: its task, the status it sets, and where it is
    outside,  \* the tasks whose status others changed
    moved     \* history: since the last reading, the tasks whose status was set and not shared

engineVars == <<tree, stored, graph, reading, offered, refused, calls, outside, moved>>

NoGraph == [none |-> "absent"]
NoCall == [at |-> "idle"]
Call(at, task, status) == [at |-> at, task |-> task, status |-> status]
Busy(id) == \E c \in Callers : calls[c].at # "idle" /\ calls[c].task = id

EngineTypeOK ==
    /\ TaskTree(tree)
    /\ stored \in [tree.tasks -> Statuses]
    /\ graph # NoGraph => graph.tasks = tree.tasks /\ graph.status \in [tree.tasks -> Statuses]
    /\ reading # NoGraph => reading \in [tree.tasks -> Statuses]
    /\ offered \subseteq tree.tasks /\ refused \in BOOLEAN
    /\ \A c \in Callers : calls[c] # NoCall => calls[c].task \in tree.tasks /\ calls[c].status \in Statuses
    /\ outside \subseteq OthersSet
    /\ moved \subseteq tree.tasks
    \* A task is with one caller at a time.
    /\ \A c, d \in Callers : (c # d /\ NoCall \notin {calls[c], calls[d]}) => calls[c].task # calls[d].task

EngineInit ==
    /\ tree \in Trees
    /\ stored = [id \in tree.tasks |-> "open"]
    /\ graph = NoGraph /\ reading = NoGraph /\ offered = {} /\ refused = FALSE
    /\ calls = [c \in Callers |-> NoCall]
    /\ outside = {}
    /\ moved = {}

\* NextTasks takes the lock and reads the tree.
RefreshGraph ==
    /\ reading = NoGraph
    /\ reading' = stored
    /\ moved' = {}
    /\ UNCHANGED <<tree, stored, graph, offered, refused, calls, outside>>

\* A tree that is refused leaves the graph of the last answer; the call fails.
NextTasks ==
    /\ reading # NoGraph
    /\ reading' = NoGraph
    /\ IF Accepted(tree)
       THEN graph' = BuildGraph(tree, reading) /\ offered' = Available(graph') /\ refused' = FALSE
       ELSE graph' = graph /\ offered' = {} /\ refused' = TRUE
    /\ UNCHANGED <<tree, stored, calls, outside, moved>>

\* The scheduling goroutine, which asks, also starts tasks and collects those that ended.
StartTask(c) ==
    /\ calls[c].at = "idle" /\ reading = NoGraph
    /\ \E id \in {id \in offered : ~Busy(id)} :
        /\ offered' = offered \ {id}
        /\ calls' = [calls EXCEPT ![c] = Call("storing", id, "in_progress")]
    /\ UNCHANGED <<tree, stored, graph, reading, refused, outside, moved>>

Collect(c) ==
    /\ calls[c].at = "ended" /\ reading = NoGraph
    /\ calls' = [calls EXCEPT ![c] = NoCall]
    /\ offered' = {}
    /\ UNCHANGED <<tree, stored, graph, reading, refused, outside, moved>>

EndTask(c) ==
    /\ calls[c].at = "working"
    /\ \E s \in {"open", "closed", "failed"} : calls' = [calls EXCEPT ![c] = Call("storing", calls[c].task, s)]
    /\ UNCHANGED <<tree, stored, graph, reading, offered, refused, outside, moved>>

\* SetTaskStatus at the tracker: it fails, or it is done and what makes it durable fails, or both are done.
StoreStatus(c) ==
    /\ calls[c].at = "storing"
    /\ LET id == calls[c].task
           s == calls[c].status
       IN  \/ /\ calls' = [calls EXCEPT ![c].at = "ended"]
              /\ UNCHANGED <<stored, moved>>
           \/ /\ stored' = [stored EXCEPT ![id] = s]
              /\ \/ calls' = [calls EXCEPT ![c].at = "stored"] /\ UNCHANGED moved
                 \/ calls' = [calls EXCEPT ![c].at = "ended"] /\ moved' = moved \cup {id}
    /\ UNCHANGED <<tree, graph, reading, offered, refused, outside>>

\* UpdateTaskStatus: a task is not closed before its dependencies.
Refused(id, s) == s = "closed" /\ ~Satisfied(graph, id)

\* Mutant: the graph is written without the manager's lock.
ShareStatus_Unlocked(c) ==
    /\ calls[c].at = "stored"
    /\ LET id == calls[c].task
           s == calls[c].status
       IN  IF graph # NoGraph /\ Refused(id, s)
           THEN moved' = moved \cup {id} /\ calls' = [calls EXCEPT ![c].at = "ended"] /\ UNCHANGED graph
           ELSE /\ graph' = IF graph = NoGraph THEN graph ELSE [graph EXCEPT !.status[id] = s]
                /\ calls' = [calls EXCEPT ![c].at = IF s = "in_progress" THEN "working" ELSE "ended"]
                /\ UNCHANGED moved
    /\ UNCHANGED <<tree, stored, reading, offered, refused, outside>>

\* The status goes into the graph under the lock, when one has been built; a refusal is an
\* error to the caller, whose status is in the tracker all the same.
ShareStatus(c) ==
    /\ calls[c].at = "stored" /\ reading = NoGraph
    /\ LET id == calls[c].task
           s == calls[c].status
       IN  IF graph # NoGraph /\ Refused(id, s)
           THEN moved' = moved \cup {id} /\ calls' = [calls EXCEPT ![c].at = "ended"] /\ UNCHANGED graph
           ELSE /\ graph' = IF graph = NoGraph THEN graph ELSE [graph EXCEPT !.status[id] = s]
                /\ calls' = [calls EXCEPT ![c].at = IF s = "in_progress" THEN "working" ELSE "ended"]
                /\ UNCHANGED moved
    /\ UNCHANGED <<tree, stored, reading, offered, refused, outside>>

\* Somebody else changes a task in the tracker.
ChangeOutside ==
    /\ \E id \in OthersSet \ outside, s \in {"open", "closed", "blocked"} :
        /\ stored[id] # s
        /\ stored' = [stored EXCEPT ![id] = s]
        /\ outside' = outside \cup {id}
    /\ UNCHANGED <<tree, graph, reading, offered, refused, calls, moved>>

EngineNext ==
    \/ RefreshGraph
    \/ NextTasks
    \/ \E c \in Callers : StartTask(c) \/ Collect(c) \/ EndTask(c) \/ StoreStatus(c) \/ ShareStatus(c)
    \/ ChangeOutside

EngineSpec == EngineInit /\ [][EngineNext]_engineVars

-------------------------------------------------------------------------------
(* Properties. *)

\* A graph that offers nothing, runs nothing and is not complete says why: some open task that
\* could run waits for one that failed or is blocked, for one the tracker does not know, or for an
\* open container, which nobody runs.  Nothing waits for itself (GetNextAvailable, IsComplete).
StuckIsExplained ==
    ( /\ graph # NoGraph
      /\ Available(graph) = {} /\ ~IsComplete(graph)
      /\ \A id \in graph.tasks : graph.status[id] # "in_progress" ) =>
        \E id \in graph.tasks :
            /\ OpenLeaf(graph, id)
            /\ \/ id \in graph.missing
               \/ \E d \in graph.dependencies[id] :
                      graph.status[d] \in {"failed", "blocked"} \/ (graph.status[d] = "open" /\ d \in graph.containers)
\* The graph the engine answers for never makes its workers wait for each other, nor for a place.
GraphIsSound == SearchIsRight /\ PoolCoversAvailable /\ StuckIsExplained

\* A task is worked on only after all its dependencies closed, and none of them was unknown to the
\* tracker; a dependency that is open all the same was reopened by somebody else since (NextTasks).
WorksInOrder ==
    \A c \in Callers :
        calls[c].at = "working" =>
            /\ calls[c].task \notin tree.missing
            /\ \A d \in Dependencies(tree)[calls[c].task] : stored[d] = "closed" \/ d \in outside

\* Outside a refresh, the graph and the tracker differ only in a task whose status a caller is
\* about to share, that somebody else changed, or whose closing the graph refused after the
\* tracker had taken it: no status that was shared is lost to a refresh (refreshGraphLocked).
GraphFollowsTracker ==
    (graph # NoGraph /\ reading = NoGraph) =>
        \A id \in tree.tasks :
            \/ graph.status[id] = stored[id]
            \/ id \in moved \cup outside
            \/ \E c \in Callers : calls[c].at = "stored" /\ calls[c].task = id
\* Work goes by the dependencies and by the statuses that were shared.
WorkFollowsGraph == WorksInOrder /\ GraphFollowsTracker
================================================================================
