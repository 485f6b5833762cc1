------------------------------ MODULE GraphSearch -------------------------------
(* The walks of the task engine over a graph, step by step                         *)
(* (internal/engine/engine.go): the depth-first search for a cycle, along the      *)
(* dependencies and along the parents, before a graph is accepted; and the count,  *)
(* level by level, of how many tasks may run at once.                              *)
EXTENDS TaskTrees, SequencesExt

CONSTANTS
    Trees,       \* the trees a tracker may hold, see TaskTree
    Standing,    \* the statuses of their tasks when the pool is sized
    WorkerLimit  \* the limit on concurrency the caller gives; 0 is none

ASSUME SearchAssumption ==
    /\ \A t \in Trees : TaskTree(t) /\ IsFiniteSet(t.tasks)
    /\ Standing \subseteq Statuses
    /\ WorkerLimit \in Nat

-------------------------------------------------------------------------------
(* findDependencyCycle, and assignDepths, which visits a task's parent.  The order *)
(* of the tasks and of what each leads to is by ID, and any order will do.         *)

VARIABLES
    edges,    \* for each task, the tasks it leads to
    stack,    \* the tasks being visited, from where the search started to the last one
    left,     \* for each of these, what it leads to and has not been looked at
    visited,  \* the tasks the search has left again
    cycle     \* the cycle that was found

searchVars == <<edges, stack, left, visited, cycle>>

\* Relations that are not sound are refused before.
Searched == {Dependencies(t) : t \in Trees} \cup {Parents(t) : t \in {t \in Trees : WellFormed(t)}}

SearchInit ==
    /\ edges \in Searched
    /\ stack = <<>> /\ left = [id \in DOMAIN edges |-> {}]
    /\ visited = {} /\ cycle = <<>>

Enter(id) ==
    /\ stack' = Append(stack, id)
    /\ left' = [left EXCEPT ![id] = edges[id]]

\* The search starts at each task that none of the others led to.
StartVisit(id) ==
    /\ cycle = <<>> /\ stack = <<>>
    /\ id \notin visited
    /\ Enter(id)
    /\ UNCHANGED <<edges, visited, cycle>>

\* Mutant: a task that leads back is found only where the search started.
LookAt_FirstOnly(next) ==
    /\ cycle = <<>> /\ stack # <<>>
    /\ next \in left[Last(stack)]
    /\ LET looked == [left EXCEPT ![Last(stack)] = @ \ {next}]
       IN  IF next \in visited \cup ToSet(Tail(stack)) THEN left' = looked /\ UNCHANGED <<stack, cycle>>
           ELSE IF next = Head(stack)
                THEN cycle' = stack /\ left' = looked /\ UNCHANGED stack
                ELSE /\ stack' = Append(stack, next) /\ left' = [looked EXCEPT ![next] = edges[next]]
                     /\ UNCHANGED cycle
    /\ UNCHANGED <<edges, visited>>

\* One that was left is passed over; one that is being visited closes a cycle; any other is visited.
LookAt(next) ==
    /\ cycle = <<>> /\ stack # <<>>
    /\ next \in left[Last(stack)]
    /\ LET looked == [left EXCEPT ![Last(stack)] = @ \ {next}]
       IN  IF next \in visited THEN left' = looked /\ UNCHANGED <<stack, cycle>>
           ELSE IF next \in ToSet(stack)
                THEN /\ \E start \in DOMAIN stack :
                          stack[start] = next /\ cycle' = SubSeq(stack, start, Len(stack))
                     /\ left' = looked /\ UNCHANGED stack
                ELSE /\ stack' = Append(stack, next) /\ left' = [looked EXCEPT ![next] = edges[next]]
                     /\ UNCHANGED cycle
    /\ UNCHANGED <<edges, visited>>

LeaveTask ==
    /\ cycle = <<>> /\ stack # <<>>
    /\ left[Last(stack)] = {}
    /\ visited' = visited \cup {Last(stack)}
    /\ stack' = Front(stack)
    /\ UNCHANGED <<edges, left, cycle>>

SearchNext == (\E id \in DOMAIN edges : StartVisit(id) \/ LookAt(id)) \/ LeaveTask

SearchSpec == SearchInit /\ [][SearchNext]_searchVars

-------------------------------------------------------------------------------
(* CalculateConcurrency. *)

VARIABLES
    sized,   \* the graph
    degree,  \* for each task, how much it still waits for
    level,   \* the tasks of the present level
    widest   \* the most tasks of one level that may run

levelVars == <<sized, degree, level, widest>>

OpenDegree(g, id) ==
    Cardinality({d \in g.dependencies[id] : g.status[d] # "closed"}) + (IF id \in g.missing THEN 1 ELSE 0)

SizedGraphs ==
    UNION {{BuildGraph(t, s) : s \in [t.tasks -> Standing]} : t \in {t \in Trees : Accepted(t)}}

LevelsInit ==
    /\ sized \in SizedGraphs
    /\ degree = [id \in sized.tasks |-> OpenDegree(sized, id)]
    /\ level = {id \in sized.tasks : degree[id] = 0}
    /\ widest = 0

Larger(m, n) == IF m > n THEN m ELSE n

\* What a level holds is taken off what waits for it: its open tasks and the closed ones, which
\* were not counted.
CountLevel ==
    /\ level # {}
    /\ LET passed == {id \in level : sized.status[id] \in {"open", "closed"}}
       IN  degree' = [id \in sized.tasks |-> degree[id] - Cardinality(sized.dependencies[id] \cap passed)]
    /\ level' = {id \in sized.tasks : degree[id] > 0 /\ degree'[id] <= 0}
    /\ widest' = Larger(widest, Cardinality({id \in level : OpenLeaf(sized, id)}))
    /\ UNCHANGED sized

LevelsSpec == LevelsInit /\ [][CountLevel]_levelVars

Concurrency == Larger(1, IF WorkerLimit > 0 /\ widest > WorkerLimit THEN WorkerLimit ELSE widest)

-------------------------------------------------------------------------------
(* Properties. *)

SearchTypeOK ==
    /\ stack \in Seq(DOMAIN edges) /\ visited \subseteq DOMAIN edges
    /\ left \in [DOMAIN edges -> SUBSET DOMAIN edges]
    \* A task is visited once.
    /\ IsInjective(stack) /\ ToSet(stack) \cap visited = {}
    /\ degree \in [sized.tasks -> Int] /\ level \subseteq sized.tasks
    /\ widest \in 0 .. Cardinality(sized.tasks)

\* The cycle that is named is one, and a search that ends without has missed none, through any
\* number of tasks: the engine answers for exactly the trees in which no task depends on itself
\* and none is its own ancestor (findDependencyCycle, assignDepths).
SearchIsRight ==
    /\ \A i \in DOMAIN cycle : cycle[IF i = Len(cycle) THEN 1 ELSE i + 1] \in edges[cycle[i]]
    /\ (cycle = <<>> /\ visited = DOMAIN edges) => ~Circular(edges)

\* The pool of workers, sized from the graph, has room for every task that may start now, or is as
\* large as the limit (CalculateConcurrency).
PoolCoversAvailable ==
    level = {} => Concurrency >= Cardinality(Available(sized)) \/ Concurrency = WorkerLimit
===============================================================================
