------------------------------- MODULE TaskTrees --------------------------------
(* What the task engine computes (internal/engine/engine.go): a tree of tasks read *)
(* from a tracker becomes a graph, or is refused; over a graph the engine says     *)
(* which tasks may start, how many at once, and whether all is done.               *)
EXTENDS Integers, FiniteSets

Statuses == {"open", "in_progress", "closed", "failed", "blocked"}

\* tasks and the root among them; the ParentID of each; the relations, as pairs
\* <<parent, child>>, <<task, dependency>> and <<blocker, blocked>>; and the tasks
\* that have a dependency the tracker does not know.
TaskTree(t) ==
    /\ t.root \in t.tasks
    /\ t.missing \subseteq t.tasks
    /\ DOMAIN t.parentOf = t.tasks

-------------------------------------------------------------------------------
(* BuildGraph. *)

Relations(t) == t.parents \cup t.depends \cup t.blocks

ParentLinks(t) ==
    {<<t.parentOf[c], c>> : c \in {c \in t.tasks \ {t.root} : t.parentOf[c] # "none"}} \cup t.parents

Parents(t) == [id \in t.tasks |-> {link[1] : link \in {l \in ParentLinks(t) : l[2] = id}}]

Dependencies(t) ==
    [id \in t.tasks |-> {d \in t.tasks : <<id, d>> \in t.depends \/ <<d, id>> \in t.blocks}]

\* Every relation joins two tasks of the tree, and no task has two parents.
WellFormed(t) ==
    /\ \A r \in Relations(t) : r[1] # r[2] /\ {r[1], r[2]} \subseteq t.tasks
    /\ \A link \in ParentLinks(t) : link[1] \in t.tasks
    /\ \A id \in t.tasks : Cardinality(Parents(t)[id]) <= 1

\* Some tasks each have one of them as their next: along the edges there is a cycle.
Circular(edges) == \E S \in SUBSET DOMAIN edges : S # {} /\ \A id \in S : edges[id] \cap S # {}

\* What the search for a cycle comes to; GraphSearch has its steps.
FindDependencyCycle(t) == Circular(Dependencies(t))

DepthsAssigned(t) == ~Circular(Parents(t))

Accepted(t) == WellFormed(t) /\ ~FindDependencyCycle(t) /\ DepthsAssigned(t)

-------------------------------------------------------------------------------
(* What the engine says of a graph. *)

BuildGraph(t, status) ==
    [tasks |-> t.tasks, dependencies |-> Dependencies(t), missing |-> t.missing, status |-> status,
     containers |-> {link[1] : link \in ParentLinks(t)}]

Satisfied(g, id) ==
    /\ id \notin g.missing
    /\ \A d \in g.dependencies[id] : g.status[d] = "closed"

OpenLeaf(g, id) == g.status[id] = "open" /\ id \notin g.containers

Available(g) == {id \in g.tasks : OpenLeaf(g, id) /\ Satisfied(g, id)}

Finished(s) == s \in {"closed", "failed", "blocked"}

IsComplete(g) == \A id \in g.tasks : Finished(g.status[id]) \/ id \in g.containers
================================================================================
