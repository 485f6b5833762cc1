--------------------------------- MODULE MCData ---------------------------------
(* What the agent loop reads and keeps, for TLC: its state file, the tasks of each  *)
(* tracker, the engine's graph of them, and the checks a task passes.  They share   *)
(* no state: `part` says which of them moves in a behaviour.                        *)
EXTENDS SchedulerStore, GitHubTracker, IssueTrackers, TaskEngine, TaskGates, TLC

\* The goroutines of each part are interchangeable, and so are the tasks of the state file.
Goroutines == Permutations(Clients) \cup Permutations(Tasks)

-------------------------------------------------------------------------------
(* Values of the constants. *)

\* In GitHub: two tasks below the root, one of which refers to the other and to an issue
\* that is not there.
TwoTasks ==
    [issues |-> {"r", "a", "b"}, parent |-> [r |-> "none", a |-> "r", b |-> "r"],
     refs |-> [r |-> {}, a |-> {}, b |-> {"a", "c"}]]

\* In the others: x is no issue.  A chain; references out of the root's tasks; references to
\* an ancestor and to itself; issues that are their own ancestors.
Three(aboveA, aboveB, aboveC, ra, rb, rc) ==
    [issues |-> {"r", "a", "b", "c"}, parent |-> [r |-> "none", a |-> aboveA, b |-> aboveB, c |-> aboveC],
     refs |-> [r |-> {}, a |-> ra, b |-> rb, c |-> rc]]
SomeBoards ==
    {Three("r", "r", "a", {}, {"a"}, {"b"}), Three("r", "r", "none", {"c"}, {"x", "a"}, {}),
     Three("r", "a", "x", {"a"}, {"r"}, {"a"}), Three("r", "c", "b", {"b"}, {}, {})}

State(type, name) == [type |-> type, name |-> name]
SomeWorkflows ==
    {{State("unstarted", "todo"), State("started", "progress"), State("completed", "done"), State("canceled", "done")},
     {State("backlog", "plain"), State("triage", "block"), State("started", "block"), State("unstarted", "fail"),
      State("started", "plain"), State("completed", "plain"), State("failed", "plain")}}

\* Three tasks below the root with every graph of dependencies that has a cycle and one that has
\* none; with a dependency given from the other end or on an unknown task; and in two levels, with
\* a task that is its own ancestor, has two parents or none, and a dependency on a container.
Flat == [id \in {"r", "a", "b", "c"} |-> IF id = "r" THEN "none" ELSE "r"]
Tree(parentOf, parents, depends, blocks, missing) ==
    [root |-> "r", tasks |-> {"r", "a", "b", "c"}, parentOf |-> parentOf, parents |-> parents,
     depends |-> depends, blocks |-> blocks, missing |-> missing]
Cyclic ==
    {d \in SUBSET ({"a", "b", "c"} \X {"a", "b", "c"}) :
        \E S \in SUBSET {"a", "b", "c"} : S # {} /\ \A x \in S : \E y \in S : <<x, y>> \in d}
SomeTrees ==
    {Tree(Flat, {}, d, {}, {}) : d \in Cyclic \cup {{<<"c", "a">>, <<"c", "b">>}}}
    \cup {Tree(Flat, {}, {<<"b", "a">>}, e[1], e[2]) : e \in {<<{<<"b", "c">>}, {}>>, <<{<<"b", "x">>}, {}>>, <<{}, {"c"}>>}}
    \cup {Tree([Flat EXCEPT !.a = p[1], !.b = p[2]], q, {<<"b", "c">>}, {}, {}) :
             p \in {<<"b", "a">>, <<"c", "none">>}, q \in {{}, {<<"c", "a">>}}}

GateSet(quality, threshold, low, tdd, review, qc) ==
    [quality |-> quality, threshold |-> threshold, allowLow |-> low, tdd |-> tdd,
     review |-> review, qc |-> qc, fallback |-> TRUE]
SomeOptions ==
    {GateSet({"task_validator", "dependency_checker"}, 0, FALSE, FALSE, TRUE, {"linter", "test_runner"}),
     GateSet({"dependency_checker"}, 80, FALSE, TRUE, TRUE, {}),
     GateSet({}, 0, TRUE, FALSE, FALSE, {"linter"}),
     GateSet({}, 0, FALSE, FALSE, TRUE, {"coverage_checker"})}

Task(sections, signs, quality, coverage, known, unknown) ==
    [sections |-> sections, signs |-> signs, quality |-> quality, coverage |-> coverage,
     known |-> known, unknown |-> unknown]
SomeDescriptions ==
    {Task(Sections \ s, Signs \ g, NoScore, NoScore, 2, 0) :
         s \in {{}, {"Testing Plan"}, {"Title", "Deliverables"}},
         g \in {{}, {"test"}, {"long", "given"}, {"risks", "command"}}}
    \cup {Task({"Title"}, {}, q, c, k, u) : q \in {NoScore, 65, 90}, c \in {NoScore, 40}, k \in {0, 1}, u \in {0, 2}}

-------------------------------------------------------------------------------
VARIABLE part

Parts == {"store", "github", "trackers", "search", "levels", "engine", "gates"}

dataVars == <<part, vars, githubVars, trackerVars, searchVars, levelVars, engineVars, gateVars>>

\* A part that does not move has one initial state.
If(moves, all) == IF part = moves THEN all ELSE {CHOOSE x \in all : TRUE}

DataInit ==
    /\ part \in Parts
    /\ kind \in (IF part = "trackers" THEN Kinds ELSE {"tk"}) /\ board \in If("trackers", Boards)
    /\ edges \in If("search", Searched) /\ sized \in If("levels", SizedGraphs) /\ tree \in If("engine", Trees)
    /\ described \in If("gates", Descriptions) /\ options \in If("gates", GateOptions)
    /\ Init /\ GitHubInit /\ IssueInit /\ SearchInit /\ LevelsInit /\ EngineInit /\ GatesInit

OnlyStore ==
    /\ part = "store"
    /\ UNCHANGED <<part, githubVars, trackerVars, searchVars, levelVars, engineVars, gateVars>>
OnlyGitHub ==
    /\ part = "github"
    /\ UNCHANGED <<part, vars, trackerVars, searchVars, levelVars, engineVars, gateVars>>
OnlyTrackers ==
    /\ part = "trackers"
    /\ UNCHANGED <<part, vars, githubVars, searchVars, levelVars, engineVars, gateVars>>
OnlySearch ==
    /\ part = "search"
    /\ UNCHANGED <<part, vars, githubVars, trackerVars, levelVars, engineVars, gateVars>>
OnlyLevels ==
    /\ part = "levels"
    /\ UNCHANGED <<part, vars, githubVars, trackerVars, searchVars, engineVars, gateVars>>
OnlyEngine ==
    /\ part = "engine"
    /\ UNCHANGED <<part, vars, githubVars, trackerVars, searchVars, levelVars, gateVars>>
OnlyGates ==
    /\ part = "gates"
    /\ UNCHANGED <<part, vars, githubVars, trackerVars, searchVars, levelVars, engineVars>>

DataNext ==
    \/ OnlyStore /\ Next
    \/ OnlyGitHub /\ GitHubNext
    \/ OnlyTrackers /\ IssueNext
    \/ OnlySearch /\ SearchNext
    \/ OnlyLevels /\ CountLevel
    \/ OnlyEngine /\ EngineNext
    \/ OnlyGates /\ GatesNext

DataSpec == DataInit /\ [][DataNext]_dataVars
-------------------------------------------------------------------------------
\* Every part keeps its shape, and one goroutine at a time saves a file, commits a ticket, has a task.
DataTypeOK == TypeOK /\ GitHubTypeOK /\ IssueTypeOK /\ SearchTypeOK /\ EngineTypeOK /\ GatesTypeOK
================================================================================
