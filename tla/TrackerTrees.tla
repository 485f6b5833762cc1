------------------------------ MODULE TrackerTrees ------------------------------
(* How each tracker's issues become a tree of tasks: GetTaskTree of                *)
(* internal/github, internal/linear, internal/tk and internal/beads.  All take the *)
(* issues below the root; they differ in what becomes of a dependency on an issue  *)
(* that is not among them.                                                         *)
EXTENDS TaskTrees

\* A board: the issues of the tracker, the parent of each and the issues it refers to as its
\* dependencies.  A reference or a parent may be an issue that does not exist.
Board(b) == DOMAIN b.parent = b.issues /\ DOMAIN b.refs = b.issues

\* What a breadth-first search from root finds: the least set with it and all their children.
Descendants(b, root) ==
    LET nodes == b.issues \cup {root}
        closed == {S \in SUBSET nodes : root \in S /\ \A i \in b.issues : b.parent[i] \in S => i \in S}
    IN  {i \in nodes : \A S \in closed : i \in S}

Scope(b, root) == Descendants(b, root) \cap b.issues

InScope(b, scope, id) == (b.refs[id] \cap scope) \ {id}

\* Each task has its parent below the root; each dependency in scope is recorded from both ends.
ScopedTree(b, root, scope, missing) ==
    LET parentOf == [id \in scope |-> IF id = root THEN "none"
                                      ELSE IF b.parent[id] \in scope THEN b.parent[id] ELSE root]
        depends == {p \in scope \X scope : p[2] \in InScope(b, scope, p[1])}
    IN  [root |-> root, tasks |-> scope, parentOf |-> parentOf,
         parents |-> {<<parentOf[id], id>> : id \in scope \ {root}},
         depends |-> depends, blocks |-> {<<p[2], p[1]>> : p \in depends}, missing |-> missing]

RootOnlyTree(root) ==
    [root |-> root, tasks |-> {root}, parentOf |-> [id \in {root} |-> "none"],
     parents |-> {}, depends |-> {}, blocks |-> {}, missing |-> {}]

\* Dependencies outside the scope are left out.
GitHubTree(b, root) == ScopedTree(b, root, Scope(b, root), {})

\* Mutant: the issues are not followed below the root's children.
LinearTree_Shallow(b, root) ==
    ScopedTree(b, root, {root} \cup {i \in b.issues : b.parent[i] = root}, {})

\* An issue and what is below it, fetched level by level.  Dependencies outside are left out.
LinearTree(b, root) ==
    IF root \in b.issues THEN ScopedTree(b, root, Scope(b, root), {}) ELSE RootOnlyTree(root)

\* The issues of a project, whose parents are issues of the project or the project itself.
LinearProject(b, project) ==
    [issues |-> b.issues \cup {project},
     parent |-> [i \in b.issues \cup {project} |->
                    IF i = project THEN "none" ELSE IF b.parent[i] \in b.issues THEN b.parent[i] ELSE project],
     refs |-> [i \in b.issues \cup {project} |-> IF i = project THEN {} ELSE b.refs[i] \cap b.issues]]

\* A dependency that is not below the root is missing, whatever its status.
TkTree(b, root) ==
    IF root \notin b.issues THEN RootOnlyTree(root)
    ELSE LET scope == Scope(b, root)
         IN  ScopedTree(b, root, scope, {id \in scope : \E d \in b.refs[id] : d \notin scope \cup {id}})

\* A dependency that is not below the root is missing unless its issue is closed; dependencies
\* are recorded from one end, on the task itself too.
BeadsTree(b, root, status) ==
    LET scope == Scope(b, root)
        open(d) == d \notin scope /\ (d \in b.issues => status[d] # "closed")
        scoped == ScopedTree(b, root, scope, {id \in scope : \E d \in b.refs[id] : open(d)})
    IN  [scoped EXCEPT !.depends = {p \in scope \X scope : p[2] \in b.refs[p[1]]}, !.blocks = {}]

TrackerTree(kind, b, root, status) ==
    CASE kind = "github"  -> GitHubTree(b, root)
      [] kind = "linear"  -> LinearTree(b, root)
      [] kind = "project" -> LinearTree(LinearProject(b, root), root)
      [] kind = "tk"      -> TkTree(b, root)
      [] kind = "beads"   -> BeadsTree(b, root, status)
================================================================================
