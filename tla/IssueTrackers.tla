----------------------------- MODULE IssueTrackers ------------------------------
(* Tasks in Linear, in tk and in beads: how the runner writes a status or data of a *)
(* task and what it reads afterwards (internal/linear/task_manager.go, internal/tk, *)
(* internal/beads).  Linear has workflow states and no statuses; tk knows neither   *)
(* failed nor blocked, and its tickets are files that are committed; for tk and     *)
(* beads the manager remembers by itself which tasks failed.                        *)
EXTENDS TrackerTrees

CONSTANTS
    Boards,       \* the boards an issue tracker may hold: "r" is the issue a run is asked for, "p"
                  \* the project they belong to in Linear, whose ID no issue has or refers to
    Workflows,    \* the workflows of a Linear team: sets of states, each a type and a name
    Workers,      \* the goroutines that write
    Written,      \* the issues they write about
    Keys,         \* how many keys the data of a task has
    MaxWrites     \* bound: calls of SetTaskStatus and SetTaskData

ASSUME IssueAssumption ==
    /\ \A b \in Boards :
          /\ Board(b) /\ Written \subseteq b.issues
          /\ "r" \in b.issues /\ "p" \notin b.issues \cup UNION {b.refs[id] : id \in b.issues}
    /\ Keys \in Nat /\ MaxWrites \in Nat

VARIABLES
    kind,      \* which tracker it is
    board,     \* its issues
    workflow,  \* the workflow states, of a Linear team
    state,     \* what the tracker keeps of each issue: a status, or a workflow state
    remembered,\* the tasks the manager remembers as failed or blocked
    dirty,     \* tickets whose file differs from what is committed
    writes,    \* the call each worker is in
    called,    \* calls so far
    meant      \* history: the status last set with success, or Unknown if a call failed since

trackerVars == <<kind, board, workflow, state, remembered, dirty, writes, called, meant>>

Kinds == {"linear", "project", "tk", "beads"}
Linear == kind \in {"linear", "project"}
Unknown == "unknown"
NoWrite == [at |-> "idle"]
Underway(id) == \E w \in Workers : writes[w].at # "idle" /\ writes[w].task = id

-------------------------------------------------------------------------------
(* Linear's workflow states. *)

\* What a state says: first by its type, then by what its name contains.
ClassifyTaskStatus(s) ==
    CASE s.type \in {"completed", "canceled"} -> "closed"
      [] s.type = "started"                   -> "in_progress"
      [] s.type \in {"blocked", "failed"}     -> s.type
      [] OTHER -> CASE s.name = "block"    -> "blocked"
                    [] s.name = "fail"     -> "failed"
                    [] s.name = "progress" -> "in_progress"
                    [] s.name = "done"     -> "closed"
                    [] OTHER               -> "open"

\* How well a state stands for a status; a state that would be read as another never does.
WorkflowStateMatchScore(status, s) ==
    LET best == [open |-> {"backlog", "unstarted"}, in_progress |-> {"started"}, closed |-> {"completed"},
                 blocked |-> {"blocked"}, failed |-> {"failed"}][status]
        good == [open |-> s.type = "triage", in_progress |-> s.name = "progress", closed |-> s.type = "canceled",
                 blocked |-> s.name = "block", failed |-> s.name = "fail"][status]
    IN  IF ClassifyTaskStatus(s) # status THEN -1
        ELSE IF s.type \in best THEN 5
        ELSE IF good THEN 4
        ELSE IF status = "open" /\ s.name = "todo" THEN 3 ELSE 1

\* The states that match best; the code takes the one whose ID comes first.
SelectWorkflowState(states, status) ==
    {s \in states : /\ WorkflowStateMatchScore(status, s) >= 0
                    /\ \A t \in states : WorkflowStateMatchScore(status, t) <= WorkflowStateMatchScore(status, s)}

-------------------------------------------------------------------------------
(* Reading. *)

ReadStatus(id) == IF Linear THEN ClassifyTaskStatus(state[id]) ELSE state[id]

\* GetTaskTree.
TreeRead == TrackerTree(kind, board, IF kind = "project" THEN "p" ELSE "r",
                        [id \in board.issues |-> ReadStatus(id)])
-------------------------------------------------------------------------------

IssueTypeOK ==
    /\ kind \in Kinds /\ Board(board)
    /\ DOMAIN state = board.issues
    /\ remembered \subseteq board.issues /\ dirty \subseteq board.issues
    /\ kind # "tk" => dirty = {}
    /\ called \in 0..MaxWrites
    /\ meant \in [board.issues -> Statuses \cup {Unknown}]
    \* One goroutine at a time runs git for a ticket.
    /\ Cardinality({w \in Workers : writes[w].at \in {"staged", "seen"}}) <= 1

IssueInit ==
    /\ kind \in Kinds
    /\ board \in Boards
    /\ workflow \in (IF Linear THEN Workflows ELSE {{}})
    /\ \E s \in (IF Linear THEN {s \in workflow : ClassifyTaskStatus(s) = "open"} ELSE {"open"}) :
        state = [id \in board.issues |-> s]
    /\ remembered = {} /\ dirty = {}
    /\ writes = [w \in Workers |-> NoWrite]
    /\ called = 0
    /\ meant = [id \in board.issues |-> "open"]

Go(w, at) == writes' = [writes EXCEPT ![w].at = at]

\* The call returns an error: nobody knows what became of the status.
Fail(w) ==
    /\ writes' = [writes EXCEPT ![w] = NoWrite]
    /\ meant' = [meant EXCEPT ![writes[w].task] = Unknown]

Succeed(w) ==
    /\ writes' = [writes EXCEPT ![w] = NoWrite]
    /\ meant' = IF writes[w].status \in Statuses THEN [meant EXCEPT ![writes[w].task] = writes[w].status] ELSE meant

\* A worker writes about the task it holds.
SetTaskStatus(w) ==
    /\ writes[w].at = "idle" /\ called < MaxWrites
    /\ \E id \in {i \in Written : ~Underway(i)}, s \in Statuses :
        writes' = [writes EXCEPT ![w] = [at |-> IF Linear THEN "resolving" ELSE "command",
                                         task |-> id, status |-> s, keys |-> 0]]
    /\ called' = called + 1
    /\ UNCHANGED <<kind, board, workflow, state, remembered, dirty, meant>>

SetTaskData(w) ==
    /\ writes[w].at = "idle" /\ called < MaxWrites
    /\ \E id \in {i \in Written : ~Underway(i)} :
        writes' = [writes EXCEPT ![w] = [at |-> "note", task |-> id, status |-> "data", keys |-> Keys]]
    /\ called' = called + 1
    /\ UNCHANGED <<kind, board, workflow, state, remembered, dirty, meant>>

\* resolveWorkflowStateIDForStatus: the query fails, or no state stands for the status, or one does.
ResolveState(w) ==
    /\ writes[w].at = "resolving"
    /\ \/ Fail(w)
       \/ \E s \in SelectWorkflowState(workflow, writes[w].status) :
             /\ writes' = [writes EXCEPT ![w] = [at |-> "mutation", task |-> writes[w].task,
                                                 status |-> writes[w].status, keys |-> 0, to |-> s]]
             /\ UNCHANGED meant
    /\ UNCHANGED <<kind, board, workflow, state, remembered, dirty, called>>

\* The mutation is made and confirmed, made and not confirmed, or not made.
UpdateIssue(w) ==
    /\ writes[w].at = "mutation"
    /\ \/ state' = [state EXCEPT ![writes[w].task] = writes[w].to] /\ (Succeed(w) \/ Fail(w))
       \/ state' = state /\ Fail(w)
    /\ UNCHANGED <<kind, board, workflow, remembered, dirty, called>>

\* What `tk` is told for a status: it has no word for failed and blocked.
TkStatus(s) == IF s \in {"failed", "blocked"} THEN "open" ELSE s

\* The command line of the tracker is run: for tk it writes the ticket's file.
RunCommand(w) ==
    /\ writes[w].at = "command"
    /\ LET id == writes[w].task
           s == IF kind = "tk" THEN TkStatus(writes[w].status) ELSE writes[w].status
       IN  \/ Fail(w) /\ UNCHANGED <<state, dirty>>
           \/ /\ state' = [state EXCEPT ![id] = s]
              /\ dirty' = IF kind = "tk" /\ s # state[id] THEN dirty \cup {id} ELSE dirty
              /\ Go(w, "mark") /\ UNCHANGED meant
    /\ UNCHANGED <<kind, board, workflow, remembered, called>>

\* markTerminal or clearTerminal; for tk the ticket is then committed.
Remember(w) ==
    /\ writes[w].at = "mark"
    /\ LET id == writes[w].task
       IN  remembered' = IF writes[w].status \in {"failed", "blocked"} THEN remembered \cup {id} ELSE remembered \ {id}
    /\ IF kind = "tk" THEN Go(w, "persist") /\ UNCHANGED meant ELSE Succeed(w)
    /\ UNCHANGED <<kind, board, workflow, state, dirty, called>>

\* One key of the data: a comment, a note added to the ticket.  Those before it stay when one fails.
WriteNote(w) ==
    /\ writes[w].at = "note"
    /\ \/ Fail(w) /\ UNCHANGED dirty
       \/ /\ dirty' = IF kind = "tk" THEN dirty \cup {writes[w].task} ELSE dirty
          /\ IF writes[w].keys > 1 THEN writes' = [writes EXCEPT ![w].keys = @ - 1] /\ UNCHANGED meant
             ELSE IF kind = "tk" THEN Go(w, "persist") /\ UNCHANGED meant
             ELSE Succeed(w)
    /\ UNCHANGED <<kind, board, workflow, state, remembered, called>>

\* persistTicketFile, under the persister's lock: git add,
StageTicket(w) ==
    /\ writes[w].at = "persist"
    /\ \A v \in Workers : writes[v].at \notin {"staged", "seen"}
    /\ \/ Fail(w)
       \/ Go(w, "staged") /\ UNCHANGED meant
    /\ UNCHANGED <<kind, board, workflow, state, remembered, dirty, called>>

\* Mutant: a ticket whose status cannot be read is taken for unchanged.
InspectTicket_ErrorIsClean(w) ==
    /\ writes[w].at = "staged"
    /\ \/ Succeed(w)
       \/ writes[w].task \in dirty /\ Go(w, "seen") /\ UNCHANGED meant
    /\ UNCHANGED <<kind, board, workflow, state, remembered, dirty, called>>

\* git status: nothing more to do for a ticket that has not changed,
InspectTicket(w) ==
    /\ writes[w].at = "staged"
    /\ \/ Fail(w)
       \/ writes[w].task \notin dirty /\ Succeed(w)
       \/ writes[w].task \in dirty /\ Go(w, "seen") /\ UNCHANGED meant
    /\ UNCHANGED <<kind, board, workflow, state, remembered, dirty, called>>

\* git commit.
CommitTicket(w) ==
    /\ writes[w].at = "seen"
    /\ \/ dirty' = dirty \ {writes[w].task} /\ Succeed(w)
       \/ dirty' = dirty /\ Fail(w)
    /\ UNCHANGED <<kind, board, workflow, state, remembered, called>>

\* The runner starts again: what the manager remembered is gone.
RestartRunner ==
    /\ remembered # {} /\ \A w \in Workers : writes[w].at = "idle"
    /\ remembered' = {}
    /\ UNCHANGED <<kind, board, workflow, state, dirty, writes, called, meant>>

IssueNext ==
    \/ \E w \in Workers :
        \/ SetTaskStatus(w) \/ SetTaskData(w)
        \/ ResolveState(w) \/ UpdateIssue(w)
        \/ RunCommand(w) \/ Remember(w) \/ WriteNote(w)
        \/ StageTicket(w) \/ InspectTicket(w) \/ CommitTicket(w)
    \/ RestartRunner

IssueSpec == IssueInit /\ [][IssueNext]_trackerVars

-------------------------------------------------------------------------------
(* Properties. *)

\* The tree of every tracker is one the engine takes but for its cycles: its relations join tasks
\* of the tree and no task has two parents; only beads can give a task that depends on itself.  It
\* has every issue whose parent it has.  And each issue a task refers to is a dependency in the
\* tree, or makes the task wait as missing, or is not below the root: then Linear forgets it, and
\* beads too once it is closed (GetTaskTree).
TreeIsFaithful ==
    LET t == TreeRead
    IN  /\ WellFormed(t) \/ (kind = "beads" /\ \E id \in t.tasks : id \in board.refs[id])
        /\ \A id \in board.issues : board.parent[id] \in t.tasks => id \in t.tasks
        /\ \A id \in t.tasks \cap board.issues : \A d \in board.refs[id] \ {id} :
              \/ d \in Dependencies(t)[id]
              \/ id \in t.missing
              \/ d \notin t.tasks /\ (Linear \/ (kind = "beads" /\ d \in board.issues /\ state[d] = "closed"))

\* A status that was set with success is read back, until somebody sets another; but for tk, where
\* a failed or a blocked task reads as open (SetTaskStatus, UpdateStatus).
StatusReadsBack ==
    \A id \in board.issues :
        (meant[id] # Unknown /\ ~Underway(id)) =>
            \/ ReadStatus(id) = meant[id]
            \/ kind = "tk" /\ meant[id] \in {"failed", "blocked"} /\ ReadStatus(id) = "open"

\* Once a status or data has been written to tk with success, the ticket's file is committed, however
\* other workers' writes and commits fall between the steps (persistTicketFile).
TicketIsCommitted ==
    \A id \in board.issues : (meant[id] # Unknown /\ ~Underway(id)) => id \notin dirty
\* A status that was set with success is there to be read, by this process and by the next clone.
WriteIsKept == StatusReadsBack /\ TicketIsCommitted
================================================================================
