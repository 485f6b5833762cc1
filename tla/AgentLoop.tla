------------------------------ MODULE AgentLoop ------------------------------
(***************************************************************************)
(* The agent loop (internal/agent/loop.go): Loop.Run, its workers, and the  *)
(* life of a task in runTask, with the tracker, the scheduler state file    *)
(* and the remote repository that outlive a process.                        *)
(*                                                                         *)
(* One step is one call with an effect outside the goroutine: a runner, a   *)
(* git operation, a tracker write, an edit of the state file, a lock or a   *)
(* channel.  An edit of the state file is one step because SchedulerStore   *)
(* shows that the edits of a task are atomic when the task's lock is held,  *)
(* which TaskRunByOne shows it is.  Clones are private to a task, so of the *)
(* repository only the remote main branch is shared.                        *)
(***************************************************************************)
EXTENDS Naturals, FiniteSets, Sequences, LandingQueue

CONSTANTS
  Trackers,        \* the trackers a run may be on
  Tasks,
  Deps,            \* Deps[t]: the tasks t depends on
  Workers,         \* as many as LoopOptions.Concurrency
  None,
  MaxRetries,      \* LoopOptions.MaxRetries
  MaxTasks,        \* LoopOptions.MaxTasks, 0 for no limit
  RequireReview, MergeOnSuccess, HasFallbackModel,   \* LoopOptions
  StopChannel,     \* LoopOptions.Stop is set and may be closed
  Gates,           \* the quality, TDD or QC gates are configured
  MaxRestarts,     \* bound on crashes and restarts
  MaxFaults        \* bound on failing calls to tracker, git or disk

ASSUME LoopAssumption ==
  /\ Trackers \subseteq {"tk", "beads", "linear", "github"}
  /\ Deps \in [Tasks -> SUBSET Tasks]
  /\ None \notin Tasks \cup Workers
  /\ IsFiniteSet(Workers)
  /\ MaxRetries \in Nat /\ MaxTasks \in Nat /\ MaxRestarts \in Nat /\ MaxFaults \in Nat
  /\ {RequireReview, MergeOnSuccess, HasFallbackModel, StopChannel, Gates} \subseteq BOOLEAN

VARIABLES
  \* durable
  tracker,     \* which one the run is on
  status,      \* the status it shows of each task
  retries,     \* review_retry_count and completion_retry_count in what it shows
  file,        \* the scheduler state file (its three sets)
  remote,      \* tasks whose work is on the remote main branch
  \* the dispatcher, Loop.Run
  mpc, todo, picked, inFlight, processed, stop,
  \* shared by the goroutines
  taskLock, landingLock, results,
  \* the workers
  wk,
  \* history and bounds
  approved,    \* tasks a review of which has passed
  restarts, faults

durable    == <<tracker, status, retries, file, remote>>
dispatcher == <<mpc, todo, picked, inFlight, processed, stop>>
shared     == <<taskLock, landingLock, results>>
bounds     == <<restarts, faults>>
vars       == <<durable, dispatcher, shared, wk, approved, bounds>>

Statuses == {"open", "in_progress", "closed", "blocked", "failed"}
Finished == {"closed", "blocked", "failed"}      \* isFinishedStatus

EmptyRecord == [inFlight |-> {}, completed |-> {}, blocked |-> {}]
Recorded    == file.inFlight \cup file.completed \cup file.blocked

\* The locals of runTask; result is the status of the last runner result and
\* outcome the summary counter (or "error") the task ends with; reviewed says
\* that the clone holds what a review passed.
Idle ==
  [pc |-> "idle", task |-> None, result |-> "none", outcome |-> "none",
   review |-> 0, completion |-> 0, reviewFailed |-> FALSE, fallback |-> FALSE,
   machine |-> NewLandingQueueStateMachine(2), attempt |-> 1,
   committed |-> FALSE, base |-> {}, reviewed |-> FALSE]

NoRetries == [review |-> 0, completion |-> 0]

Init ==
  /\ tracker \in Trackers
  /\ status = [t \in Tasks |-> "open"]
  /\ retries = [t \in Tasks |-> NoRetries]
  /\ file = EmptyRecord
  /\ remote = {}
  /\ mpc = "load" /\ todo = EmptyRecord /\ picked = None /\ inFlight = {}
  /\ processed = 0 /\ stop = FALSE
  /\ taskLock = {} /\ landingLock = None /\ results = <<>>
  /\ wk = [w \in Workers |-> Idle]
  /\ approved = {}
  /\ restarts = 0 /\ faults = 0

-----------------------------------------------------------------------------
(* What the tracker makes of what it is told.                               *)

\* tk knows neither blocked nor failed: such a task is open again, also for the
\* next refresh of the same run.
Shown(s) == IF tracker = "tk" /\ s \in {"blocked", "failed"} THEN "open" ELSE s

SetTaskStatus(t, s) == status' = [status EXCEPT ![t] = Shown(s)]

\* Only GitHub's manager returns data with a task, that of the last call: counters
\* the call did not name are gone.
SetTaskData(t, counters) ==
  retries' = IF tracker = "github" THEN [retries EXCEPT ![t] = counters] ELSE retries

-----------------------------------------------------------------------------
(* Starting: recoverSchedulerState.                                         *)

Load ==
  /\ mpc = "load"
  /\ todo' = file
  /\ mpc' = "recover"
  /\ UNCHANGED <<durable, picked, inFlight, processed, stop, shared, wk, approved, bounds>>

DependenciesClosed(t) == \A d \in Deps[t] : status[d] = "closed"

RecoverFrame == UNCHANGED <<tracker, retries, file, remote, picked, inFlight, processed, stop,
                            shared, wk, approved, bounds>>

\* Mutant: every recorded task is reopened.
RecoverTask_ReopensAll(t) ==
  /\ mpc = "recover"
  /\ t \in todo.inFlight \cup todo.completed \cup todo.blocked
  /\ SetTaskStatus(t, "open")
  /\ todo' = [inFlight  |-> todo.inFlight \ {t}, completed |-> todo.completed \ {t},
              blocked   |-> todo.blocked \ {t}]
  /\ UNCHANGED mpc
  /\ RecoverFrame

\* Completed tasks first, then blocked ones, then those in flight.  As in
\* Close, the tracker is written before the engine can refuse to close.
RecoverTask(t) ==
  /\ mpc = "recover"
  /\ \/ /\ t \in todo.completed
        /\ SetTaskStatus(t, "closed")
        /\ todo' = [todo EXCEPT !.completed = @ \ {t}]
        /\ mpc' = IF DependenciesClosed(t) THEN mpc ELSE "error"
     \/ /\ todo.completed = {}
        /\ t \in todo.blocked
        /\ SetTaskStatus(t, "blocked")
        /\ todo' = [todo EXCEPT !.blocked = @ \ {t}]
        /\ UNCHANGED mpc
     \/ /\ todo.completed = {} /\ todo.blocked = {}
        /\ t \in todo.inFlight
        /\ SetTaskStatus(t, "open")
        /\ todo' = [todo EXCEPT !.inFlight = @ \ {t}]
        /\ UNCHANGED mpc
  /\ RecoverFrame

\* No worker runs yet: Save writes the emptied snapshot.
Recovered ==
  /\ mpc = "recover"
  /\ todo = EmptyRecord
  /\ file' = EmptyRecord
  /\ mpc' = "top"
  /\ UNCHANGED <<tracker, status, retries, remote, todo, picked, inFlight, processed, stop,
                 shared, wk, approved, bounds>>

-----------------------------------------------------------------------------
(* Loop.Run after recovery: at "top" once per outer iteration, at "fill"    *)
(* while it hands out tasks, at "receive" while it waits for a result.      *)

\* Mutant: dependencies are not looked at.
NextTasks_IgnoresDeps == {t \in Tasks : status[t] = "open"}

NextTasks == {t \in Tasks : status[t] = "open" /\ DependenciesClosed(t)}
IsComplete == \A t \in Tasks : status[t] \in Finished

BudgetUsed(n) == MaxTasks > 0 /\ n >= MaxTasks

\* Mutant: tasks in flight do not count against the budget.
HasRoom_IgnoresInFlight ==
  /\ Cardinality(inFlight) < Cardinality(Workers)
  /\ ~BudgetUsed(processed)

HasRoom ==
  /\ Cardinality(inFlight) < Cardinality(Workers)
  /\ ~BudgetUsed(processed + Cardinality(inFlight))

\* Mutant: a candidate is not looked up in the in-flight map and not locked.
Eligible_All == NextTasks

Eligible == NextTasks \ (inFlight \cup taskLock)

MoveTo(pc) ==
  /\ mpc' = pc
  /\ UNCHANGED <<durable, todo, picked, inFlight, processed, stop, shared, wk, approved, bounds>>

Top ==
  /\ mpc = "top"
  /\ IF inFlight = {} /\ (stop \/ BudgetUsed(processed)) THEN MoveTo("stopped")
                                                         ELSE MoveTo("fill")

\* Mutant: the loop over the candidates ends without one, and goes on.
Pick_NoTask(t) ==
  /\ mpc = "fill"
  /\ HasRoom
  /\ t \in NextTasks
  /\ taskLock' = taskLock \cup {t}
  /\ picked' = IF t \in Eligible THEN t ELSE None
  /\ mpc' = "picked"
  /\ UNCHANGED <<durable, todo, inFlight, processed, stop, landingLock, results, wk,
                 approved, bounds>>

\* The in-flight map and TryLock exclude a candidate; the order of the
\* candidates (priority, then id) is left open.
Pick(t) ==
  /\ mpc = "fill"
  /\ HasRoom
  /\ t \in Eligible
  /\ taskLock' = taskLock \cup {t}
  /\ picked' = t
  /\ mpc' = "picked"
  /\ UNCHANGED <<durable, todo, inFlight, processed, stop, landingLock, results, wk,
                 approved, bounds>>

MarkPicked ==
  /\ mpc = "picked"
  /\ file' = [file EXCEPT !.inFlight = @ \cup {picked}]
  /\ inFlight' = inFlight \cup {picked}
  /\ mpc' = "send"
  /\ UNCHANGED <<tracker, status, retries, remote, todo, picked, processed, stop, shared, wk,
                 approved, bounds>>

\* The unbuffered job channel: an idle worker takes the task and reads it.
Send(w) ==
  /\ mpc = "send"
  /\ wk[w].pc = "idle"
  /\ wk' = [wk EXCEPT ![w] = [Idle EXCEPT !.pc = "gate", !.task = picked,
                                          !.review = retries[picked].review,
                                          !.completion = retries[picked].completion]]
  /\ picked' = None
  /\ mpc' = "fill"
  /\ UNCHANGED <<durable, todo, inFlight, processed, stop, shared, approved, bounds>>

\* Nothing more to hand out: wait, or end the run.
FillEnds ==
  /\ mpc = "fill"
  /\ ~(HasRoom /\ Eligible # {})
  /\ IF inFlight # {} THEN MoveTo("receive")
     ELSE IF IsComplete THEN MoveTo("stopped") ELSE MoveTo("error")

\* The count of processed tasks is read for the budget alone.
Receive ==
  /\ mpc = "receive"
  /\ results # <<>>
  /\ LET r == Head(results) IN
       /\ results' = Tail(results)
       /\ inFlight' = inFlight \ {r.task}
       /\ IF r.outcome = "error"
            THEN mpc' = "error" /\ UNCHANGED processed
            ELSE mpc' = "top" /\ processed' = processed + (IF MaxTasks > 0 THEN 1 ELSE 0)
  /\ UNCHANGED <<durable, todo, picked, stop, taskLock, landingLock, wk, approved, bounds>>

\* A call of the dispatcher to the tracker or the state file fails.
DispatcherFails ==
  /\ mpc \in {"load", "recover", "fill", "picked"}
  /\ faults < MaxFaults
  /\ faults' = faults + 1
  /\ mpc' = "error"
  /\ UNCHANGED <<durable, todo, picked, inFlight, processed, stop, shared, wk, approved, restarts>>

RequestStop ==
  /\ StopChannel /\ ~stop
  /\ stop' = TRUE
  /\ UNCHANGED <<durable, mpc, todo, picked, inFlight, processed, shared, wk, approved, bounds>>
-----------------------------------------------------------------------------
(* A worker running a task: runTask, from GetTask to the deferred calls.    *)

At(w, pc) == wk[w].pc = pc
T(w)      == wk[w].task
Go(w, pc) == wk' = [wk EXCEPT ![w].pc = pc]

\* Steps that change only the worker.
LocalFrame == UNCHANGED <<durable, dispatcher, shared, approved, bounds>>
\* Steps that write the tracker, or the state file.
TrackerFrame == UNCHANGED <<tracker, file, remote, dispatcher, shared, approved, bounds>>
FileFrame    == UNCHANGED <<tracker, status, retries, remote, dispatcher, shared, approved, bounds>>

\* The quality and TDD gates, then the clone and its task branch.
Gate(w) ==
  /\ At(w, "gate")
  /\ Go(w, "in_progress") \/ (Gates /\ Go(w, "mark_blocked"))
  /\ LocalFrame

SetInProgress(w) ==
  /\ At(w, "in_progress")
  /\ SetTaskStatus(T(w), "in_progress")
  /\ wk' = [wk EXCEPT ![w].pc = "implement", ![w].reviewFailed = FALSE]
  /\ UNCHANGED retries /\ TrackerFrame

Implement(w) ==
  /\ At(w, "implement")
  /\ \E res \in {"completed", "blocked", "failed", "invalid"} :
       wk' = [wk EXCEPT ![w].result = res,
                        ![w].pc = CASE res # "completed" -> "decide"
                                    [] res = "completed" /\ RequireReview  -> "review"
                                    [] res = "completed" /\ ~RequireReview -> "qc"]
  /\ LocalFrame

\* Mutant: a review that ends without a verdict counts as a pass.
Review_NoVerdictPasses(w) ==
  /\ At(w, "review") \/ At(w, "verdict")
  /\ \/ /\ wk' = [wk EXCEPT ![w].pc = "qc", ![w].reviewed = TRUE]
        /\ approved' = approved \cup {T(w)}
     \/ /\ At(w, "review")
        /\ Go(w, "qc")
        /\ UNCHANGED approved
  /\ UNCHANGED <<durable, dispatcher, shared, bounds>>

\* A review that ends without any verdict is run once more for the verdict;
\* after that anything but an explicit pass is a failure.
Review(w) ==
  /\ At(w, "review") \/ At(w, "verdict")
  /\ \/ /\ wk' = [wk EXCEPT ![w].pc = "qc", ![w].reviewed = TRUE]
        /\ approved' = approved \cup {T(w)}
     \/ /\ At(w, "review")
        /\ Go(w, "verdict")
        /\ UNCHANGED approved
     \/ /\ \E res \in {"failed", "blocked", "invalid"} :
             wk' = [wk EXCEPT ![w].pc = "decide", ![w].result = res,
                              ![w].reviewFailed = (res = "failed")]
        /\ UNCHANGED approved
  /\ UNCHANGED <<durable, dispatcher, shared, bounds>>

\* The report of a gate that lets the task through is data too.
QCGate(w) ==
  /\ At(w, "qc")
  /\ \/ /\ Go(w, "mark_completed")
        /\ IF Gates THEN SetTaskData(T(w), NoRetries) ELSE UNCHANGED retries
     \/ Gates /\ Go(w, "mark_blocked") /\ UNCHANGED retries
  /\ UNCHANGED status /\ TrackerFrame

\* Mutant: the task is not taken out of the in-flight set.
MarkTaskCompleted_StillInFlight(w) ==
  /\ At(w, "mark_completed")
  /\ file' = [file EXCEPT !.completed = @ \cup {T(w)}, !.blocked = @ \ {T(w)}]
  /\ Go(w, IF MergeOnSuccess THEN "await_landing" ELSE "close")
  /\ FileFrame

MarkTaskCompleted(w) ==
  /\ At(w, "mark_completed")
  /\ file' = [inFlight  |-> file.inFlight \ {T(w)},
              completed |-> file.completed \cup {T(w)},
              blocked   |-> file.blocked \ {T(w)}]
  /\ Go(w, IF MergeOnSuccess THEN "await_landing" ELSE "close")
  /\ FileFrame

(* Landing: held until runTask returns.                                     *)

\* Mutant: landing is not serialized.
LockLanding_Unlocked(w) ==
  /\ At(w, "await_landing")
  /\ landingLock' = w
  /\ Go(w, "attempt")
  /\ UNCHANGED <<durable, dispatcher, taskLock, results, approved, bounds>>

LockLanding(w) ==
  /\ At(w, "await_landing")
  /\ landingLock = None
  /\ landingLock' = w
  /\ Go(w, "attempt")
  /\ UNCHANGED <<durable, dispatcher, taskLock, results, approved, bounds>>

Moved(w, event) == Apply(wk[w].machine, event)

\* Begin, and CommitAll unless the work is committed already.
BeginAttempt(w) ==
  /\ At(w, "attempt")
  /\ \/ wk' = [wk EXCEPT ![w].pc = "merge", ![w].committed = TRUE,
                          ![w].machine = Moved(w, "begin")]
     \/ /\ ~wk[w].committed
        /\ wk' = [wk EXCEPT ![w].pc = "mark_blocked",
                            ![w].machine = Apply(Moved(w, "begin"), "failed_permanent")]
  /\ LocalFrame

\* MergeToMain brings the clone's main up to the remote before it merges.
Merge(w) ==
  /\ At(w, "merge")
  /\ wk' = [wk EXCEPT ![w].pc = "push", ![w].base = remote]
  /\ LocalFrame

MergeFails(w) ==
  /\ At(w, "merge")
  /\ LET failed == Moved(w, "failed_retryable") IN
     \/ /\ wk[w].attempt < 2              \* not a conflict: try again
        /\ wk' = [wk EXCEPT ![w].pc = "attempt", ![w].attempt = @ + 1,
                            ![w].machine = Apply(failed, "requeued")]
     \/ /\ wk[w].attempt < 2              \* a conflict: remediate first
        /\ wk' = [wk EXCEPT ![w].pc = "remediate", ![w].machine = failed]
     \/ /\ wk[w].attempt = 2
        /\ wk' = [wk EXCEPT ![w].pc = "mark_blocked", ![w].machine = failed]
  /\ LocalFrame

Remediate(w) ==
  /\ At(w, "remediate")
  /\ \/ wk' = [wk EXCEPT ![w].pc = "attempt", ![w].attempt = @ + 1, ![w].committed = FALSE,
                          ![w].reviewed = FALSE,
                          ![w].machine = Moved(w, "requeued")]
     \/ Go(w, "mark_blocked")
  /\ LocalFrame

\* The remote takes only a push that builds on what it holds.
Push(w) ==
  /\ At(w, "push")
  /\ wk[w].base = remote
  /\ remote' = remote \cup {T(w)}
  /\ wk' = [wk EXCEPT ![w].pc = "close", ![w].machine = Moved(w, "succeeded")]
  /\ UNCHANGED <<tracker, status, retries, file, dispatcher, shared, approved, bounds>>

PushFails(w) ==
  /\ At(w, "push")
  /\ wk' = [wk EXCEPT ![w].pc = "mark_blocked", ![w].machine = Moved(w, "failed_permanent")]
  /\ LocalFrame

(* Ends of a task.                                                          *)

\* The tracker is written first; then the engine refuses to close a task
\* with an open dependency.
Close(w) ==
  /\ At(w, "close")
  /\ SetTaskStatus(T(w), "closed")
  /\ IF DependenciesClosed(T(w))
       THEN wk' = [wk EXCEPT ![w].pc = "clear", ![w].outcome = "completed"]
       ELSE wk' = [wk EXCEPT ![w].pc = "return", ![w].outcome = "error"]
  /\ UNCHANGED retries /\ TrackerFrame

\* Mutant: the task leaves the sets of work done, but is not recorded as blocked.
MarkTaskBlocked_NotRecorded(w) ==
  /\ At(w, "mark_blocked")
  /\ file' = [file EXCEPT !.inFlight = @ \ {T(w)}, !.completed = @ \ {T(w)}]
  /\ Go(w, "block")
  /\ FileFrame

MarkTaskBlocked(w) ==
  /\ At(w, "mark_blocked")
  /\ file' = [inFlight  |-> file.inFlight \ {T(w)},
              completed |-> file.completed \ {T(w)},
              blocked   |-> file.blocked \cup {T(w)}]
  /\ Go(w, "block")
  /\ FileFrame

\* The status, then why, with the one counter that ran out, if one did.
Block(w) ==
  /\ At(w, "block")
  /\ SetTaskStatus(T(w), "blocked")
  /\ SetTaskData(T(w), [NoRetries EXCEPT !.completion = IF wk[w].result = "failed"
                                                         THEN wk[w].completion ELSE 0])
  /\ wk' = [wk EXCEPT ![w].pc = "clear", ![w].outcome = "blocked"]
  /\ TrackerFrame

ClearTaskTerminalState(w) ==
  /\ At(w, "clear")
  /\ file' = [inFlight  |-> file.inFlight \ {T(w)},
              completed |-> file.completed \ {T(w)},
              blocked   |-> file.blocked \ {T(w)}]
  /\ Go(w, "return")
  /\ FileFrame

Fail(w) ==
  /\ At(w, "fail")
  /\ SetTaskStatus(T(w), "failed")
  /\ wk' = [wk EXCEPT ![w].pc = "clear_in_flight", ![w].outcome = "failed"]
  /\ UNCHANGED retries /\ TrackerFrame

ClearTaskInFlight(w) ==
  /\ At(w, "clear_in_flight")
  /\ file' = [file EXCEPT !.inFlight = @ \ {T(w)}]
  /\ Go(w, "return")
  /\ FileFrame

(* The switch on the runner's result.                                       *)

\* What is blocked is told the reason after its status, what fails before it.
NotRetried(w) ==
  /\ At(w, "decide")
  /\ \/ wk[w].result = "blocked" /\ Go(w, "mark_blocked") /\ UNCHANGED retries
     \/ wk[w].result = "invalid" /\ Go(w, "fail") /\ SetTaskData(T(w), NoRetries)
  /\ UNCHANGED status /\ TrackerFrame

\* One switch of model per task, and only for a failure of the implementation
\* whose reason is recoverable.
FallBack(w) ==
  /\ At(w, "decide") /\ wk[w].result = "failed"
  /\ HasFallbackModel /\ ~wk[w].fallback /\ ~wk[w].reviewFailed
  /\ wk' = [wk EXCEPT ![w].pc = "in_progress", ![w].fallback = TRUE]
  /\ LocalFrame

\* An implementation that failed for a review's reason counts as a review
\* failure (isReviewFailResult).
ReviewFailed(w) ==
  /\ At(w, "decide") /\ wk[w].result = "failed"
  /\ LET more == wk[w].review < MaxRetries
         n    == wk[w].review + (IF more THEN 1 ELSE 0) IN
     /\ wk' = [wk EXCEPT ![w].pc = IF more THEN "reopen" ELSE "fail", ![w].review = n]
     /\ SetTaskData(T(w), [NoRetries EXCEPT !.review = n])
  /\ UNCHANGED status /\ TrackerFrame

CompletionFailed(w) ==
  /\ At(w, "decide") /\ wk[w].result = "failed" /\ ~wk[w].reviewFailed
  /\ IF wk[w].completion < MaxRetries
       THEN /\ wk' = [wk EXCEPT ![w].pc = "reopen", ![w].completion = @ + 1]
            /\ SetTaskData(T(w), [NoRetries EXCEPT !.completion = wk[w].completion + 1])
       ELSE /\ Go(w, "mark_blocked")
            /\ UNCHANGED retries
  /\ UNCHANGED status /\ TrackerFrame

\* A retried task is open again while its worker still holds it.
Reopen(w) ==
  /\ At(w, "reopen")
  /\ SetTaskStatus(T(w), "open")
  /\ Go(w, "in_progress")
  /\ UNCHANGED retries /\ TrackerFrame

(* The deferred calls, the result, and the task lock.                       *)

\* runTask has returned: its locals are gone.
Returned(w, outcome) == [Idle EXCEPT !.pc = "report", !.task = T(w), !.outcome = outcome]

\* Mutant: the landing lock is not released when the task ends.
Return_KeepsLandingLock(w) ==
  /\ At(w, "return")
  /\ wk' = [wk EXCEPT ![w] = Returned(w, @.outcome)]
  /\ UNCHANGED <<durable, dispatcher, shared, approved, bounds>>

Return(w) ==
  /\ At(w, "return")
  /\ landingLock' = IF landingLock = w THEN None ELSE landingLock
  /\ wk' = [wk EXCEPT ![w] = Returned(w, @.outcome)]
  /\ UNCHANGED <<durable, dispatcher, taskLock, results, approved, bounds>>

Report(w) ==
  /\ At(w, "report")
  /\ results' = Append(results, [task |-> T(w), outcome |-> wk[w].outcome])
  /\ Go(w, "unlock")
  /\ UNCHANGED <<durable, dispatcher, taskLock, landingLock, approved, bounds>>

Unlock(w) ==
  /\ At(w, "unlock")
  /\ taskLock' = taskLock \ {T(w)}
  /\ wk' = [wk EXCEPT ![w] = Idle]
  /\ UNCHANGED <<durable, dispatcher, landingLock, results, approved, bounds>>

\* The status a tracker write at this step would set.
Intended(pc, s) ==
  CASE pc = "in_progress" -> "in_progress"
    [] pc = "reopen"      -> "open"
    [] pc = "close"       -> "closed"
    [] pc = "block"       -> Shown("blocked")
    [] pc = "fail"        -> Shown("failed")
    [] OTHER              -> s

\* A call of runTask returns an error; a status may have been stored all the same
\* (data that was stored is data stored and the next call failing).  The task ends
\* where it stands, and so will the run.
CallFails(w) ==
  /\ wk[w].pc \in {"gate", "in_progress", "implement", "review", "verdict", "qc",
                   "mark_completed", "close", "mark_blocked", "block", "clear",
                   "decide", "reopen", "fail", "clear_in_flight", "return"}
  /\ faults < MaxFaults
  /\ faults' = faults + 1
  /\ status' \in {status, [status EXCEPT ![T(w)] = Intended(wk[w].pc, @)]}
  /\ landingLock' = IF At(w, "return") /\ landingLock = w THEN None ELSE landingLock
  /\ wk' = [wk EXCEPT ![w] = IF @.pc = "return" THEN Returned(w, "error")
                               ELSE [@ EXCEPT !.pc = "return", !.outcome = "error"]]
  /\ UNCHANGED <<tracker, retries, file, remote, dispatcher, taskLock, results, approved, restarts>>

RunTask(w) ==
  \/ Gate(w) \/ SetInProgress(w) \/ Implement(w) \/ Review(w) \/ QCGate(w)
  \/ MarkTaskCompleted(w)
  \/ LockLanding(w) \/ BeginAttempt(w) \/ Merge(w) \/ MergeFails(w) \/ Remediate(w)
  \/ Push(w) \/ PushFails(w)
  \/ Close(w) \/ MarkTaskBlocked(w) \/ Block(w) \/ ClearTaskTerminalState(w)
  \/ Fail(w) \/ ClearTaskInFlight(w)
  \/ NotRetried(w) \/ FallBack(w) \/ ReviewFailed(w) \/ CompletionFailed(w) \/ Reopen(w)
  \/ Return(w) \/ Report(w) \/ Unlock(w)

-----------------------------------------------------------------------------
(* The process is killed, or has ended, and a new one starts.               *)

Restart ==
  /\ restarts < MaxRestarts
  /\ restarts' = restarts + 1
  /\ mpc' = "load" /\ todo' = EmptyRecord /\ picked' = None /\ inFlight' = {}
  /\ processed' = 0 /\ stop' = FALSE
  /\ taskLock' = {} /\ landingLock' = None /\ results' = <<>>
  /\ wk' = [w \in Workers |-> Idle]
  /\ UNCHANGED <<durable, approved, faults>>

Dispatch ==
  \/ Load \/ (\E t \in Tasks : RecoverTask(t)) \/ Recovered
  \/ Top \/ (\E t \in Tasks : Pick(t)) \/ MarkPicked \/ (\E w \in Workers : Send(w))
  \/ FillEnds \/ Receive

Next ==
  \/ Dispatch
  \/ \E w \in Workers : RunTask(w) \/ CallFails(w)
  \/ DispatcherFails \/ RequestStop \/ Restart

\* Every goroutine that can take a step takes one, runners return (they run
\* under a timeout), and the landing mutex is handed on.  Faults, a request
\* to stop and restarts need not happen.
Fairness == WF_vars(Dispatch) /\ \A w \in Workers : WF_vars(RunTask(w))

Spec     == Init /\ [][Next]_vars
FairSpec == Spec /\ Fairness

-----------------------------------------------------------------------------
(* Properties.                                                              *)

WorkerPCs ==
  {"idle", "gate", "in_progress", "implement", "review", "verdict", "qc",
   "mark_completed", "await_landing", "attempt", "merge", "remediate", "push",
   "close", "mark_blocked", "block", "clear", "decide", "reopen", "fail",
   "clear_in_flight", "return", "report", "unlock"}

WorkerState ==
  [pc : WorkerPCs, task : Tasks \cup {None},
   result : {"none", "completed", "blocked", "failed", "invalid"},
   outcome : {"none", "completed", "blocked", "failed", "error"},
   review : Nat, completion : Nat, reviewFailed : BOOLEAN, fallback : BOOLEAN,
   machine : LandingMachine, attempt : Nat, committed : BOOLEAN,
   base : SUBSET Tasks, reviewed : BOOLEAN]

StateRecord == [inFlight : SUBSET Tasks, completed : SUBSET Tasks, blocked : SUBSET Tasks]

DurableOK ==
  /\ tracker \in Trackers
  /\ status \in [Tasks -> Statuses]
  /\ retries \in [Tasks -> [review : Nat, completion : Nat]]
  /\ file \in StateRecord
  /\ remote \subseteq Tasks /\ approved \subseteq Tasks

DispatcherOK ==
  /\ mpc \in {"load", "recover", "top", "fill", "picked", "send", "receive", "stopped", "error"}
  /\ todo \in StateRecord /\ inFlight \subseteq Tasks /\ taskLock \subseteq Tasks
  /\ picked \in Tasks \cup {None} /\ landingLock \in Workers \cup {None}
  /\ mpc \in {"picked", "send"} => picked \in Tasks
  /\ processed \in Nat /\ stop \in BOOLEAN
  /\ results \in Seq([task : Tasks, outcome : {"completed", "blocked", "failed", "error"}])
  /\ restarts \in 0..MaxRestarts /\ faults \in 0..MaxFaults

\* The state of one worker.
WorkerOK(x) ==
  /\ x \in WorkerState
  /\ x.pc # "idle" => x.task \in Tasks
  /\ x.pc \in {"clear", "clear_in_flight", "return", "report"} => x.outcome # "none"

TypeOK ==
  /\ DurableOK /\ DispatcherOK
  /\ wk \in [Workers -> WorkerState] /\ \A w \in Workers : WorkerOK(wk[w])

Busy(w) == wk[w].pc # "idle"

\* "No task runs twice": a task has at most one worker, and a worker runs a
\* task only while the task is locked.
TaskRunByOne ==
  \A w \in Workers : Busy(w) =>
    /\ T(w) \in taskLock
    /\ \A v \in Workers \ {w} : Busy(v) => T(v) # T(w)

\* "Landing remains serialized": when a task is pushed, its merge is based on
\* what the remote main branch holds, so a push is never refused for the
\* landing of another task of this loop.
PushBuildsOnRemote == \A w \in Workers : At(w, "push") => wk[w].base = remote

\* A task the tracker shows in progress is in the state file, so that a run
\* that dies at any point leaves no task in progress for ever.
InProgressIsRecorded == \A t \in Tasks : status[t] = "in_progress" => t \in Recorded

\* A task whose work is on the remote main branch is never given to an
\* implementation runner again, whatever crashes in between.
LandedIsNotRerun == \A w \in Workers : At(w, "implement") => T(w) \notin remote

\* The file never says two things of one task.
FileIsConsistent ==
  /\ file.inFlight \cap file.completed = {}
  /\ file.inFlight \cap file.blocked = {}
  /\ file.completed \cap file.blocked = {}

\* A run that ends without an error, a stop or an exhausted budget leaves no
\* task unfinished; and a run that ends without an error leaves the state
\* file empty.
CleanExit ==
  mpc = "stopped" =>
    /\ Recorded = {}
    /\ ~stop /\ ~BudgetUsed(processed) => IsComplete

\* MaxTasks bounds the tasks a run takes on, those in flight included.
TaskBudget == MaxTasks > 0 => processed + Cardinality(inFlight) <= MaxTasks

\* A task is closed, by a worker or by recovery, only after a review passed.
ClosedIsReviewed == RequireReview => \A t \in Tasks : status[t] = "closed" => t \in approved

\* A task is in the hands of a worker, or recorded as completed, only when
\* its dependencies are closed: the engine never refuses to close it.
DependenciesHold ==
  \A t \in Tasks :
    (t \in file.completed \/ \E w \in Workers : Busy(w) /\ T(w) = t) =>
      DependenciesClosed(t)

\* What the tracker shows as closed or blocked is final: neither a restart nor a
\* retry undoes it, nor does a record of the task that was left in the file.  (tk
\* shows what was blocked as open.)
TerminalIsFinal ==
  [][\A t \in Tasks : status[t] \in {"closed", "blocked"} => status'[t] = status[t]]_vars

\* The landing state machine refuses events out of order without the loop
\* noticing; it never does, so the status it reports is that of the landing.
\* (After a failed remediation the machine still says "retrying".)
LandingInStep ==
  \A w \in Workers : landingLock = w =>
    LET state == wk[w].machine.state IN
    /\ At(w, "attempt") => state = "queued"
    /\ wk[w].pc \in {"merge", "push"} => state = "landing"
    /\ At(w, "remediate") => state = "retrying"
    /\ At(w, "close") => state = "landed"
    /\ At(w, "mark_blocked") => \/ state = "blocked"
                                \/ state = "retrying" /\ wk[w].attempt = 1

\* "Merge is allowed only if review result is successful": what is merged and
\* pushed is what the review passed, until an agent has resolved a conflict on
\* the branch, which is then landed as it is.
MergedIsReviewed ==
  RequireReview =>
    \A w \in Workers : wk[w].pc \in {"merge", "push"} /\ wk[w].attempt = 1 => wk[w].reviewed

\* No work gets to the main branch or its task closed but through a review.
ReviewComesFirst == ClosedIsReviewed /\ MergedIsReviewed

\* What the loop says is so: its file of the tasks, its landing status of the landing, and its
\* end without an error of the run.
ReportsAreTrue == FileIsConsistent /\ LandingInStep /\ CleanExit

\* Merge and close go together: a closed task is on the remote main branch.
ClosedIsLanded == MergeOnSuccess => \A t \in Tasks : status[t] = "closed" => t \in remote

\* Every run with a budget ends, on every tracker: on tk, which offers a blocked or
\* failed task to the same run again, a run without one need not.
RunEnds == MaxTasks > 0 => <>[](mpc \in {"stopped", "error"})
=============================================================================
