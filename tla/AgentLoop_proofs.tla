--------------------------- MODULE AgentLoop_proofs ---------------------------
(***************************************************************************)
(* Theorems about the agent loop, for every set of tasks with any           *)
(* dependencies, any number of workers, all option values, and any number   *)
(* of crashes, restarts and failing calls.                                  *)
(***************************************************************************)
EXTENDS AgentLoop, FiniteSetTheorems, TLAPS

-----------------------------------------------------------------------------
(* Types.                                                                   *)

\* A state machine stays a state machine whatever event it is given.
LEMMA ApplyType ==
  ASSUME NEW m \in LandingMachine, NEW e \in LandingEvents
  PROVE  Apply(m, e) \in LandingMachine
<1> USE DEF LandingMachine, LandingStates
<1>1. PlainTransition(m.state, e) \in LandingStates
  BY DEF PlainTransition
<1>2. [m EXCEPT !.state = PlainTransition(m.state, e)] \in LandingMachine
  BY <1>1
<1>3. ASSUME NEW s \in LandingStates
      PROVE  [m EXCEPT !.attempts = m.attempts + 1, !.state = s] \in LandingMachine
  <2>1. m.attempts + 1 \in Nat
    OBVIOUS
  <2> QED BY <2>1
<1> QED BY <1>2, <1>3 DEF Apply

\* The state a worker waits in for a task.
LEMMA IdleType == WorkerOK(Idle)
  BY DEF WorkerOK, Idle, WorkerState, WorkerPCs, LandingMachine, LandingStates,
         NewLandingQueueStateMachine

\* A step that gives one worker a good state leaves all of them good.
LEMMA WorkerUpdate ==
  ASSUME NEW w \in Workers, NEW x, WorkerOK(x),
         wk \in [Workers -> WorkerState], \A v \in Workers : WorkerOK(wk[v]),
         wk' = [wk EXCEPT ![w] = x]
  PROVE  /\ wk' \in [Workers -> WorkerState]
         /\ \A v \in Workers : WorkerOK(wk'[v])
  BY DEF WorkerOK

\* What a busy worker has, and what its state machine can become.
LEMMA WorkerFields ==
  ASSUME NEW w \in Workers, WorkerOK(wk[w]), wk[w].pc # "idle"
  PROVE  /\ T(w) \in Tasks
         /\ wk[w].review + 1 \in Nat /\ wk[w].completion + 1 \in Nat
         /\ \A e \in LandingEvents : Moved(w, e) \in LandingMachine
         /\ \A d, e \in LandingEvents : Apply(Moved(w, d), e) \in LandingMachine
<1>1. wk[w].machine \in LandingMachine
  BY DEF WorkerOK, WorkerState
<1>2. \A e \in LandingEvents : Moved(w, e) \in LandingMachine
  BY <1>1, ApplyType DEF Moved
<1>3. \A d, e \in LandingEvents : Apply(Moved(w, d), e) \in LandingMachine
  BY <1>2, ApplyType
<1> QED BY <1>2, <1>3 DEF T, WorkerOK, WorkerState

\* A worker whose task has ended.
LEMMA ReturnedType ==
  ASSUME NEW w \in Workers, WorkerOK(wk[w]), wk[w].pc # "idle",
         NEW o \in {"completed", "blocked", "failed", "error"}
  PROVE  WorkerOK(Returned(w, o))
<1>1. T(w) \in Tasks
  BY WorkerFields
<1>2. Returned(w, o) \in WorkerState
  BY <1>1, IdleType DEF Returned, WorkerOK, WorkerState, WorkerPCs
<1>3. /\ Returned(w, o).pc = "report" /\ Returned(w, o).task = T(w)
      /\ Returned(w, o).outcome = o
  BY DEF Returned, Idle
<1> QED BY <1>1, <1>2, <1>3 DEF WorkerOK

\* A step that only moves a worker on.
LEMMA GoType ==
  ASSUME NEW w \in Workers, wk \in [Workers -> WorkerState],
         WorkerOK(wk[w]), wk[w].pc # "idle",
         NEW p \in WorkerPCs \ {"clear", "clear_in_flight", "return", "report"}, Go(w, p)
  PROVE  WorkerOK(wk'[w]) /\ wk' = [wk EXCEPT ![w] = wk'[w]]
<1>1. wk'[w] = [wk[w] EXCEPT !.pc = p] /\ wk' = [wk EXCEPT ![w] = wk'[w]]
  BY DEF Go
<1> QED BY <1>1 DEF WorkerOK, WorkerState

\* Every action of a worker leaves its state good, and the others' alone.
LEMMA RunTaskWorker ==
  ASSUME TypeOK, NEW w \in Workers, RunTask(w)
  PROVE  WorkerOK(wk'[w]) /\ wk' = [wk EXCEPT ![w] = wk'[w]]
<1> USE DEF TypeOK, DurableOK, At
<1>1. CASE Gate(w) \/ QCGate(w) \/ MarkTaskCompleted(w) \/ LockLanding(w)
          \/ MarkTaskBlocked(w) \/ NotRetried(w) \/ Reopen(w) \/ Report(w)
  BY <1>1, GoType DEF WorkerPCs, Gate, QCGate, MarkTaskCompleted, LockLanding,
      MarkTaskBlocked, NotRetried, Reopen, Report
<1>2. CASE SetInProgress(w)
  <2>1. /\ wk'[w] = [wk[w] EXCEPT !.pc = "implement", !.reviewFailed = FALSE]
        /\ wk' = [wk EXCEPT ![w] = wk'[w]]
    BY <1>2 DEF SetInProgress
  <2> QED BY SMTT(40), <1>2, <2>1, WorkerFields DEF SetInProgress, WorkerOK, WorkerState,
      WorkerPCs, LandingEvents
<1>3. CASE Merge(w)
  <2>1. /\ wk'[w] = [wk[w] EXCEPT !.pc = "push", !.base = remote]
        /\ wk' = [wk EXCEPT ![w] = wk'[w]]
    BY <1>3 DEF Merge
  <2> QED BY SMTT(40), <1>3, <2>1, WorkerFields DEF Merge, WorkerOK, WorkerState, WorkerPCs,
      LandingEvents
<1>4. CASE Push(w)
  <2>1. /\ wk'[w] = [wk[w] EXCEPT !.pc = "close", !.machine = Moved(w, "succeeded")]
        /\ wk' = [wk EXCEPT ![w] = wk'[w]]
    BY <1>4 DEF Push
  <2> QED BY SMTT(40), <1>4, <2>1, WorkerFields DEF Push, WorkerOK, WorkerState, WorkerPCs,
      LandingEvents
<1>5. CASE PushFails(w)
  <2>1. /\ wk'[w] = [wk[w] EXCEPT !.pc = "mark_blocked",
                             !.machine = Moved(w, "failed_permanent")]
        /\ wk' = [wk EXCEPT ![w] = wk'[w]]
    BY <1>5 DEF PushFails
  <2> QED BY SMTT(40), <1>5, <2>1, WorkerFields DEF PushFails, WorkerOK, WorkerState, WorkerPCs,
      LandingEvents
<1>6. CASE Block(w)
  <2>1. /\ wk'[w] = [wk[w] EXCEPT !.pc = "clear", !.outcome = "blocked"]
        /\ wk' = [wk EXCEPT ![w] = wk'[w]]
    BY <1>6 DEF Block
  <2> QED BY SMTT(40), <1>6, <2>1, WorkerFields DEF Block, WorkerOK, WorkerState, WorkerPCs,
      LandingEvents
<1>7. CASE Fail(w)
  <2>1. /\ wk'[w] = [wk[w] EXCEPT !.pc = "clear_in_flight", !.outcome = "failed"]
        /\ wk' = [wk EXCEPT ![w] = wk'[w]]
    BY <1>7 DEF Fail
  <2> QED BY SMTT(40), <1>7, <2>1, WorkerFields DEF Fail, WorkerOK, WorkerState, WorkerPCs,
      LandingEvents
<1>8. CASE ClearTaskTerminalState(w)
  <2>1. /\ wk'[w] = [wk[w] EXCEPT !.pc = "return"]
        /\ wk' = [wk EXCEPT ![w] = wk'[w]]
    BY <1>8 DEF ClearTaskTerminalState, Go
  <2> QED BY SMTT(40), <1>8, <2>1, WorkerFields DEF ClearTaskTerminalState, WorkerOK,
      WorkerState, WorkerPCs, LandingEvents
<1>9. CASE ClearTaskInFlight(w)
  <2>1. /\ wk'[w] = [wk[w] EXCEPT !.pc = "return"]
        /\ wk' = [wk EXCEPT ![w] = wk'[w]]
    BY <1>9 DEF ClearTaskInFlight, Go
  <2> QED BY SMTT(40), <1>9, <2>1, WorkerFields DEF ClearTaskInFlight, WorkerOK, WorkerState,
      WorkerPCs, LandingEvents
<1>10. CASE FallBack(w)
  <2>1. /\ wk'[w] = [wk[w] EXCEPT !.pc = "in_progress", !.fallback = TRUE]
        /\ wk' = [wk EXCEPT ![w] = wk'[w]]
    BY <1>10 DEF FallBack
  <2> QED BY SMTT(40), <1>10, <2>1, WorkerFields DEF FallBack, WorkerOK, WorkerState, WorkerPCs,
      LandingEvents
<1>11. CASE Implement(w)
  BY <1>11, WorkerFields, IdleType DEF Implement, T, Go, WorkerOK, WorkerState,
      WorkerPCs, LandingEvents
<1>12. CASE Review(w)
  BY SMTT(40), <1>12, WorkerFields, IdleType DEF Review, T, Go, WorkerOK, WorkerState, WorkerPCs,
      LandingEvents
<1>13. CASE BeginAttempt(w)
  BY SMTT(40), <1>13, WorkerFields, IdleType DEF BeginAttempt, T, Go, WorkerOK, WorkerState,
      WorkerPCs, LandingEvents
<1>14. CASE MergeFails(w)
  BY SMTT(40), <1>14, WorkerFields, IdleType DEF MergeFails, T, Go, WorkerOK, WorkerState,
      WorkerPCs, LandingEvents
<1>15. CASE Remediate(w)
  BY SMTT(40), <1>15, WorkerFields, IdleType DEF Remediate, T, Go, WorkerOK, WorkerState,
      WorkerPCs, LandingEvents
<1>16. CASE Close(w)
  BY SMTT(40), <1>16, WorkerFields, IdleType DEF Close, T, Go, WorkerOK, WorkerState, WorkerPCs,
      LandingEvents
<1>17. CASE ReviewFailed(w)
  <2>1. wk[w].review \in Nat /\ wk[w].review + 1 \in Nat /\ wk[w].pc # "idle"
    BY <1>17 DEF ReviewFailed, WorkerOK, WorkerState
  <2>2. PICK n \in Nat, pc \in {"reopen", "fail"} :
          wk' = [wk EXCEPT ![w].pc = pc, ![w].review = n]
    <3>1. CASE wk[w].review < MaxRetries
      BY <1>17, <2>1, <3>1 DEF ReviewFailed
    <3>2. CASE ~(wk[w].review < MaxRetries)
      <4>1. wk' = [wk EXCEPT ![w].pc = "fail", ![w].review = wk[w].review + 0]
        BY <1>17, <3>2 DEF ReviewFailed
      <4>2. wk[w].review + 0 \in Nat
        BY <2>1
      <4> QED BY <4>1, <4>2
    <3> QED BY <3>1, <3>2
  <2>3. /\ wk'[w] = [wk[w] EXCEPT !.pc = pc, !.review = n]
        /\ wk' = [wk EXCEPT ![w] = wk'[w]]
    BY <2>2
  <2>4. wk[w] \in WorkerState /\ wk[w].task \in Tasks
    BY <2>1, WorkerFields DEF WorkerOK, T
  <2>5. wk'[w] \in WorkerState
    BY <2>3, <2>4 DEF WorkerState, WorkerPCs
  <2>6. wk'[w].pc \in {"reopen", "fail"} /\ wk'[w].task = wk[w].task
    BY <2>3, <2>4 DEF WorkerState
  <2> QED BY <2>3, <2>4, <2>5, <2>6 DEF WorkerOK
<1>18. CASE CompletionFailed(w)
  BY SMTT(40), <1>18, WorkerFields, IdleType DEF CompletionFailed, T, Go, WorkerOK, WorkerState,
      WorkerPCs, LandingEvents
<1>19. CASE Return(w)
  <2>1. wk[w].outcome \in {"completed", "blocked", "failed", "error"}
    BY <1>19 DEF Return, WorkerOK, WorkerState
  <2>2. wk' = [wk EXCEPT ![w] = Returned(w, wk[w].outcome)] /\ wk[w].pc # "idle"
    BY <1>19 DEF Return
  <2> QED BY <2>1, <2>2, ReturnedType
<1>20. CASE Unlock(w)
  BY <1>20, WorkerFields, IdleType DEF Unlock, T, Go, WorkerOK, WorkerState, WorkerPCs,
      LandingEvents
<1> QED BY <1>1, <1>2, <1>3, <1>4, <1>5, <1>6, <1>7, <1>8, <1>9, <1>10, <1>11, <1>12,
      <1>13, <1>14, <1>15, <1>16, <1>17, <1>18, <1>19, <1>20 DEF RunTask

\* The tracker, the state file and the remote.
LEMMA RunTaskDurable ==
  ASSUME TypeOK, NEW w \in Workers, RunTask(w)
  PROVE  DurableOK'
<1> USE DEF TypeOK, DurableOK, At
<1>0. WorkerOK(wk[w])
  OBVIOUS
<1>1. CASE Gate(w) \/ Implement(w) \/ BeginAttempt(w)
          \/ Merge(w) \/ MergeFails(w) \/ Remediate(w) \/ PushFails(w)
          \/ FallBack(w)
  BY <1>0, <1>1, WorkerFields DEF Gate, Implement, BeginAttempt, Merge,
      MergeFails, Remediate, PushFails, FallBack, LocalFrame, durable
<1>2. CASE LockLanding(w) \/ Return(w) \/ Report(w) \/ Unlock(w)
  BY <1>0, <1>2, WorkerFields DEF LockLanding, Return, Report, Unlock, durable
<1>3. CASE SetInProgress(w) \/ Close(w) \/ Fail(w) \/ Reopen(w)
  BY <1>0, <1>3, WorkerFields DEF SetInProgress, Close, Fail, Reopen,
      SetTaskStatus, Shown, Statuses, TrackerFrame, durable
<1>4. CASE MarkTaskCompleted(w) \/ MarkTaskBlocked(w)
          \/ ClearTaskTerminalState(w) \/ ClearTaskInFlight(w)
  BY <1>0, <1>4, WorkerFields DEF MarkTaskCompleted, MarkTaskBlocked,
      ClearTaskTerminalState, ClearTaskInFlight, FileFrame, StateRecord
<1>5. CASE QCGate(w) \/ NotRetried(w) \/ ReviewFailed(w) \/ CompletionFailed(w) \/ Block(w)
  <2>1. /\ T(w) \in Tasks
        /\ wk[w].review \in Nat /\ wk[w].review + 1 \in Nat
        /\ wk[w].completion \in Nat /\ wk[w].completion + 1 \in Nat
    BY <1>0, <1>5, WorkerFields DEF QCGate, NotRetried, ReviewFailed, CompletionFailed, Block,
        WorkerOK, WorkerState
  <2>2. \A n \in Nat : /\ NoRetries \in [review : Nat, completion : Nat]
                       /\ [NoRetries EXCEPT !.review = n] \in [review : Nat, completion : Nat]
                       /\ [NoRetries EXCEPT !.completion = n] \in [review : Nat, completion : Nat]
    BY DEF NoRetries
  <2>3. \A c \in [review : Nat, completion : Nat] : SetTaskData(T(w), c) =>
          retries' \in [Tasks -> [review : Nat, completion : Nat]]
    BY <2>1 DEF SetTaskData
  <2>4. retries' \in [Tasks -> [review : Nat, completion : Nat]]
    <3>1. CASE QCGate(w) \/ NotRetried(w)
      BY <2>2, <2>3, <3>1 DEF QCGate, NotRetried
    <3>2. CASE ReviewFailed(w)
      <4>1. PICK n \in Nat : SetTaskData(T(w), [NoRetries EXCEPT !.review = n])
        <5>1. CASE wk[w].review < MaxRetries
          BY <2>1, <3>2, <5>1 DEF ReviewFailed
        <5>2. CASE ~(wk[w].review < MaxRetries)
          BY <2>1, <3>2, <5>2 DEF ReviewFailed
        <5> QED BY <5>1, <5>2
      <4> QED BY <2>2, <2>3, <4>1
    <3>3. CASE CompletionFailed(w)
      BY <2>1, <2>2, <2>3, <3>3 DEF CompletionFailed
    <3>4. CASE Block(w)
      BY <2>1, <2>2, <2>3, <3>4 DEF Block
    <3> QED BY <1>5, <3>1, <3>2, <3>3, <3>4
  <2>5. CASE Block(w)
    BY <2>1, <2>4, <2>5 DEF Block, SetTaskStatus, Shown, Statuses, TrackerFrame
  <2> QED BY <1>5, <2>4, <2>5 DEF QCGate, NotRetried, ReviewFailed, CompletionFailed, TrackerFrame
<1>6. CASE Review(w) \/ Push(w)
  BY <1>0, <1>6, WorkerFields DEF Review, Push, durable
<1> QED BY <1>1, <1>2, <1>3, <1>4, <1>5, <1>6 DEF RunTask

\* The dispatcher, the locks and the results.
LEMMA RunTaskDispatcher ==
  ASSUME TypeOK, NEW w \in Workers, RunTask(w)
  PROVE  DispatcherOK'
<1> USE DEF TypeOK, DispatcherOK, At, dispatcher, shared, bounds
<1>1. CASE Gate(w) \/ Implement(w) \/ BeginAttempt(w)
          \/ Merge(w) \/ MergeFails(w) \/ Remediate(w) \/ PushFails(w)
          \/ FallBack(w)
  BY <1>1 DEF Gate, Implement, BeginAttempt, Merge, MergeFails, Remediate,
      PushFails, FallBack, LocalFrame
<1>2. CASE SetInProgress(w) \/ Close(w) \/ Block(w) \/ Fail(w) \/ Reopen(w)
          \/ QCGate(w) \/ NotRetried(w) \/ ReviewFailed(w) \/ CompletionFailed(w)
  BY <1>2 DEF SetInProgress, Close, Block, Fail, Reopen, QCGate, NotRetried, ReviewFailed,
      CompletionFailed, TrackerFrame
<1>3. CASE MarkTaskCompleted(w) \/ MarkTaskBlocked(w)
          \/ ClearTaskTerminalState(w) \/ ClearTaskInFlight(w)
  BY <1>3 DEF MarkTaskCompleted, MarkTaskBlocked, ClearTaskTerminalState,
      ClearTaskInFlight, FileFrame
<1>4. CASE Review(w) \/ Push(w)
  BY <1>4 DEF Review, Push
<1>5. CASE LockLanding(w) \/ Return(w) \/ Unlock(w)
  BY <1>5 DEF LockLanding, Return, Unlock
<1>6. CASE Report(w)
  <2>1. [task |-> T(w), outcome |-> wk[w].outcome]
          \in [task : Tasks, outcome : {"completed", "blocked", "failed", "error"}]
    BY <1>6 DEF Report, T, WorkerOK, WorkerState
  <2> QED BY <1>6, <2>1 DEF Report
<1> QED BY <1>1, <1>2, <1>3, <1>4, <1>5, <1>6 DEF RunTask

\* A failing call.
LEMMA CallFailsType ==
  ASSUME TypeOK, NEW w \in Workers, CallFails(w)
  PROVE  TypeOK'
<1> USE DEF TypeOK
<1>1. wk[w] \in WorkerState /\ T(w) \in Tasks
  BY DEF CallFails, WorkerOK, T
<1>2. WorkerOK(wk'[w]) /\ wk' = [wk EXCEPT ![w] = wk'[w]]
  <2>1. CASE wk[w].pc = "return"
    <3>1. wk'[w] = Returned(w, "error") /\ wk' = [wk EXCEPT ![w] = wk'[w]]
      BY <2>1 DEF CallFails
    <3> QED BY <2>1, <3>1, ReturnedType
  <2>2. CASE wk[w].pc # "return"
    <3>1. /\ wk'[w] = [wk[w] EXCEPT !.pc = "return", !.outcome = "error"]
          /\ wk' = [wk EXCEPT ![w] = wk'[w]]
      BY <2>2 DEF CallFails
    <3>2. wk'[w] \in WorkerState
      BY <1>1, <3>1 DEF WorkerState, WorkerPCs
    <3> QED BY <1>1, <3>1, <3>2 DEF WorkerOK, T
  <2> QED BY <2>1, <2>2
<1>3. DurableOK'
  BY <1>1 DEF CallFails, DurableOK, Intended, Shown, Statuses
<1>4. DispatcherOK'
  BY LoopAssumption DEF CallFails, DispatcherOK, dispatcher
<1> QED BY <1>2, <1>3, <1>4, WorkerUpdate

\* The steps of the dispatcher.
LEMMA DispatchType ==
  ASSUME TypeOK, Dispatch \/ DispatcherFails \/ RequestStop
  PROVE  TypeOK'
<1> USE DEF TypeOK, DurableOK, DispatcherOK, durable, dispatcher, shared, bounds
<1>1. CASE Load
  BY <1>1 DEF Load
<1>2. ASSUME NEW t \in Tasks, RecoverTask(t) PROVE TypeOK'
  <2>1. /\ [todo EXCEPT !.completed = @ \ {t}] \in StateRecord
        /\ [todo EXCEPT !.blocked = @ \ {t}] \in StateRecord
        /\ [todo EXCEPT !.inFlight = @ \ {t}] \in StateRecord
    BY DEF StateRecord
  <2>2. \A s \in Statuses : SetTaskStatus(t, s) => status' \in [Tasks -> Statuses]
    BY DEF SetTaskStatus, Shown, Statuses
  <2>3. status' \in [Tasks -> Statuses] /\ todo' \in StateRecord /\ mpc' \in {"recover", "error"}
    BY <1>2, <2>1, <2>2 DEF RecoverTask, Statuses
  <2> QED BY <1>2, <2>3 DEF RecoverTask, RecoverFrame
<1>3. CASE Recovered
  BY <1>3 DEF Recovered, EmptyRecord, StateRecord
<1>4. CASE Top
  BY <1>4 DEF Top, MoveTo
<1>5. ASSUME NEW t \in Tasks, Pick(t) PROVE TypeOK'
  BY <1>5 DEF Pick
<1>6. CASE MarkPicked
  BY <1>6 DEF MarkPicked, StateRecord
<1>7. ASSUME NEW w \in Workers, Send(w) PROVE TypeOK'
  <2> DEFINE x == [Idle EXCEPT !.pc = "gate", !.task = picked,
                               !.review = retries[picked].review,
                               !.completion = retries[picked].completion]
  <2>1. picked \in Tasks
    BY <1>7 DEF Send
  <2>2. x \in WorkerState
    BY <2>1, IdleType DEF WorkerOK, WorkerState, WorkerPCs
  <2>3. x.pc = "gate" /\ x.task = picked
    BY DEF Idle
  <2>4. WorkerOK(x)
    BY <2>1, <2>2, <2>3 DEF WorkerOK
  <2> QED BY <1>7, <2>4, WorkerUpdate DEF Send
<1>8. CASE FillEnds
  BY <1>8 DEF FillEnds, MoveTo
<1>9. CASE Receive
  BY SMTT(40), <1>9 DEF Receive
<1>10. CASE DispatcherFails
  BY <1>10, LoopAssumption DEF DispatcherFails
<1>11. CASE RequestStop
  BY <1>11 DEF RequestStop
<1> QED BY <1>1, <1>2, <1>3, <1>4, <1>5, <1>6, <1>7, <1>8, <1>9, <1>10, <1>11 DEF Dispatch

LEMMA EmptyTypes ==
  /\ EmptyRecord \in StateRecord
  /\ <<>> \in Seq([task : Tasks, outcome : {"completed", "blocked", "failed", "error"}])
  /\ 0 \in 0..MaxRestarts /\ 0 \in 0..MaxFaults
<1>1. EmptyRecord \in StateRecord
  BY DEF EmptyRecord, StateRecord
<1>2. 0 \in 0..MaxRestarts /\ 0 \in 0..MaxFaults
  BY LoopAssumption
<1> QED BY <1>1, <1>2

\* A new process.
LEMMA RestartType ==
  ASSUME TypeOK, Restart
  PROVE  TypeOK'
<1>1. wk' \in [Workers -> WorkerState] /\ \A w \in Workers : WorkerOK(wk'[w])
  BY IdleType DEF Restart, WorkerOK
<1>2. DurableOK'
  BY DEF Restart, TypeOK, DurableOK, durable
<1>3. DispatcherOK'
  <2>1. restarts' \in 0..MaxRestarts
    BY LoopAssumption DEF Restart, TypeOK, DispatcherOK
  <2> QED BY <2>1, EmptyTypes DEF Restart, TypeOK, DispatcherOK
<1> QED BY <1>1, <1>2, <1>3 DEF TypeOK

\* The variables keep their types.
THEOREM AgentLoopTypeCorrect == Spec => []TypeOK
<1>1. Init => TypeOK
  <2> SUFFICES ASSUME Init PROVE TypeOK
    OBVIOUS
  <2>1. wk \in [Workers -> WorkerState] /\ \A w \in Workers : WorkerOK(wk[w])
    BY IdleType DEF Init, WorkerOK
  <2>2. DurableOK
    BY DEF Init, DurableOK, EmptyRecord, StateRecord, Statuses, NoRetries
  <2>3. DispatcherOK
    BY EmptyTypes DEF Init, DispatcherOK
  <2> QED BY <2>1, <2>2, <2>3 DEF TypeOK
<1>2. TypeOK /\ [Next]_vars => TypeOK'
  <2> SUFFICES ASSUME TypeOK, [Next]_vars PROVE TypeOK'
    OBVIOUS
  <2>1. ASSUME NEW w \in Workers, RunTask(w) PROVE TypeOK'
    <3>1. WorkerOK(wk'[w]) /\ wk' = [wk EXCEPT ![w] = wk'[w]]
      BY <2>1, RunTaskWorker
    <3> QED BY <2>1, <3>1, WorkerUpdate, RunTaskDurable, RunTaskDispatcher DEF TypeOK
  <2>2. ASSUME NEW w \in Workers, CallFails(w) PROVE TypeOK'
    BY <2>2, CallFailsType
  <2>3. CASE UNCHANGED vars
    BY <2>3 DEF vars, durable, dispatcher, shared, bounds, TypeOK, DurableOK, DispatcherOK
  <2> QED BY <2>1, <2>2, <2>3, DispatchType, RestartType DEF Next
<1> QED BY <1>1, <1>2, PTL DEF Spec

-----------------------------------------------------------------------------
(* Exclusion.                                                               *)

\* A task handed to a worker is locked, and so is the one the dispatcher holds.
LockInv ==
  /\ TaskRunByOne
  /\ mpc \in {"picked", "send"} =>
       picked \in taskLock /\ \A w \in Workers : Busy(w) => T(w) # picked

\* Until it unlocks its task, a worker neither takes another one nor touches
\* a task lock, the dispatcher's choice or the state of another worker.
LEMMA WorkerHoldsTask ==
  ASSUME TypeOK, NEW w \in Workers, RunTask(w) \/ CallFails(w), ~Unlock(w)
  PROVE  /\ Busy(w) /\ wk'[w].pc # "idle" /\ wk'[w].task = wk[w].task
         /\ \A v \in Workers \ {w} : wk'[v] = wk[v]
         /\ UNCHANGED <<taskLock, mpc, picked>>
<1>1. wk \in [Workers -> WorkerState]
  BY DEF TypeOK
<1>2. ASSUME RunTask(w)
      PROVE  /\ Busy(w) /\ UNCHANGED <<taskLock, mpc, picked>>
             /\ \A v \in Workers \ {w} : wk'[v] = wk[v]
  <2>1. \A v \in Workers \ {w} : wk'[v] = wk[v]
    BY <1>1, <1>2, RunTaskWorker
  <2> USE DEF Busy, At, dispatcher, shared
  <2>2. CASE Gate(w) \/ Implement(w) \/ BeginAttempt(w)
          \/ Merge(w) \/ MergeFails(w) \/ Remediate(w) \/ PushFails(w)
          \/ FallBack(w)
    BY <2>1, <2>2 DEF Gate, Implement, BeginAttempt, Merge, MergeFails,
      Remediate, PushFails, FallBack, LocalFrame
  <2>3. CASE SetInProgress(w) \/ Close(w) \/ Block(w) \/ Fail(w) \/ Reopen(w)
          \/ QCGate(w) \/ NotRetried(w) \/ ReviewFailed(w) \/ CompletionFailed(w)
    BY <2>1, <2>3 DEF SetInProgress, Close, Block, Fail, Reopen, QCGate, NotRetried,
      ReviewFailed, CompletionFailed, TrackerFrame
  <2>4. CASE MarkTaskCompleted(w) \/ MarkTaskBlocked(w)
          \/ ClearTaskTerminalState(w) \/ ClearTaskInFlight(w)
    BY <2>1, <2>4 DEF MarkTaskCompleted, MarkTaskBlocked, ClearTaskTerminalState,
      ClearTaskInFlight, FileFrame
  <2>5. CASE Review(w) \/ LockLanding(w) \/ Push(w) \/ Return(w) \/ Report(w)
    BY <2>1, <2>5 DEF Review, LockLanding, Push, Return, Report
  <2> QED BY <1>2, <2>2, <2>3, <2>4, <2>5 DEF RunTask
<1>3. ASSUME RunTask(w)
      PROVE  wk'[w].pc # "idle" /\ wk'[w].task = wk[w].task
  <2> USE <1>1 DEF Go, T
  <2>1. CASE Gate(w)
    BY <2>1 DEF Gate, WorkerState
  <2>2. CASE SetInProgress(w)
    BY <2>2 DEF SetInProgress
  <2>3. CASE Implement(w)
    BY <2>3 DEF Implement, At
  <2>4. CASE Review(w)
    BY <2>4 DEF Review, WorkerState
  <2>5. CASE QCGate(w)
    BY <2>5 DEF QCGate, WorkerState
  <2>6. CASE MarkTaskCompleted(w)
    BY <2>6 DEF MarkTaskCompleted
  <2>7. CASE LockLanding(w)
    BY <2>7 DEF LockLanding
  <2>8. CASE BeginAttempt(w)
    BY <2>8 DEF BeginAttempt, WorkerState
  <2>9. CASE Merge(w)
    BY <2>9 DEF Merge
  <2>10. CASE MergeFails(w)
    BY <2>10 DEF MergeFails, WorkerState
  <2>11. CASE Remediate(w)
    BY <2>11 DEF Remediate, WorkerState
  <2>12. CASE Push(w)
    BY <2>12 DEF Push
  <2>13. CASE PushFails(w)
    BY <2>13 DEF PushFails
  <2>14. CASE Close(w)
    BY <2>14 DEF Close, WorkerState
  <2>15. CASE MarkTaskBlocked(w)
    BY <2>15 DEF MarkTaskBlocked
  <2>16. CASE Block(w)
    BY <2>16 DEF Block
  <2>17. CASE ClearTaskTerminalState(w)
    BY <2>17 DEF ClearTaskTerminalState
  <2>18. CASE Fail(w)
    BY <2>18 DEF Fail
  <2>19. CASE ClearTaskInFlight(w)
    BY <2>19 DEF ClearTaskInFlight
  <2>20. CASE NotRetried(w)
    BY <2>20 DEF NotRetried, WorkerState
  <2>21. CASE FallBack(w)
    BY <2>21 DEF FallBack
  <2>22. CASE ReviewFailed(w)
    BY <2>22 DEF ReviewFailed, WorkerState
  <2>23. CASE CompletionFailed(w)
    BY <2>23 DEF CompletionFailed, WorkerState
  <2>24. CASE Reopen(w)
    BY <2>24 DEF Reopen
  <2>25. CASE Return(w)
    BY <2>25 DEF Return, Returned, Idle
  <2>26. CASE Report(w)
    BY <2>26 DEF Report
  <2> QED BY <1>3, <2>1, <2>2, <2>3, <2>4, <2>5, <2>6, <2>7, <2>8, <2>9, <2>10, <2>11,
      <2>12, <2>13, <2>14, <2>15, <2>16, <2>17, <2>18, <2>19, <2>20, <2>21, <2>22,
      <2>23, <2>24, <2>25, <2>26 DEF RunTask
<1>4. CASE CallFails(w)
  BY <1>1, <1>4 DEF CallFails, Returned, Idle, Busy, T, At, dispatcher
<1> QED BY <1>2, <1>3, <1>4

\* The locks exclude, whatever the workers, crashes and failures.
LEMMA LocksExclude == Spec => []LockInv
<1> USE DEF LockInv, TaskRunByOne, Busy, T
<1>1. Init => LockInv
  BY DEF Init, Idle
<1>2. TypeOK /\ LockInv /\ [Next]_vars => LockInv'
  <2> SUFFICES ASSUME TypeOK, LockInv, [Next]_vars PROVE LockInv'
    OBVIOUS
  <2>1. ASSUME NEW w \in Workers, RunTask(w) \/ CallFails(w), ~Unlock(w) PROVE LockInv'
    BY <2>1, WorkerHoldsTask
  <2>2. ASSUME NEW w \in Workers, Unlock(w) PROVE LockInv'
    BY <2>2 DEF Unlock, At, Idle, TypeOK, dispatcher
  <2>3. ASSUME NEW t \in Tasks, Pick(t) PROVE LockInv'
    BY <2>3 DEF Pick, Eligible
  <2>4. ASSUME NEW w \in Workers, Send(w) PROVE LockInv'
    BY <2>4 DEF Send, shared, Idle, TypeOK
  <2>5. CASE Load \/ Recovered \/ Top \/ MarkPicked \/ FillEnds \/ Receive
    BY <2>5 DEF Load, Recovered, Top, MarkPicked, FillEnds, Receive, MoveTo, shared
  <2>6. ASSUME NEW t \in Tasks, RecoverTask(t) PROVE LockInv'
    BY <2>6 DEF RecoverTask, RecoverFrame, shared
  <2>7. CASE DispatcherFails \/ RequestStop
    BY <2>7 DEF DispatcherFails, RequestStop, shared
  <2>8. CASE Restart
    BY <2>8 DEF Restart, Idle
  <2>9. CASE UNCHANGED vars
    BY <2>9 DEF vars, dispatcher, shared
  <2> QED BY <2>1, <2>2, <2>3, <2>4, <2>5, <2>6, <2>7, <2>8, <2>9 DEF Next, Dispatch
<1> QED BY <1>1, <1>2, AgentLoopTypeCorrect, PTL DEF Spec

\* No task runs twice.
THEOREM TaskExclusion == Spec => []TaskRunByOne
<1>1. LockInv => TaskRunByOne
  BY DEF LockInv
<1> QED BY <1>1, LocksExclude, PTL

-----------------------------------------------------------------------------
(* Landing.                                                                 *)

\* From the lock to the push, a worker holds the landing lock; and while it
\* does, the remote stays as its merge found it.
Landing(w) == wk[w].pc \in {"attempt", "merge", "remediate", "push"}

LandingInv ==
  /\ \A w \in Workers : Landing(w) => landingLock = w
  /\ PushBuildsOnRemote

\* What the actions of a worker do to the landing: only Merge goes to the
\* push, only LockLanding and the end of the task move the lock, and only
\* Push moves the remote.
LEMMA WorkerLanding ==
  ASSUME TypeOK, NEW w \in Workers, RunTask(w) \/ CallFails(w),
         ~LockLanding(w), ~Merge(w), ~Push(w)
  PROVE  /\ wk'[w].pc # "push" /\ UNCHANGED remote
         /\ \A v \in Workers \ {w} : wk'[v] = wk[v]
         /\ wk'[w].pc \in {"attempt", "merge", "remediate"} => Landing(w)
         /\ \/ UNCHANGED landingLock
            \/ landingLock = w /\ landingLock' = None /\ ~Landing(w)
<1>1. wk \in [Workers -> WorkerState]
  BY DEF TypeOK
<1>2. ASSUME RunTask(w) PROVE \A v \in Workers \ {w} : wk'[v] = wk[v]
  BY <1>1, <1>2, RunTaskWorker
<1> USE <1>1 DEF Landing, Go, At, T, durable, shared
<1>3. CASE Gate(w)
  BY <1>2, <1>3 DEF RunTask, Gate, WorkerState, LocalFrame
<1>4. CASE SetInProgress(w)
  BY <1>2, <1>4 DEF RunTask, SetInProgress, WorkerState, TrackerFrame
<1>5. CASE Implement(w)
  BY <1>2, <1>5 DEF RunTask, Implement, WorkerState, LocalFrame
<1>6. CASE Review(w)
  BY <1>2, <1>6 DEF RunTask, Review, WorkerState
<1>7. CASE QCGate(w)
  BY <1>2, <1>7 DEF RunTask, QCGate, WorkerState, TrackerFrame
<1>8. CASE MarkTaskCompleted(w)
  BY <1>2, <1>8 DEF RunTask, MarkTaskCompleted, WorkerState, FileFrame
<1>9. CASE BeginAttempt(w)
  BY <1>2, <1>9 DEF RunTask, BeginAttempt, WorkerState, LocalFrame
<1>10. CASE MergeFails(w)
  BY <1>2, <1>10 DEF RunTask, MergeFails, WorkerState, LocalFrame
<1>11. CASE Remediate(w)
  BY <1>2, <1>11 DEF RunTask, Remediate, WorkerState, LocalFrame
<1>12. CASE PushFails(w)
  BY <1>2, <1>12 DEF RunTask, PushFails, WorkerState, LocalFrame
<1>13. CASE Close(w)
  BY <1>2, <1>13 DEF RunTask, Close, WorkerState, TrackerFrame
<1>14. CASE MarkTaskBlocked(w)
  BY <1>2, <1>14 DEF RunTask, MarkTaskBlocked, WorkerState, FileFrame
<1>15. CASE Block(w)
  BY <1>2, <1>15 DEF RunTask, Block, WorkerState, TrackerFrame
<1>16. CASE ClearTaskTerminalState(w)
  BY <1>2, <1>16 DEF RunTask, ClearTaskTerminalState, WorkerState, FileFrame
<1>17. CASE Fail(w)
  BY <1>2, <1>17 DEF RunTask, Fail, WorkerState, TrackerFrame
<1>18. CASE ClearTaskInFlight(w)
  BY <1>2, <1>18 DEF RunTask, ClearTaskInFlight, WorkerState, FileFrame
<1>19. CASE NotRetried(w)
  BY <1>2, <1>19 DEF RunTask, NotRetried, WorkerState, TrackerFrame
<1>20. CASE FallBack(w)
  BY <1>2, <1>20 DEF RunTask, FallBack, WorkerState, LocalFrame
<1>21. CASE ReviewFailed(w)
  BY <1>2, <1>21 DEF RunTask, ReviewFailed, WorkerState, TrackerFrame
<1>22. CASE CompletionFailed(w)
  BY <1>2, <1>22 DEF RunTask, CompletionFailed, WorkerState, TrackerFrame
<1>23. CASE Reopen(w)
  BY <1>2, <1>23 DEF RunTask, Reopen, WorkerState, TrackerFrame
<1>24. CASE Return(w)
  BY <1>2, <1>24 DEF RunTask, Return, WorkerState, Returned, Idle
<1>25. CASE Report(w)
  BY <1>2, <1>25 DEF RunTask, Report, WorkerState
<1>26. CASE Unlock(w)
  BY <1>2, <1>26 DEF RunTask, Unlock, WorkerState, Idle
<1>27. CASE CallFails(w)
  BY <1>27 DEF CallFails, Returned, Idle, WorkerState
<1> QED BY <1>3, <1>4, <1>5, <1>6, <1>7, <1>8, <1>9, <1>10, <1>11, <1>12, <1>13, <1>14,
      <1>15, <1>16, <1>17, <1>18, <1>19, <1>20, <1>21, <1>22, <1>23, <1>24, <1>25,
      <1>26, <1>27 DEF RunTask

\* A worker that lands holds the landing lock, and the remote waits for it.
LEMMA LandingHeld == Spec => []LandingInv
<1> USE DEF LandingInv, PushBuildsOnRemote, Landing, At
<1>1. Init => LandingInv
  BY DEF Init, Idle
<1>2. TypeOK /\ LandingInv /\ [Next]_vars => LandingInv'
  <2> SUFFICES ASSUME TypeOK, LandingInv, [Next]_vars PROVE LandingInv'
    OBVIOUS
  <2>1. None \notin Workers
    BY LoopAssumption
  <2>2. wk \in [Workers -> WorkerState]
    BY DEF TypeOK
  <2>3. ASSUME NEW w \in Workers, RunTask(w) \/ CallFails(w),
               ~LockLanding(w), ~Merge(w), ~Push(w)
        PROVE  LandingInv'
    BY <2>1, <2>3, WorkerLanding
  <2>4. ASSUME NEW w \in Workers, LockLanding(w) PROVE LandingInv'
    BY <2>1, <2>2, <2>4 DEF LockLanding, Go, durable
  <2>5. ASSUME NEW w \in Workers, Merge(w) PROVE LandingInv'
    BY <2>2, <2>5 DEF Merge, LocalFrame, durable, shared, WorkerState
  <2>6. ASSUME NEW w \in Workers, Push(w) PROVE LandingInv'
    BY <2>2, <2>6 DEF Push, shared, WorkerState
  <2>7. CASE Dispatch \/ DispatcherFails \/ RequestStop
    <3>1. UNCHANGED <<remote, landingLock>>
      BY <2>7 DEF Dispatch, Load, RecoverTask, RecoverFrame, Recovered, Top, Pick,
      MarkPicked, Send,
                  FillEnds, Receive, MoveTo, DispatcherFails, RequestStop, durable, shared
    <3>2. \A w \in Workers : wk'[w] = wk[w] \/ wk'[w].pc = "gate"
      BY ZenonT(40), <2>2, <2>7 DEF Dispatch, Load, RecoverTask, RecoverFrame, Recovered, Top,
      Pick, MarkPicked, Send,
                  FillEnds, Receive, MoveTo, DispatcherFails, RequestStop, Idle
    <3> QED BY <3>1, <3>2
  <2>8. CASE Restart
    BY <2>8 DEF Restart, Idle
  <2>9. CASE UNCHANGED vars
    BY <2>9 DEF vars, durable, shared
  <2> QED BY <2>3, <2>4, <2>5, <2>6, <2>7, <2>8, <2>9 DEF Next
<1> QED BY <1>1, <1>2, AgentLoopTypeCorrect, PTL DEF Spec

\* Landing is serialized: a push builds on the remote main branch as it is.
THEOREM LandingSerialized == Spec => []PushBuildsOnRemote
<1>1. LandingInv => PushBuildsOnRemote
  BY DEF LandingInv
<1> QED BY <1>1, LandingHeld, PTL

-----------------------------------------------------------------------------
(***************************************************************************)
(* What the agent loop does with a task: its status in the tracker, its     *)
(* place in the state file and its landing.  The properties of a task are   *)
(* proved together, from one inductive invariant, because each is kept by   *)
(* the others: recovery sets the status the file asks for, the file is      *)
(* written at the step the worker has reached, and a worker has reached it  *)
(* only for a task whose status allowed it to be picked.                    *)
(***************************************************************************)

-----------------------------------------------------------------------------
(* The tasks in flight.                                                     *)

\* The steps of a worker whose result is still to come.
Running(w) == wk[w].pc \notin {"idle", "unlock"}

\* Each task in flight has one source of its result: the dispatcher about to
\* send it, a worker, or one entry of the results.
InFlightInv ==
  /\ IsFiniteSet(inFlight)
  /\ \A i \in 1..Len(results) : results[i].task \in inFlight
  /\ \A i, j \in 1..Len(results) : results[i].task = results[j].task => i = j
  /\ \A w \in Workers : Running(w) =>
       T(w) \in inFlight /\ \A i \in 1..Len(results) : results[i].task # T(w)
  /\ mpc = "picked" => picked \notin inFlight /\ HasRoom
  /\ mpc = "send" => picked \in inFlight /\ \A i \in 1..Len(results) : results[i].task # picked
  /\ mpc \in {"load", "recover"} => \A w \in Workers : ~Busy(w)
  /\ mpc = "stopped" => inFlight = {}
  /\ TaskBudget

\* What a worker leaves alone while its result is still to come.
LEMMA WorkerKeepsQueue ==
  ASSUME TypeOK, NEW w \in Workers, RunTask(w) \/ CallFails(w), ~Unlock(w), ~Report(w)
  PROVE  Running(w) /\ wk'[w].pc \notin {"idle", "unlock"} /\ UNCHANGED <<dispatcher, results>>
<1> USE DEF Running, At, Go, T, shared, TypeOK
<1>1. CASE Gate(w) \/ Implement(w) \/ BeginAttempt(w)
          \/ Merge(w) \/ MergeFails(w) \/ Remediate(w) \/ PushFails(w)
          \/ FallBack(w)
  BY SMTT(40), <1>1 DEF Gate, Implement, BeginAttempt, Merge, MergeFails, Remediate,
      PushFails, FallBack, LocalFrame, WorkerState
<1>2. CASE SetInProgress(w) \/ Close(w) \/ Block(w) \/ Fail(w) \/ Reopen(w)
          \/ QCGate(w) \/ NotRetried(w) \/ ReviewFailed(w) \/ CompletionFailed(w)
  BY SMTT(40), <1>2 DEF SetInProgress, Close, Block, Fail, Reopen, QCGate, NotRetried,
      ReviewFailed, CompletionFailed, TrackerFrame, WorkerState
<1>3. CASE MarkTaskCompleted(w) \/ MarkTaskBlocked(w)
          \/ ClearTaskTerminalState(w) \/ ClearTaskInFlight(w)
  BY <1>3 DEF MarkTaskCompleted, MarkTaskBlocked, ClearTaskTerminalState,
      ClearTaskInFlight, FileFrame, WorkerState
<1>4. CASE Review(w) \/ Push(w)
  BY <1>4 DEF Review, Push, WorkerState
<1>5. CASE LockLanding(w) \/ Return(w)
  <2>1. CASE LockLanding(w)
    BY <2>1 DEF LockLanding, WorkerState
  <2>2. CASE Return(w)
    BY <2>2 DEF Return, Returned, Idle, WorkerState
  <2> QED BY <1>5, <2>1, <2>2
<1>6. CASE CallFails(w)
  BY <1>6 DEF CallFails, Returned, Idle, WorkerState
<1> QED BY <1>1, <1>2, <1>3, <1>4, <1>5, <1>6 DEF RunTask

\* What the dispatcher's bookkeeping says of the tasks in flight is so.
LEMMA InFlightCounted == Spec => []InFlightInv
<1> USE DEF InFlightInv, Running, Busy, T, HasRoom, BudgetUsed, TaskBudget
<1>1. Init => InFlightInv
  BY FS_EmptySet, LoopAssumption DEF Init, Idle, LoopAssumption
<1>2. TypeOK /\ LockInv /\ InFlightInv /\ [Next]_vars => InFlightInv'
  <2> SUFFICES ASSUME TypeOK, LockInv, InFlightInv, [Next]_vars PROVE InFlightInv'
    OBVIOUS
  <2>1. /\ wk \in [Workers -> WorkerState] /\ inFlight \subseteq Tasks /\ processed \in Nat
        /\ results \in Seq([task : Tasks, outcome : {"completed", "blocked", "failed", "error"}])
        /\ MaxTasks \in Nat /\ Cardinality(inFlight) \in Nat
    BY LoopAssumption, FS_CardinalityType DEF TypeOK, DispatcherOK
  <2>2. TaskRunByOne
    BY DEF LockInv
  <2>3. ASSUME NEW w \in Workers, RunTask(w) \/ CallFails(w), ~Unlock(w), ~Report(w)
        PROVE  InFlightInv'
    <3>1. /\ Running(w) /\ wk'[w].pc \notin {"idle", "unlock"} /\ UNCHANGED <<dispatcher, results>>
          /\ wk'[w].task = wk[w].task /\ \A v \in Workers \ {w} : wk'[v] = wk[v]
      BY <2>3, WorkerKeepsQueue, WorkerHoldsTask
    <3> QED BY <3>1 DEF dispatcher
  <2>4. ASSUME NEW w \in Workers, Report(w) PROVE InFlightInv'
    <3> DEFINE r == [task |-> T(w), outcome |-> wk[w].outcome]
    <3>1. /\ Len(results') = Len(results) + 1 /\ results'[Len(results) + 1] = r
          /\ \A i \in 1..Len(results) : results'[i] = results[i]
      BY <2>1, <2>4 DEF Report
    <3>2. /\ wk[w].pc = "report" /\ wk'[w] = [wk[w] EXCEPT !.pc = "unlock"]
          /\ \A v \in Workers \ {w} : wk'[v] = wk[v]
      BY <2>1, <2>4 DEF Report, At, Go
    <3>3. T(w) \in inFlight /\ \A i \in 1..Len(results) : results[i].task # T(w)
      BY <3>2
    <3>4. \A v \in Workers \ {w} : Running(v) => T(v) # T(w)
      BY <2>2, <3>2 DEF TaskRunByOne
    <3>5. UNCHANGED <<inFlight, processed, mpc, picked>>
      BY <2>4 DEF Report, dispatcher
    <3>6. mpc = "send" => picked # T(w)
      BY <3>2 DEF LockInv
    <3>7. Running(w) /\ wk'[w].pc = "unlock"
      BY <2>1, <3>2 DEF WorkerState
    <3>8. \A i \in 1..Len(results') : results'[i].task \in inFlight'
      BY <2>1, <3>1, <3>3, <3>5
    <3>9. \A i, j \in 1..Len(results') : results'[i].task = results'[j].task => i = j
      BY <2>1, <3>1, <3>3
    <3>10. \A v \in Workers : Running(v)' =>
             T(v)' \in inFlight' /\ \A i \in 1..Len(results') : results'[i].task # T(v)'
      <4> SUFFICES ASSUME NEW v \in Workers, Running(v)'
                   PROVE  T(v)' \in inFlight' /\ \A i \in 1..Len(results') : results'[i].task # T(v)'
        OBVIOUS
      <4>1. v # w /\ wk'[v] = wk[v]
        BY <3>2, <3>7
      <4>2. /\ T(v)' = T(v) /\ T(v) \in inFlight /\ T(v) # T(w)
            /\ \A i \in 1..Len(results) : results[i].task # T(v)
        BY <3>4, <4>1
      <4> QED BY SMTT(30), <2>1, <3>1, <3>5, <4>2
    <3> QED BY <2>1, <3>1, <3>2, <3>5, <3>6, <3>7, <3>8, <3>9, <3>10
  <2>5. ASSUME NEW w \in Workers, Unlock(w) PROVE InFlightInv'
    BY <2>1, <2>5 DEF Unlock, At, Idle, dispatcher
  <2>6. ASSUME NEW t \in Tasks, Pick(t) PROVE InFlightInv'
    BY <2>6 DEF Pick, Eligible
  <2>7. CASE MarkPicked
    <3>1. /\ IsFiniteSet(inFlight \cup {picked})
          /\ Cardinality(inFlight \cup {picked}) = Cardinality(inFlight) + 1
      BY <2>7, FS_AddElement DEF MarkPicked
    <3>2. /\ UNCHANGED <<picked, processed, results, wk>>
          /\ inFlight' = inFlight \cup {picked} /\ mpc' = "send" /\ mpc = "picked"
      BY <2>7 DEF MarkPicked, shared
    <3>3. MaxTasks > 0 => processed + Cardinality(inFlight) + 1 <= MaxTasks
      BY <2>1, <3>2
    <3> QED BY <2>1, <3>1, <3>2, <3>3
  <2>8. ASSUME NEW w \in Workers, Send(w) PROVE InFlightInv'
    BY <2>1, <2>8 DEF Send, shared, Idle
  <2>9. CASE Receive
    <3> DEFINE r == Head(results)
    <3>1. /\ results # <<>> /\ results' = Tail(results) /\ inFlight' = inFlight \ {r.task}
          /\ UNCHANGED wk /\ mpc' \in {"error", "top"}
          /\ processed' \in {processed, processed + 0, processed + 1}
      BY <2>9 DEF Receive
    <3>2. /\ Len(results) \in Nat \ {0} /\ r = results[1] /\ Len(results') = Len(results) - 1
          /\ \A i \in 1..Len(results') : results'[i] = results[i + 1]
      BY <2>1, <3>1
    <3>3. r.task \in inFlight
      BY <3>2
    <3>4. /\ IsFiniteSet(inFlight') /\ Cardinality(inFlight') = Cardinality(inFlight) - 1
      BY <3>1, <3>3, FS_RemoveElement
    <3>5. \A w \in Workers : Running(w) => T(w) # r.task
      BY <3>2
    <3>6. \A i \in 1..Len(results') : results'[i].task \in inFlight'
      <4> SUFFICES ASSUME NEW i \in 1..Len(results') PROVE results'[i].task \in inFlight'
        OBVIOUS
      <4>1. i + 1 \in 1..Len(results) /\ 1 \in 1..Len(results) /\ i + 1 # 1
        BY <3>2
      <4>2. results[i + 1].task \in inFlight /\ results[i + 1].task # results[1].task
        BY <4>1
      <4> QED BY <3>1, <3>2, <4>2
    <3>7. \A i, j \in 1..Len(results') : results'[i].task = results'[j].task => i = j
      <4> SUFFICES ASSUME NEW i \in 1..Len(results'), NEW j \in 1..Len(results'),
                          results'[i].task = results'[j].task
                   PROVE  i = j
        OBVIOUS
      <4>1. i + 1 \in 1..Len(results) /\ j + 1 \in 1..Len(results)
        BY <3>2
      <4>2. i + 1 = j + 1
        BY <3>2, <4>1
      <4> QED BY <3>2, <4>2
    <3>8. \A w \in Workers : Running(w)' =>
            T(w)' \in inFlight' /\ \A i \in 1..Len(results') : results'[i].task # T(w)'
      <4> SUFFICES ASSUME NEW w \in Workers, Running(w)'
                   PROVE  T(w)' \in inFlight' /\ \A i \in 1..Len(results') : results'[i].task # T(w)'
        OBVIOUS
      <4>1. Running(w) /\ T(w)' = T(w)
        BY <3>1
      <4>2. \A i \in 1..Len(results') : i + 1 \in 1..Len(results)
        BY <3>2
      <4> QED BY <3>1, <3>2, <3>5, <4>1, <4>2
    <3>9. TaskBudget'
      BY <2>1, <3>1, <3>4
    <3> QED BY <3>1, <3>4, <3>6, <3>7, <3>8, <3>9
  <2>10. CASE Load \/ Recovered \/ (\E t \in Tasks : RecoverTask(t))
    BY <2>10 DEF Load, Recovered, RecoverTask, RecoverFrame, shared
  <2>11. CASE Top \/ FillEnds
    BY <2>11 DEF Top, FillEnds, MoveTo, shared
  <2>12. CASE DispatcherFails \/ RequestStop
    BY <2>12 DEF DispatcherFails, RequestStop, shared
  <2>13. CASE Restart
    BY <2>13, FS_EmptySet, LoopAssumption DEF Restart, Idle
  <2>14. CASE UNCHANGED vars
    BY <2>14 DEF vars, dispatcher, shared
  <2> QED BY <2>3, <2>4, <2>5, <2>6, <2>7, <2>8, <2>9, <2>10, <2>11, <2>12, <2>13, <2>14
      DEF Next, Dispatch
<1> QED BY <1>1, <1>2, AgentLoopTypeCorrect, LocksExclude, PTL DEF Spec

\* MaxTasks bounds the tasks a run takes on, for any number of workers,
\* failures and restarts: a task counts from the moment it is recorded until
\* its result is, once.
THEOREM BudgetKept == Spec => []TaskBudget
<1>1. InFlightInv => TaskBudget
  BY DEF InFlightInv
<1> QED BY <1>1, InFlightCounted, PTL

-----------------------------------------------------------------------------
(* The invariant of a task in the tracker, the file and the repository.     *)

\* What holds of a task whoever has it.
TaskInv(t) ==
  /\ t \in file.inFlight => t \notin file.completed /\ t \notin file.blocked
                             /\ status[t] \in {"open", "in_progress", "failed"}
  /\ t \in file.completed => t \notin file.blocked /\ status[t] \in {"in_progress", "closed"}
  /\ t \in file.blocked => status[t] \in {"open", "in_progress", "blocked"}
  /\ status[t] = "in_progress" => t \in Recorded
  /\ tracker = "tk" => status[t] \notin {"blocked", "failed"}
  /\ t \in remote => \/ status[t] = "closed"
                     \/ status[t] = "in_progress" /\ t \in file.completed
  /\ RequireReview /\ (status[t] = "closed" \/ t \in file.completed) => t \in approved

\* The steps before the file says completed, and those of the landing.
Early == {"gate", "in_progress", "implement", "review", "verdict", "qc", "mark_completed",
          "decide", "reopen", "fail"}
Late  == {"await_landing", "attempt", "merge", "remediate", "push", "close"}

\* Where the step a worker x is at puts its task in the file and the tracker.
PlaceInv(x) ==
  /\ x.pc \in Early \cup {"clear_in_flight"} => x.task \in file.inFlight
  /\ x.pc \in Late => x.task \in file.completed
  /\ x.pc = "mark_blocked" => x.task \in file.inFlight \cup file.completed
  /\ x.pc = "block" => x.task \in file.blocked
  /\ x.pc \in {"return", "report"} /\ x.outcome # "error" => x.task \notin Recorded
  /\ x.pc = "gate" => status[x.task] = "open"
  /\ x.pc \in {"in_progress", "mark_blocked", "block"} => status[x.task] \in {"open", "in_progress"}
  /\ x.pc \in (Early \cup Late) \ {"gate", "in_progress"} => status[x.task] = "in_progress"
  /\ x.pc \in {"clear", "clear_in_flight"} => status[x.task] # "in_progress"
  /\ x.pc \in {"await_landing", "attempt", "merge", "remediate", "push", "mark_blocked"} =>
       x.task \notin remote
  /\ RequireReview /\ x.pc \in {"qc", "mark_completed"} => x.task \in approved

\* What the landing of a worker x has come to at each step.
MachineInv(x) ==
  /\ x.pc \in Early \cup {"await_landing", "attempt"} => x.machine.state = "queued"
  /\ x.pc \in {"merge", "push"} => x.machine.state = "landing"
  /\ x.pc = "remediate" => x.machine.state = "retrying" /\ x.attempt = 1
  /\ x.pc \in Early \cup {"await_landing"} => x.attempt = 1
  /\ x.pc \in Early \cup {"await_landing", "attempt", "merge", "push", "remediate"} =>
       /\ x.attempt \in {1, 2} /\ x.machine.maxAttempts = 2
       /\ x.machine.attempts = IF x.pc = "remediate" THEN 1 ELSE x.attempt - 1
  /\ RequireReview /\ x.attempt = 1
       /\ x.pc \in {"qc", "mark_completed", "await_landing", "attempt", "merge", "push"} => x.reviewed

\* The dispatcher: what it recovers, what it picked and what it forgets.
RecoveryInv ==
  /\ mpc = "recover" =>
       /\ todo.inFlight \subseteq file.inFlight /\ todo.completed \subseteq file.completed
       /\ todo.blocked \subseteq file.blocked
       /\ \A t \in Tasks : status[t] = "in_progress" =>
            t \in todo.inFlight \cup todo.completed \cup todo.blocked
  /\ mpc \notin {"load", "recover", "error"} => Recorded \subseteq inFlight
  /\ mpc \in {"picked", "send"} => status[picked] = "open" /\ DependenciesClosed(picked)
  /\ mpc = "send" => picked \in file.inFlight
  /\ \A i \in 1..Len(results) : results[i].outcome # "error" => results[i].task \notin Recorded
  /\ mpc = "stopped" /\ ~stop /\ ~BudgetUsed(processed) => IsComplete

LoopInv ==
  /\ \A t \in Tasks : TaskInv(t)
  /\ \A w \in Workers : PlaceInv(wk[w]) /\ MachineInv(wk[w])
  /\ DependenciesHold
  /\ RecoveryInv

\* The first failure of a landing is retried.
LEMMA FailedLandingIsRetried ==
  ASSUME NEW m \in LandingMachine, m.state = "landing", m.attempts = 0, m.maxAttempts = 2
  PROVE  LET failed == Apply(m, "failed_retryable")
             again  == Apply(failed, "requeued") IN
         /\ failed.state = "retrying" /\ failed.attempts = 1 /\ failed.maxAttempts = 2
         /\ again.state = "queued" /\ again.attempts = 1 /\ again.maxAttempts = 2
<1>1. m = [state |-> "landing", attempts |-> 0, maxAttempts |-> 2]
  BY DEF LandingMachine
<1>2. Apply(m, "failed_retryable") = [m EXCEPT !.attempts = 1, !.state = "retrying"]
  BY <1>1 DEF Apply
<1>3. Apply(m, "failed_retryable") = [state |-> "retrying", attempts |-> 1, maxAttempts |-> 2]
  BY <1>1, <1>2
<1>4. Apply([state |-> "retrying", attempts |-> 1, maxAttempts |-> 2], "requeued")
        = [state |-> "queued", attempts |-> 1, maxAttempts |-> 2]
  BY DEF Apply, PlainTransition
<1> QED BY <1>3, <1>4

\* The landing state machine keeps in step with its worker.
LEMMA WorkerMachine ==
  ASSUME TypeOK, NEW w \in Workers, RunTask(w) \/ CallFails(w), MachineInv(wk[w])
  PROVE  MachineInv(wk[w])'
<1> USE DEF TypeOK, WorkerState, LandingMachine, MachineInv, Early, At, Go, Moved, Apply, PlainTransition
<1>1. CASE Gate(w)
  BY SMTT(30), <1>1 DEF Gate
<1>2. CASE Implement(w)
  BY SMTT(30), <1>2 DEF Implement
<1>3. CASE QCGate(w)
  BY SMTT(30), <1>3 DEF QCGate
<1>4. CASE BeginAttempt(w)
  BY SMTT(30), <1>4 DEF BeginAttempt
<1>5. CASE Merge(w)
  BY SMTT(30), <1>5 DEF Merge
<1>6. CASE MergeFails(w)
  <2> DEFINE m == wk[w].machine
  <2> HIDE DEF Apply, PlainTransition
  <2>1. /\ wk[w].pc = "merge" /\ m \in LandingMachine
        /\ m.state = "landing" /\ m.maxAttempts = 2 /\ m.attempts = wk[w].attempt - 1
        /\ wk[w].attempt \in {1, 2}
    BY <1>6 DEF MergeFails
  <2>2. CASE wk[w].attempt < 2
    <3>1. m.attempts = 0 /\ wk[w].attempt = 1
      BY <2>1, <2>2
    <3> QED BY <1>6, <2>1, <3>1, FailedLandingIsRetried DEF MergeFails
  <2>3. CASE wk[w].attempt = 2
    BY <1>6, <2>1, <2>3 DEF MergeFails, Apply
  <2> QED BY <2>1, <2>2, <2>3
<1>7. CASE Remediate(w)
  BY SMTT(30), <1>7 DEF Remediate
<1>8. CASE PushFails(w)
  BY SMTT(30), <1>8 DEF PushFails
<1>9. CASE NotRetried(w)
  BY SMTT(30), <1>9 DEF NotRetried
<1>10. CASE FallBack(w)
  BY SMTT(30), <1>10 DEF FallBack
<1>11. CASE SetInProgress(w)
  BY SMTT(30), <1>11 DEF SetInProgress
<1>12. CASE Close(w)
  BY SMTT(30), <1>12 DEF Close
<1>13. CASE Block(w)
  BY SMTT(30), <1>13 DEF Block
<1>14. CASE Fail(w)
  BY SMTT(30), <1>14 DEF Fail
<1>15. CASE Reopen(w)
  BY SMTT(30), <1>15 DEF Reopen
<1>16. CASE MarkTaskCompleted(w)
  BY SMTT(30), <1>16 DEF MarkTaskCompleted
<1>17. CASE MarkTaskBlocked(w)
  BY SMTT(30), <1>17 DEF MarkTaskBlocked
<1>18. CASE ClearTaskTerminalState(w)
  BY SMTT(30), <1>18 DEF ClearTaskTerminalState
<1>19. CASE ClearTaskInFlight(w)
  BY SMTT(30), <1>19 DEF ClearTaskInFlight
<1>20. CASE ReviewFailed(w)
  BY SMTT(30), <1>20 DEF ReviewFailed, TrackerFrame
<1>21. CASE CompletionFailed(w)
  BY SMTT(30), <1>21 DEF CompletionFailed, TrackerFrame
<1>22. CASE Review(w)
  BY SMTT(30), <1>22 DEF Review
<1>23. CASE Push(w)
  BY SMTT(30), <1>23 DEF Push
<1>24. CASE LockLanding(w)
  BY SMTT(30), <1>24 DEF LockLanding
<1>25. CASE Report(w)
  BY SMTT(30), <1>25 DEF Report
<1>26. CASE Return(w)
  BY SMTT(30), <1>26 DEF Return, Returned, Idle, NewLandingQueueStateMachine
<1>27. CASE Unlock(w)
  BY SMTT(30), <1>27 DEF Unlock, Idle, NewLandingQueueStateMachine
<1>28. CASE CallFails(w)
  BY SMTT(30), <1>28 DEF CallFails, Returned, Idle, NewLandingQueueStateMachine
<1> QED BY <1>1, <1>2, <1>3, <1>4, <1>5, <1>6, <1>7, <1>8, <1>9, <1>10, <1>11, <1>12, <1>13,
      <1>14, <1>15, <1>16, <1>17, <1>18, <1>19, <1>20, <1>21, <1>22, <1>23, <1>24, <1>25,
      <1>26, <1>27, <1>28 DEF RunTask

\* A worker writes only what is its task's, in the tracker, the file, the
\* repository and the history.
LEMMA WorkerKeepsToItsTask ==
  ASSUME TypeOK, NEW w \in Workers, RunTask(w) \/ CallFails(w), NEW t \in Tasks, t # T(w)
  PROVE  /\ tracker' = tracker /\ status'[t] = status[t]
         /\ t \in file'.inFlight <=> t \in file.inFlight
         /\ t \in file'.completed <=> t \in file.completed
         /\ t \in file'.blocked <=> t \in file.blocked
         /\ t \in remote' <=> t \in remote
         /\ t \in approved' <=> t \in approved
<1> USE DEF TypeOK, DurableOK, StateRecord, T, durable
<1>1. CASE Gate(w)
  BY SMTT(30), <1>1 DEF Gate, LocalFrame
<1>2. CASE Implement(w)
  BY SMTT(30), <1>2 DEF Implement, LocalFrame
<1>3. CASE QCGate(w)
  BY SMTT(30), <1>3 DEF QCGate, TrackerFrame
<1>4. CASE BeginAttempt(w)
  BY SMTT(30), <1>4 DEF BeginAttempt, LocalFrame
<1>5. CASE Merge(w)
  BY SMTT(30), <1>5 DEF Merge, LocalFrame
<1>6. CASE MergeFails(w)
  BY SMTT(30), <1>6 DEF MergeFails, LocalFrame
<1>7. CASE Remediate(w)
  BY SMTT(30), <1>7 DEF Remediate, LocalFrame
<1>8. CASE PushFails(w)
  BY SMTT(30), <1>8 DEF PushFails, LocalFrame
<1>9. CASE NotRetried(w)
  BY SMTT(30), <1>9 DEF NotRetried, TrackerFrame
<1>10. CASE FallBack(w)
  BY SMTT(30), <1>10 DEF FallBack, LocalFrame
<1>11. CASE SetInProgress(w)
  BY SMTT(30), <1>11 DEF SetInProgress, TrackerFrame, SetTaskStatus, Shown
<1>12. CASE Close(w)
  BY SMTT(30), <1>12 DEF Close, TrackerFrame, SetTaskStatus, Shown
<1>13. CASE Block(w)
  BY SMTT(30), <1>13 DEF Block, TrackerFrame, SetTaskStatus, Shown
<1>14. CASE Fail(w)
  BY SMTT(30), <1>14 DEF Fail, TrackerFrame, SetTaskStatus, Shown
<1>15. CASE Reopen(w)
  BY SMTT(30), <1>15 DEF Reopen, TrackerFrame, SetTaskStatus, Shown
<1>16. CASE MarkTaskCompleted(w)
  BY SMTT(30), <1>16 DEF MarkTaskCompleted, FileFrame
<1>17. CASE MarkTaskBlocked(w)
  BY SMTT(30), <1>17 DEF MarkTaskBlocked, FileFrame
<1>18. CASE ClearTaskTerminalState(w)
  BY SMTT(30), <1>18 DEF ClearTaskTerminalState, FileFrame
<1>19. CASE ClearTaskInFlight(w)
  BY SMTT(30), <1>19 DEF ClearTaskInFlight, FileFrame
<1>20. CASE ReviewFailed(w)
  BY SMTT(30), <1>20 DEF ReviewFailed, TrackerFrame
<1>21. CASE CompletionFailed(w)
  BY SMTT(30), <1>21 DEF CompletionFailed, TrackerFrame
<1>22. CASE Push(w)
  BY SMTT(30), <1>22 DEF Push
<1>23. CASE Review(w)
  BY SMTT(30), <1>23 DEF Review
<1>24. CASE LockLanding(w)
  BY SMTT(30), <1>24 DEF LockLanding
<1>25. CASE Report(w)
  BY SMTT(30), <1>25 DEF Report
<1>26. CASE Return(w)
  BY SMTT(30), <1>26 DEF Return, Returned, Idle
<1>27. CASE Unlock(w)
  BY SMTT(30), <1>27 DEF Unlock, Idle
<1>28. CASE CallFails(w)
  BY SMTT(30), <1>28 DEF CallFails, Returned, Idle, Intended, Shown
<1> QED BY <1>1, <1>2, <1>3, <1>4, <1>5, <1>6, <1>7, <1>8, <1>9, <1>10, <1>11, <1>12,
      <1>13, <1>14, <1>15, <1>16, <1>17, <1>18, <1>19, <1>20, <1>21, <1>22, <1>23, <1>24,
      <1>25, <1>26, <1>27, <1>28 DEF RunTask

\* A worker takes its task from place to place in the tracker and the file.
LEMMA WorkerPlaces ==
  ASSUME TypeOK, NEW w \in Workers, RunTask(w) \/ CallFails(w), NEW t \in Tasks, t = T(w),
         PlaceInv(wk[w]), TaskInv(t)
  PROVE  /\ PlaceInv(wk[w])' /\ TaskInv(t)'
         /\ status[t] \in {"closed", "blocked"} => status'[t] = status[t]
<1>0. wk[w] \in WorkerState /\ wk \in [Workers -> WorkerState]
  BY DEF TypeOK
<1> USE <1>0, LoopAssumption
    DEF LoopAssumption, TypeOK, DurableOK, StateRecord, WorkerState, T, At, Go, durable,
        PlaceInv, TaskInv, Early, Late, Recorded
<1>1. CASE Gate(w)
  BY SMTT(30), <1>1 DEF Gate, LocalFrame
<1>2. CASE Implement(w)
  BY SMTT(30), <1>2 DEF Implement, LocalFrame
<1>3. CASE QCGate(w)
  BY SMTT(30), <1>3 DEF QCGate, TrackerFrame
<1>4. CASE BeginAttempt(w)
  BY SMTT(30), <1>4 DEF BeginAttempt, LocalFrame
<1>5. CASE Merge(w)
  BY SMTT(30), <1>5 DEF Merge, LocalFrame
<1>6. CASE MergeFails(w)
  BY SMTT(30), <1>6 DEF MergeFails, LocalFrame
<1>7. CASE Remediate(w)
  BY SMTT(30), <1>7 DEF Remediate, LocalFrame
<1>8. CASE PushFails(w)
  BY SMTT(30), <1>8 DEF PushFails, LocalFrame
<1>9. CASE NotRetried(w)
  BY SMTT(30), <1>9 DEF NotRetried, TrackerFrame
<1>10. CASE FallBack(w)
  BY SMTT(30), <1>10 DEF FallBack, LocalFrame
<1>11. CASE SetInProgress(w)
  BY SMTT(30), <1>11 DEF SetInProgress, TrackerFrame, SetTaskStatus, Shown
<1>12. CASE Close(w)
  BY SMTT(30), <1>12 DEF Close, TrackerFrame, SetTaskStatus, Shown
<1>13. CASE Block(w)
  BY SMTT(30), <1>13 DEF Block, TrackerFrame, SetTaskStatus, Shown
<1>14. CASE Fail(w)
  BY SMTT(30), <1>14 DEF Fail, TrackerFrame, SetTaskStatus, Shown
<1>15. CASE Reopen(w)
  BY SMTT(30), <1>15 DEF Reopen, TrackerFrame, SetTaskStatus, Shown
<1>16. CASE MarkTaskCompleted(w)
  BY SMTT(30), <1>16 DEF MarkTaskCompleted, FileFrame
<1>17. CASE MarkTaskBlocked(w)
  BY SMTT(30), <1>17 DEF MarkTaskBlocked, FileFrame
<1>18. CASE ClearTaskTerminalState(w)
  BY SMTT(30), <1>18 DEF ClearTaskTerminalState, FileFrame
<1>19. CASE ClearTaskInFlight(w)
  BY SMTT(30), <1>19 DEF ClearTaskInFlight, FileFrame
<1>20. CASE ReviewFailed(w)
  BY SMTT(60), <1>20 DEF ReviewFailed, TrackerFrame
<1>21. CASE CompletionFailed(w)
  BY SMTT(30), <1>21 DEF CompletionFailed, TrackerFrame
<1>22. CASE Push(w)
  BY SMTT(30), <1>22 DEF Push
<1>23. CASE Review(w)
  BY SMTT(30), <1>23 DEF Review
<1>24. CASE LockLanding(w)
  BY SMTT(30), <1>24 DEF LockLanding
<1>25. CASE Report(w)
  BY SMTT(30), <1>25 DEF Report
<1>26. CASE Return(w)
  BY SMTT(30), <1>26 DEF Return, Returned, Idle
<1>27. CASE Unlock(w)
  BY SMTT(30), <1>27 DEF Unlock, Idle
<1>28. CASE CallFails(w)
  BY SMTT(30), <1>28 DEF CallFails, Returned, Idle, Intended, Shown
<1> QED BY <1>1, <1>2, <1>3, <1>4, <1>5, <1>6, <1>7, <1>8, <1>9, <1>10, <1>11, <1>12,
      <1>13, <1>14, <1>15, <1>16, <1>17, <1>18, <1>19, <1>20, <1>21, <1>22, <1>23, <1>24,
      <1>25, <1>26, <1>27, <1>28 DEF RunTask

\* Closed and blocked are final, whatever step is taken.
LEMMA StatusesAreFinal ==
  ASSUME TypeOK, LoopInv, [Next]_vars, NEW t \in Tasks, status[t] \in {"closed", "blocked"}
  PROVE  status'[t] = status[t]
<1>1. ASSUME NEW w \in Workers, RunTask(w) \/ CallFails(w) PROVE status'[t] = status[t]
  <2>1. CASE t = T(w)
    BY <1>1, <2>1, WorkerPlaces DEF LoopInv
  <2>2. CASE t # T(w)
    BY <1>1, <2>2, WorkerKeepsToItsTask
  <2> QED BY <2>1, <2>2
<1>2. ASSUME NEW r \in Tasks, RecoverTask(r) PROVE status'[t] = status[t]
  <2>1. status \in [Tasks -> Statuses]
    BY DEF TypeOK, DurableOK
  <2>2. TaskInv(r) /\ RecoveryInv /\ mpc = "recover"
    BY <1>2 DEF LoopInv, RecoverTask
  <2> QED BY <1>2, <2>1, <2>2 DEF RecoverTask, SetTaskStatus, Shown, RecoveryInv, TaskInv
<1>3. CASE Load \/ Recovered \/ Top \/ (\E r \in Tasks : Pick(r)) \/ MarkPicked
          \/ (\E w \in Workers : Send(w)) \/ FillEnds \/ Receive \/ DispatcherFails
          \/ RequestStop \/ Restart \/ UNCHANGED vars
  BY <1>3 DEF Load, Recovered, Top, Pick, MarkPicked, Send, FillEnds, Receive, MoveTo,
      DispatcherFails, RequestStop, Restart, vars, durable
<1> QED BY <1>1, <1>2, <1>3 DEF Next, Dispatch

\* Hence dependencies stay closed.
LEMMA DependenciesStayClosed ==
  ASSUME TypeOK, LoopInv, [Next]_vars, NEW t \in Tasks, DependenciesClosed(t)
  PROVE  DependenciesClosed(t)'
BY StatusesAreFinal, LoopAssumption DEF DependenciesClosed, LoopAssumption

\* The invariant through the steps of a worker.
LEMMA WorkerKeepsLoopInv ==
  ASSUME TypeOK, LockInv, InFlightInv, LoopInv, [Next]_vars,
         NEW w \in Workers, RunTask(w) \/ CallFails(w)
  PROVE  LoopInv'
<1>1. /\ wk \in [Workers -> WorkerState] /\ \A v \in Workers : Busy(v) => T(v) \in Tasks
      /\ inFlight \subseteq Tasks /\ picked \in Tasks \cup {None}
      /\ mpc \in {"picked", "send"} => picked \in Tasks
      /\ results \in Seq([task : Tasks, outcome : {"completed", "blocked", "failed", "error"}])
      /\ file \in StateRecord
  BY DEF TypeOK, DurableOK, DispatcherOK, WorkerOK, Busy, T
<1>2. Busy(w) /\ T(w) \in Tasks
  BY <1>1, WorkerHoldsTask DEF Unlock, At, Busy
<1>3. \A v \in Workers \ {w} : wk'[v] = wk[v] /\ (Busy(v) => T(v) # T(w))
  <2>1. \A v \in Workers \ {w} : wk'[v] = wk[v]
    BY <1>1, WorkerHoldsTask DEF Unlock
  <2> QED BY <1>2, <2>1 DEF LockInv, TaskRunByOne
<1>4. file' \in StateRecord
  BY RunTaskDurable, CallFailsType DEF TypeOK, DurableOK
<1>5. \A t \in Tasks : TaskInv(t)'
  <2> SUFFICES ASSUME NEW t \in Tasks PROVE TaskInv(t)'
    OBVIOUS
  <2>1. CASE t = T(w)
    BY <2>1, WorkerPlaces DEF LoopInv
  <2>2. CASE t # T(w)
    BY <2>2, WorkerKeepsToItsTask DEF LoopInv, TaskInv, Recorded
  <2> QED BY <2>1, <2>2
<1>6. \A v \in Workers : PlaceInv(wk[v])'
  <2>1. PlaceInv(wk[w])'
    BY <1>2, WorkerPlaces DEF LoopInv
  <2>2. ASSUME NEW v \in Workers \ {w}, Busy(v) PROVE PlaceInv(wk[v])'
    <3>1. T(v) \in Tasks /\ T(v) # T(w) /\ wk'[v] = wk[v]
      BY <1>1, <1>3, <2>2
    <3> QED BY <3>1, WorkerKeepsToItsTask DEF LoopInv, PlaceInv, Recorded, T
  <2>3. ASSUME NEW v \in Workers \ {w}, ~Busy(v) PROVE PlaceInv(wk[v])'
    BY <1>3, <2>3 DEF PlaceInv, Busy, Early, Late
  <2> QED BY <2>1, <2>2, <2>3
<1>7. \A v \in Workers : MachineInv(wk[v])'
  BY <1>3, WorkerMachine DEF LoopInv, MachineInv
<1>8. DependenciesHold'
  <2>1. ASSUME NEW t \in Tasks, t \in file'.completed PROVE DependenciesClosed(t)
    BY <1>2, <2>1, WorkerKeepsToItsTask DEF LoopInv, DependenciesHold
  <2>2. ASSUME NEW t \in Tasks, NEW v \in Workers, Busy(v)', T(v)' = t PROVE DependenciesClosed(t)
    <3>1. CASE v = w
      <4>1. T(w)' = T(w)
        BY <1>1, <2>2, <3>1, WorkerHoldsTask DEF Unlock, Busy, Idle, T
      <4> QED BY <1>2, <2>2, <3>1, <4>1 DEF LoopInv, DependenciesHold
    <3>2. CASE v # w
      BY <1>3, <2>2, <3>2 DEF LoopInv, DependenciesHold, Busy, T
    <3> QED BY <3>1, <3>2
  <2> QED BY <2>1, <2>2, DependenciesStayClosed DEF DependenciesHold
<1>9. RecoveryInv'
  <2>1. CASE Unlock(w)
    BY <2>1 DEF Unlock, dispatcher, durable, LoopInv, RecoveryInv, Recorded, DependenciesClosed, IsComplete
  <2>2. CASE ~Unlock(w)
    <3>1. T(w) \in inFlight /\ Running(w) /\ UNCHANGED dispatcher
          /\ \A i \in 1..Len(results) : results[i].task # T(w)
      <4>1. CASE Report(w)
        BY <4>1 DEF Report, InFlightInv, Running, At
      <4>2. CASE ~Report(w)
        BY <2>2, <4>2, WorkerKeepsQueue DEF InFlightInv
      <4> QED BY <4>1, <4>2
    <3>2. mpc \notin {"load", "recover", "stopped"}
      BY <1>2, <3>1 DEF InFlightInv
    <3>3. \A t \in Recorded' : t = T(w) \/ t \in Recorded
      BY <1>4, WorkerKeepsToItsTask DEF Recorded, StateRecord
    <3>4. mpc \in {"picked", "send"} =>
            /\ picked \in Tasks /\ picked # T(w)
            /\ status'[picked] = status[picked] /\ DependenciesClosed(picked)'
      <4> SUFFICES ASSUME mpc \in {"picked", "send"}
                   PROVE  /\ picked \in Tasks /\ picked # T(w)
                          /\ status'[picked] = status[picked] /\ DependenciesClosed(picked)'
        OBVIOUS
      <4>1. picked \in Tasks /\ picked # T(w)
        BY <1>1, <1>2 DEF LockInv
      <4>2. DependenciesClosed(picked)
        BY DEF LoopInv, RecoveryInv
      <4>3. status'[picked] = status[picked]
        BY <4>1, WorkerKeepsToItsTask
      <4>4. DependenciesClosed(picked)'
        <5>1. \A t \in Tasks : DependenciesClosed(t) => DependenciesClosed(t)'
          BY DependenciesStayClosed
        <5> QED BY <3>1, <4>1, <4>2, <5>1 DEF dispatcher, DependenciesClosed
      <4> QED BY <4>1, <4>3, <4>4
    <3>5. mpc = "send" => picked \in file'.inFlight
      BY <3>4, WorkerKeepsToItsTask DEF LoopInv, RecoveryInv
    <3>6. \A i \in 1..Len(results') :
            results'[i].outcome # "error" => results'[i].task \notin Recorded'
      <4>1. CASE Report(w)
        <5>1. /\ Len(results') = Len(results) + 1
              /\ results'[Len(results) + 1] = [task |-> T(w), outcome |-> wk[w].outcome]
              /\ \A i \in 1..Len(results) : results'[i] = results[i]
          BY <1>1, <4>1 DEF Report
        <5>2. wk[w].outcome # "error" => T(w) \notin Recorded
          BY <4>1 DEF Report, At, LoopInv, PlaceInv, T
        <5>3. Recorded' = Recorded
          BY <4>1 DEF Report, durable, Recorded
        <5> QED BY <1>1, <5>1, <5>2, <5>3 DEF LoopInv, RecoveryInv
      <4>2. CASE ~Report(w)
        <5>1. UNCHANGED results
          BY <2>2, <4>2, WorkerKeepsQueue
        <5> QED BY <3>1, <3>3, <5>1 DEF LoopInv, RecoveryInv
      <4> QED BY <4>1, <4>2
    <3> QED BY <3>1, <3>2, <3>3, <3>4, <3>5, <3>6 DEF LoopInv, RecoveryInv, dispatcher
  <2> QED BY <2>1, <2>2
<1> QED BY <1>5, <1>6, <1>7, <1>8, <1>9 DEF LoopInv

\* The invariant through the steps of the dispatcher.
LEMMA DispatcherKeepsLoopInv ==
  ASSUME TypeOK, LockInv, InFlightInv, LoopInv, [Next]_vars,
         Dispatch \/ DispatcherFails \/ RequestStop
  PROVE  LoopInv'
<1>1. /\ wk \in [Workers -> WorkerState] /\ file \in StateRecord /\ todo \in StateRecord
      /\ status \in [Tasks -> Statuses]
      /\ retries \in [Tasks -> [review : Nat, completion : Nat]]
      /\ results \in Seq([task : Tasks, outcome : {"completed", "blocked", "failed", "error"}])
      /\ \A v \in Workers : Busy(v) => T(v) \in Tasks
  BY DEF TypeOK, DurableOK, DispatcherOK, WorkerOK, Busy, T
<1>2. ASSUME UNCHANGED <<durable, wk, approved>>, RecoveryInv' PROVE LoopInv'
  BY <1>2 DEF LoopInv, TaskInv, PlaceInv, MachineInv, DependenciesHold, Busy, T,
      DependenciesClosed, Recorded, durable
<1>3. CASE Load
  <2>1. RecoveryInv'
    BY <1>1, <1>3 DEF Load, LoopInv, RecoveryInv, TaskInv, Recorded, durable, shared
  <2> QED BY <1>2, <1>3, <2>1 DEF Load
<1>4. ASSUME NEW r \in Tasks, RecoverTask(r) PROVE LoopInv'
  <2>1. /\ mpc = "recover" /\ TaskInv(r) /\ \A v \in Workers : wk[v].pc = "idle"
        /\ UNCHANGED <<tracker, retries, file, remote, wk, approved, results, inFlight>>
    BY <1>4 DEF RecoverTask, RecoverFrame, LoopInv, InFlightInv, Busy, shared
  <2>2. \A t \in Tasks \ {r} : status'[t] = status[t]
    BY <1>1, <1>4 DEF RecoverTask, SetTaskStatus
  <2>3. \A t \in Tasks : TaskInv(t)'
    <3>1. TaskInv(r)'
      BY <1>1, <1>4, <2>1 DEF RecoverTask, SetTaskStatus, Shown, LoopInv, RecoveryInv, TaskInv, Recorded
    <3>2. \A t \in Tasks \ {r} : TaskInv(t)'
      BY <2>1, <2>2 DEF LoopInv, TaskInv, Recorded
    <3> QED BY <3>1, <3>2
  <2>4. \A v \in Workers : PlaceInv(wk[v])' /\ MachineInv(wk[v])'
    <3>1. \A v \in Workers : PlaceInv(wk[v])'
      BY <2>1 DEF PlaceInv, Early, Late
    <3> QED BY <2>1, <3>1 DEF LoopInv, MachineInv
  <2>5. DependenciesHold'
    BY <2>1, DependenciesStayClosed DEF LoopInv, DependenciesHold, Busy
  <2>6. RecoveryInv'
    <3>1. mpc' \in {"recover", "error"} /\ Recorded' = Recorded
      BY <1>4, <2>1 DEF RecoverTask, Recorded
    <3>2. \/ todo' = [todo EXCEPT !.completed = @ \ {r}]
          \/ todo' = [todo EXCEPT !.blocked = @ \ {r}]
          \/ todo' = [todo EXCEPT !.inFlight = @ \ {r}]
      BY <1>4 DEF RecoverTask
    <3>3. /\ todo'.inFlight \subseteq todo.inFlight /\ todo.inFlight \subseteq todo'.inFlight \cup {r}
          /\ todo'.completed \subseteq todo.completed /\ todo.completed \subseteq todo'.completed \cup {r}
          /\ todo'.blocked \subseteq todo.blocked /\ todo.blocked \subseteq todo'.blocked \cup {r}
      BY <1>1, <3>2 DEF StateRecord
    <3>4. status'[r] # "in_progress"
      BY <1>1, <1>4 DEF RecoverTask, SetTaskStatus, Shown
    <3>5. mpc' = "recover" => \A t \in Tasks : status'[t] = "in_progress" =>
            t \in todo'.inFlight \cup todo'.completed \cup todo'.blocked
      BY <2>1, <2>2, <3>3, <3>4 DEF LoopInv, RecoveryInv
    <3>6. mpc' = "recover" =>
            /\ todo'.inFlight \subseteq file'.inFlight /\ todo'.completed \subseteq file'.completed
            /\ todo'.blocked \subseteq file'.blocked
      BY <2>1, <3>3 DEF LoopInv, RecoveryInv
    <3>7. \A i \in 1..Len(results') : results'[i].outcome # "error" => results'[i].task \notin Recorded'
      BY <2>1, <3>1 DEF LoopInv, RecoveryInv
    <3> QED BY <3>1, <3>5, <3>6, <3>7 DEF RecoveryInv
  <2> QED BY <2>3, <2>4, <2>5, <2>6 DEF LoopInv
<1>5. CASE Recovered
  <2>1. /\ \A v \in Workers : wk[v].pc = "idle"
        /\ \A t \in Tasks : status[t] # "in_progress"
        /\ file'.inFlight = {} /\ file'.completed = {} /\ file'.blocked = {}
        /\ UNCHANGED <<tracker, status, retries, remote, wk, approved, results, inFlight>>
        /\ mpc' = "top"
    BY <1>5 DEF Recovered, EmptyRecord, LoopInv, RecoveryInv, InFlightInv, Busy, shared
  <2>2. \A t \in Tasks : TaskInv(t)'
    BY <2>1 DEF LoopInv, TaskInv, Recorded
  <2>3. \A v \in Workers : PlaceInv(wk[v])' /\ MachineInv(wk[v])'
    <3>1. \A v \in Workers : PlaceInv(wk[v])'
      BY <2>1 DEF PlaceInv, Early, Late
    <3> QED BY <2>1, <3>1 DEF LoopInv, MachineInv
  <2>4. DependenciesHold' /\ RecoveryInv'
    BY <2>1 DEF DependenciesHold, RecoveryInv, Recorded, Busy
  <2> QED BY <2>2, <2>3, <2>4 DEF LoopInv
<1>6. CASE Top \/ FillEnds
  <2>1. UNCHANGED <<durable, wk, approved, todo, inFlight, picked, results, stop>>
    BY <1>6 DEF Top, FillEnds, MoveTo, shared
  <2>2. RecoveryInv'
    BY <1>6, <2>1, LoopAssumption DEF Top, FillEnds, MoveTo, BudgetUsed, LoopInv, RecoveryInv,
        Recorded, IsComplete, DependenciesClosed, durable, LoopAssumption
  <2> QED BY <1>2, <2>1, <2>2
<1>7. ASSUME NEW t \in Tasks, Pick(t) PROVE LoopInv'
  <2>1. RecoveryInv'
    BY <1>7 DEF Pick, Eligible, NextTasks, LoopInv, RecoveryInv, Recorded, IsComplete,
        DependenciesClosed, durable
  <2> QED BY <1>2, <1>7, <2>1 DEF Pick
<1>8. CASE MarkPicked
  <2>1. /\ picked \in Tasks /\ picked \notin inFlight /\ mpc = "picked" /\ mpc' = "send"
        /\ inFlight' = inFlight \cup {picked}
        /\ file' = [file EXCEPT !.inFlight = @ \cup {picked}]
        /\ UNCHANGED <<tracker, status, retries, remote, picked, results, wk, approved>>
    BY <1>8 DEF MarkPicked, InFlightInv, TypeOK, DispatcherOK, shared
  <2>2. picked \notin Recorded /\ status[picked] = "open" /\ \A v \in Workers : Busy(v) => T(v) # picked
    BY <2>1 DEF LoopInv, RecoveryInv, LockInv
  <2>3. /\ file'.inFlight = file.inFlight \cup {picked} /\ file'.completed = file.completed
        /\ file'.blocked = file.blocked
    BY <1>1, <2>1 DEF StateRecord
  <2>4. \A t \in Tasks : TaskInv(t)'
    BY <2>1, <2>2, <2>3 DEF LoopInv, TaskInv, Recorded
  <2>5. \A v \in Workers : PlaceInv(wk[v])'
    <3> SUFFICES ASSUME NEW v \in Workers PROVE PlaceInv(wk[v])'
      OBVIOUS
    <3>1. CASE Busy(v)
      BY <2>1, <2>2, <2>3, <3>1 DEF LoopInv, PlaceInv, Recorded, T
    <3>2. CASE ~Busy(v)
      BY <2>1, <3>2 DEF PlaceInv, Busy, Early, Late
    <3> QED BY <3>1, <3>2
  <2>6. \A v \in Workers : MachineInv(wk[v])'
    BY <2>1 DEF LoopInv, MachineInv
  <2>7. DependenciesHold'
    BY <2>1, <2>3 DEF LoopInv, DependenciesHold, DependenciesClosed, Busy, T
  <2>8. RecoveryInv'
    BY <2>1, <2>2, <2>3 DEF LoopInv, RecoveryInv, InFlightInv, Recorded, DependenciesClosed
  <2> QED BY <2>4, <2>5, <2>6, <2>7, <2>8 DEF LoopInv
<1>9. ASSUME NEW w \in Workers, Send(w) PROVE LoopInv'
  <2>1. /\ picked \in Tasks /\ mpc = "send" /\ mpc' = "fill"
        /\ UNCHANGED <<durable, approved, inFlight, results>>
        /\ \A v \in Workers \ {w} : wk'[v] = wk[v]
        /\ wk'[w] = [Idle EXCEPT !.pc = "gate", !.task = picked,
                                  !.review = retries[picked].review,
                                  !.completion = retries[picked].completion]
    BY <1>1, <1>9 DEF Send, TypeOK, DispatcherOK, shared
  <2>2. TaskInv(picked) /\ picked \in file.inFlight /\ status[picked] = "open"
        /\ DependenciesClosed(picked)
    BY <2>1 DEF LoopInv, RecoveryInv
  <2>3. /\ wk'[w].pc = "gate" /\ wk'[w].task = picked
        /\ wk'[w].attempt = 1 /\ wk'[w].machine = NewLandingQueueStateMachine(2)
    BY <2>1 DEF Idle
  <2>4. \A t \in Tasks : TaskInv(t)'
    BY <2>1 DEF LoopInv, TaskInv, Recorded, durable
  <2>5. PlaceInv(wk[w])'
    BY <2>1, <2>2, <2>3 DEF PlaceInv, Early, Late, durable
  <2>7. MachineInv(wk[w])'
    BY <2>3 DEF MachineInv, Early, NewLandingQueueStateMachine
  <2>8. \A v \in Workers \ {w} : PlaceInv(wk[v])' /\ MachineInv(wk[v])'
    BY <2>1 DEF LoopInv, PlaceInv, MachineInv, Recorded, durable
  <2>9. DependenciesHold'
    <3> SUFFICES ASSUME NEW t \in Tasks, t \in file'.completed \/ \E v \in Workers : Busy(v)' /\ T(v)' = t
                 PROVE  DependenciesClosed(t)'
      BY DEF DependenciesHold
    <3>1. t = picked \/ t \in file.completed \/ \E v \in Workers : Busy(v) /\ T(v) = t
      BY <2>1, <2>3 DEF Busy, T, durable
    <3>2. DependenciesClosed(t)
      BY <2>2, <3>1 DEF LoopInv, DependenciesHold
    <3> QED BY <3>2, DependenciesStayClosed
  <2>10. RecoveryInv'
    BY <2>1 DEF LoopInv, RecoveryInv, Recorded, durable
  <2> QED BY <2>4, <2>5, <2>7, <2>8, <2>9, <2>10 DEF LoopInv
<1>10. CASE Receive
  <2> DEFINE r == Head(results)
  <2>1. /\ results # <<>> /\ results' = Tail(results) /\ inFlight' = inFlight \ {r.task}
        /\ UNCHANGED <<durable, wk, approved>> /\ mpc = "receive"
        /\ mpc' = "error" \/ (mpc' = "top" /\ r.outcome # "error")
    BY <1>10 DEF Receive, durable
  <2>2. /\ Len(results) \in Nat \ {0} /\ r = results[1] /\ Len(results') = Len(results) - 1
        /\ \A i \in 1..Len(results') : results'[i] = results[i + 1] /\ i + 1 \in 1..Len(results)
    BY <1>1, <2>1
  <2>3. Recorded' = Recorded
    BY <2>1 DEF Recorded, durable
  <2>4. mpc' = "top" => Recorded \subseteq inFlight'
    BY <2>1, <2>2 DEF LoopInv, RecoveryInv
  <2>5. \A i \in 1..Len(results') : results'[i].outcome # "error" => results'[i].task \notin Recorded
    <3>1. \A i \in 1..Len(results) : results[i].outcome # "error" => results[i].task \notin Recorded
      BY DEF LoopInv, RecoveryInv
    <3> QED BY <2>2, <3>1
  <2>6. RecoveryInv'
    BY <2>1, <2>3, <2>4, <2>5 DEF RecoveryInv
  <2> QED BY <1>2, <2>1, <2>6
<1>11. CASE DispatcherFails \/ RequestStop
  <2>1. RecoveryInv'
    BY <1>11 DEF DispatcherFails, RequestStop, LoopInv, RecoveryInv, Recorded, IsComplete,
        DependenciesClosed, durable, shared
  <2> QED BY <1>2, <1>11, <2>1 DEF DispatcherFails, RequestStop
<1> QED BY <1>3, <1>4, <1>5, <1>6, <1>7, <1>8, <1>9, <1>10, <1>11 DEF Dispatch

\* What holds of a task holds whatever the dispatcher, the workers, failing
\* calls and crashes do.
LEMMA LoopInvariant == Spec => []LoopInv
<1>1. Init => LoopInv
  BY LoopAssumption DEF Init, EmptyRecord, Idle, LoopInv, TaskInv, PlaceInv, MachineInv,
      DependenciesHold, RecoveryInv, Recorded, Early, Late, Busy, T, LoopAssumption
<1>2. TypeOK /\ LockInv /\ InFlightInv /\ LoopInv /\ [Next]_vars => LoopInv'
  <2> SUFFICES ASSUME TypeOK, LockInv, InFlightInv, LoopInv, [Next]_vars PROVE LoopInv'
    OBVIOUS
  <2>1. CASE Restart
    <3>1. \A w \in Workers : wk'[w] = Idle
      BY <2>1 DEF Restart
    <3>2. \A w \in Workers : PlaceInv(wk[w])' /\ MachineInv(wk[w])'
      BY <3>1, LoopAssumption DEF Idle, PlaceInv, MachineInv, Early, Late, LoopAssumption
    <3>3. \A t \in Tasks : TaskInv(t)'
      BY <2>1 DEF Restart, durable, LoopInv, TaskInv, Recorded
    <3>4. DependenciesHold'
      BY <2>1, <3>1 DEF Restart, durable, LoopInv, DependenciesHold, DependenciesClosed, Busy, Idle
    <3>5. RecoveryInv'
      BY <2>1 DEF Restart, RecoveryInv
    <3> QED BY <3>2, <3>3, <3>4, <3>5 DEF LoopInv
  <2>2. CASE UNCHANGED vars
    BY <2>2 DEF vars, durable, dispatcher, shared, LoopInv, TaskInv, PlaceInv, MachineInv,
        DependenciesHold, DependenciesClosed, RecoveryInv, Recorded, IsComplete, Busy, T
  <2> QED BY <2>1, <2>2, WorkerKeepsLoopInv, DispatcherKeepsLoopInv DEF Next
<1> QED BY <1>1, <1>2, AgentLoopTypeCorrect, LocksExclude, InFlightCounted, PTL DEF Spec

-----------------------------------------------------------------------------
(* Landing.                                                                 *)

\* The steps a worker x takes with the landing lock, and what the machine
\* says at the two that end a landing.
HolderInv(x) ==
  /\ x.pc \in {"attempt", "merge", "remediate", "push", "close", "mark_blocked",
               "block", "clear", "return"}
  /\ x.pc = "close" => x.machine.state = "landed"
  /\ x.pc = "mark_blocked" => \/ x.machine.state = "blocked"
                              \/ x.machine.state = "retrying" /\ x.attempt = 1

HoldersInv == \A w \in Workers : landingLock = w => HolderInv(wk[w])

\* A landing that may not be tried again is blocked.
LEMMA FailedLandingIsBlocked ==
  ASSUME NEW m \in LandingMachine
  PROVE  /\ m.state = "landing" => Apply(m, "failed_permanent").state = "blocked"
         /\ m.state = "landing" /\ m.attempts = 1 /\ m.maxAttempts = 2 =>
              Apply(m, "failed_retryable").state = "blocked"
         /\ m.state = "queued" =>
              Apply(m, "begin") \in LandingMachine /\ Apply(m, "begin").state = "landing"
BY DEF Apply, PlainTransition, LandingMachine, LandingStates

\* What a worker's step does to the lock.
LEMMA WorkerHolds ==
  ASSUME TypeOK, NEW w \in Workers, RunTask(w) \/ CallFails(w), MachineInv(wk[w]),
         landingLock = w => HolderInv(wk[w])
  PROVE  /\ landingLock' = w => HolderInv(wk[w])'
         /\ landingLock' \in {landingLock, w, None}
<1>1. /\ wk \in [Workers -> WorkerState] /\ wk[w] \in WorkerState /\ None \notin Workers
      /\ landingLock \in Workers \cup {None}
  BY LoopAssumption DEF TypeOK, DispatcherOK, LoopAssumption
<1> USE DEF WorkerState, LandingMachine, HolderInv, MachineInv, At, Go, T, Moved, Apply,
            PlainTransition, shared
<1>3. CASE Gate(w)
  BY SMTT(30), <1>1, <1>3 DEF Gate, LocalFrame
<1>4. CASE Implement(w)
  BY SMTT(30), <1>1, <1>4 DEF Implement, LocalFrame
<1>5. CASE QCGate(w)
  BY SMTT(30), <1>1, <1>5 DEF QCGate, TrackerFrame
<1>6. CASE BeginAttempt(w)
  <2> HIDE DEF Apply, PlainTransition
  <2>1. /\ wk[w].pc = "attempt" /\ wk[w].machine.state = "queued" /\ UNCHANGED landingLock
        /\ wk[w].machine \in LandingMachine
    BY <1>1, <1>6 DEF BeginAttempt, LocalFrame, Early
  <2>2. Apply(Apply(wk[w].machine, "begin"), "failed_permanent").state = "blocked"
    BY <2>1, FailedLandingIsBlocked
  <2> QED BY <1>1, <1>6, <2>1, <2>2 DEF BeginAttempt
<1>7. CASE Merge(w)
  BY SMTT(30), <1>1, <1>7 DEF Merge, LocalFrame
<1>8. CASE MergeFails(w)
  <2> HIDE DEF Apply, PlainTransition
  <2>1. /\ wk[w].pc = "merge" /\ wk[w].machine.state = "landing" /\ wk[w].machine.maxAttempts = 2
        /\ wk[w].machine \in LandingMachine /\ UNCHANGED landingLock
        /\ wk[w].attempt = 2 => wk[w].machine.attempts = 1
    BY <1>1, <1>8 DEF MergeFails, LocalFrame
  <2>2. wk[w].attempt = 2 => Apply(wk[w].machine, "failed_retryable").state = "blocked"
    BY <2>1, FailedLandingIsBlocked
  <2> QED BY <1>1, <1>8, <2>1, <2>2 DEF MergeFails
<1>9. CASE Remediate(w)
  BY SMTT(30), <1>1, <1>9 DEF Remediate, LocalFrame
<1>10. CASE PushFails(w)
  BY SMTT(30), <1>1, <1>10 DEF PushFails, LocalFrame
<1>11. CASE NotRetried(w)
  BY SMTT(30), <1>1, <1>11 DEF NotRetried, TrackerFrame
<1>12. CASE FallBack(w)
  BY SMTT(30), <1>1, <1>12 DEF FallBack, LocalFrame
<1>13. CASE SetInProgress(w)
  BY SMTT(30), <1>1, <1>13 DEF SetInProgress, TrackerFrame
<1>14. CASE Close(w)
  BY SMTT(30), <1>1, <1>14 DEF Close, TrackerFrame
<1>15. CASE Block(w)
  BY SMTT(30), <1>1, <1>15 DEF Block, TrackerFrame
<1>16. CASE Fail(w)
  BY SMTT(30), <1>1, <1>16 DEF Fail, TrackerFrame
<1>17. CASE Reopen(w)
  BY SMTT(30), <1>1, <1>17 DEF Reopen, TrackerFrame
<1>18. CASE MarkTaskCompleted(w)
  BY SMTT(30), <1>1, <1>18 DEF MarkTaskCompleted, FileFrame
<1>19. CASE MarkTaskBlocked(w)
  BY SMTT(30), <1>1, <1>19 DEF MarkTaskBlocked, FileFrame
<1>20. CASE ClearTaskTerminalState(w)
  BY SMTT(30), <1>1, <1>20 DEF ClearTaskTerminalState, FileFrame
<1>21. CASE ClearTaskInFlight(w)
  BY SMTT(30), <1>1, <1>21 DEF ClearTaskInFlight, FileFrame
<1>22. CASE ReviewFailed(w)
  BY SMTT(30), <1>1, <1>22 DEF ReviewFailed, TrackerFrame
<1>23. CASE CompletionFailed(w)
  BY SMTT(30), <1>1, <1>23 DEF CompletionFailed, TrackerFrame
<1>24. CASE Push(w)
  BY SMTT(30), <1>1, <1>24 DEF Push
<1>25. CASE Review(w)
  BY SMTT(30), <1>1, <1>25 DEF Review
<1>26. CASE LockLanding(w)
  BY SMTT(30), <1>1, <1>26 DEF LockLanding
<1>27. CASE Report(w)
  BY SMTT(30), <1>1, <1>27 DEF Report
<1>28. CASE Return(w)
  BY SMTT(30), <1>1, <1>28 DEF Return, Returned, Idle
<1>29. CASE Unlock(w)
  BY SMTT(30), <1>1, <1>29 DEF Unlock, Idle
<1>30. CASE CallFails(w)
  BY SMTT(30), <1>1, <1>30 DEF CallFails, Returned, Idle
<1> QED BY <1>3, <1>4, <1>5, <1>6, <1>7, <1>8, <1>9, <1>10, <1>11, <1>12, <1>13, <1>14,
      <1>15, <1>16, <1>17, <1>18, <1>19, <1>20, <1>21, <1>22, <1>23, <1>24, <1>25, <1>26,
      <1>27, <1>28, <1>29, <1>30 DEF RunTask

\* The lock is held at the steps of a landing only.
LEMMA HoldersKnown == Spec => []HoldersInv
<1> USE DEF HoldersInv
<1>1. Init => HoldersInv
  BY LoopAssumption DEF Init, LoopAssumption
<1>2. TypeOK /\ LoopInv /\ HoldersInv /\ [Next]_vars => HoldersInv'
  <2> SUFFICES ASSUME TypeOK, LoopInv, HoldersInv, [Next]_vars PROVE HoldersInv'
    OBVIOUS
  <2>1. wk \in [Workers -> WorkerState] /\ None \notin Workers
    BY LoopAssumption DEF TypeOK, LoopAssumption
  <2>2. ASSUME NEW v \in Workers, RunTask(v) \/ CallFails(v) PROVE HoldersInv'
    <3>1. /\ landingLock' = v => HolderInv(wk[v])'
          /\ landingLock' \in {landingLock, v, None}
      BY <2>2, WorkerHolds DEF LoopInv
    <3>2. \A w \in Workers \ {v} : wk'[w] = wk[w]
      BY <2>1, <2>2, WorkerHoldsTask DEF Unlock
    <3>3. \A w \in Workers \ {v} : landingLock' = w => HolderInv(wk[w])'
      BY <2>1, <3>1, <3>2 DEF HolderInv
    <3> QED BY <3>1, <3>3
  <2>3. ASSUME NEW w \in Workers, Send(w) PROVE HoldersInv'
    <3>1. wk[w].pc = "idle" /\ UNCHANGED landingLock /\ \A v \in Workers \ {w} : wk'[v] = wk[v]
      BY <2>1, <2>3 DEF Send, shared
    <3> QED BY <3>1 DEF HolderInv
  <2>4. CASE Restart
    BY <2>1, <2>4 DEF Restart
  <2>5. CASE Load \/ (\E t \in Tasks : RecoverTask(t)) \/ Recovered \/ Top
          \/ (\E t \in Tasks : Pick(t)) \/ MarkPicked \/ FillEnds \/ Receive
          \/ DispatcherFails \/ RequestStop \/ UNCHANGED vars
    BY <2>5 DEF Load, RecoverTask, RecoverFrame, Recovered, Top, Pick, MarkPicked, FillEnds,
        Receive, MoveTo, DispatcherFails, RequestStop, vars, shared, HolderInv
  <2> QED BY <2>2, <2>3, <2>4, <2>5 DEF Next, Dispatch
<1> QED BY <1>1, <1>2, AgentLoopTypeCorrect, LoopInvariant, PTL DEF Spec

-----------------------------------------------------------------------------
(* The properties of the loop.                                              *)

\* A task the tracker shows in progress is in the state file at every step of
\* every worker, so a run killed at any point leaves none in progress.
THEOREM ProgressRecorded == Spec => []InProgressIsRecorded
<1>1. LoopInv => InProgressIsRecorded
  BY DEF LoopInv, TaskInv, InProgressIsRecorded
<1> QED BY <1>1, LoopInvariant, PTL

\* Neither a retry, a late failure nor a restart changes what the tracker shows as
\* closed or, where it can, as blocked: recovery restores only what the file still holds.
THEOREM TerminalStays == Spec => TerminalIsFinal
<1>1. TypeOK /\ LoopInv /\ [Next]_vars
        => [\A t \in Tasks : status[t] \in {"closed", "blocked"} => status'[t] = status[t]]_vars
  BY StatusesAreFinal
<1> QED BY <1>1, AgentLoopTypeCorrect, LoopInvariant, PTL DEF Spec, TerminalIsFinal

\* The engine never has to refuse to close a task a worker has, nor one that
\* recovery restores as completed.
THEOREM DependenciesKept == Spec => []DependenciesHold
<1>1. LoopInv => DependenciesHold
  BY DEF LoopInv
<1> QED BY <1>1, LoopInvariant, PTL

\* No task is closed, by a worker or by recovery, and no first attempt of a
\* landing merges, but what a review has passed.
THEOREM ReviewedFirst == Spec => []ReviewComesFirst
<1>1. LoopInv => ReviewComesFirst
  BY DEF LoopInv, TaskInv, MachineInv, ReviewComesFirst, ClosedIsReviewed, MergedIsReviewed
<1> QED BY <1>1, LoopInvariant, PTL

\* No task whose work is on the remote main branch is implemented again, on any
\* tracker, also on one that shows what is blocked or failed as open.
THEOREM NothingRedone == Spec => []LandedIsNotRerun
<1>1. TypeOK /\ LoopInv => LandedIsNotRerun
  BY DEF TypeOK, WorkerOK, LoopInv, TaskInv, PlaceInv, LandedIsNotRerun, Early, Late, At, T
<1> QED BY <1>1, AgentLoopTypeCorrect, LoopInvariant, PTL

\* The file says one thing of a task, the landing status is that of the
\* landing, and a run that ends without an error has finished its tasks.
THEOREM ReportsTrue == Spec => []ReportsAreTrue
<1>1. TypeOK /\ LoopInv => FileIsConsistent
  BY DEF TypeOK, DurableOK, StateRecord, LoopInv, TaskInv, FileIsConsistent
<1>2. LoopInv /\ HoldersInv => LandingInStep
  BY DEF LoopInv, MachineInv, HoldersInv, HolderInv, LandingInStep, At, Early
<1>3. InFlightInv /\ LoopInv => CleanExit
  BY DEF InFlightInv, LoopInv, RecoveryInv, CleanExit
<1> QED BY <1>1, <1>2, <1>3, AgentLoopTypeCorrect, InFlightCounted, LoopInvariant, HoldersKnown, PTL
    DEF ReportsAreTrue
=============================================================================
