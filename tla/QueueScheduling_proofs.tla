------------------------ MODULE QueueScheduling_proofs ------------------------
(***************************************************************************)
(* Theorems about the mastermind's scheduler with the executors, for any    *)
(* task graph, any number of executors and slots, every bus, and any number *)
(* of lost, late and repeated deliveries, failures and restarts.            *)
(***************************************************************************)
EXTENDS QueueScheduling, TLAPS, FiniteSetTheorems

-----------------------------------------------------------------------------
(* Trees, the scheduler's record and the queue keep their types.            *)

LEMMA TreeType ==
  /\ \A f \in Trees : DOMAIN f \subseteq Task /\ \A t \in DOMAIN f : f[t] \in Status
  /\ \A S \in SUBSET Task : \A f \in [S -> Status] : f \in Trees
  /\ NoGraph \in Trees
BY DEF Trees, NoGraph

LEMMA UnmarkType ==
  ASSUME NEW s \in SchedulerType, NEW gone
  PROVE  Unmark(s, gone) \in SchedulerType /\ Unmark(s, gone).node = s.node
BY DEF Unmark, SchedulerType

\* Whatever a snapshot, a difference or an event says, the record stays one.
LEMMA RecordType ==
  ASSUME NEW s \in SchedulerType
  PROVE  /\ EmptyScheduler \in SchedulerType
         /\ \A tree \in Trees : ApplySnapshot(s, tree) \in SchedulerType
         /\ \A diff \in [upsert : Trees, delete : SUBSET Task] : ApplyDiff(s, diff) \in SchedulerType
         /\ \A t \in Task : /\ TaskStarted(s, t) \in SchedulerType
                            /\ TaskCompleted(s, t) \in SchedulerType
                            /\ TaskFailed(s, t) \in SchedulerType
         /\ \A matched : AfterPlan(s, matched) \in SchedulerType
<1>1. EmptyScheduler \in SchedulerType
  BY TreeType DEF EmptyScheduler, SchedulerType
<1>2. \A r \in SchedulerType, tree \in Trees : [r EXCEPT !.node = tree] \in SchedulerType
  BY DEF SchedulerType
<1>3. \A r \in SchedulerType : PruneState(r) \in SchedulerType
  BY UnmarkType DEF PruneState
<1>4. \A tree \in Trees : ApplySnapshot(s, tree) \in SchedulerType
  BY <1>2, <1>3 DEF ApplySnapshot
<1>5. ASSUME NEW diff \in [upsert : Trees, delete : SUBSET Task]
      PROVE  ApplyDiff(s, diff) \in SchedulerType
  <2> DEFINE kept == (DOMAIN s.node \cup DOMAIN diff.upsert) \ diff.delete
             node == [t \in kept |-> IF t \in DOMAIN diff.upsert THEN diff.upsert[t] ELSE s.node[t]]
  <2>1. s.node \in Trees /\ diff.upsert \in Trees
    BY DEF SchedulerType
  <2>2. kept \subseteq Task /\ node \in [kept -> Status]
    BY <2>1, TreeType
  <2>3. node \in Trees
    BY <2>2, TreeType
  <2>4. [Unmark(s, diff.delete) EXCEPT !.node = node] \in SchedulerType
    BY <1>2, <2>3, UnmarkType
  <2> QED BY <1>3, <2>4 DEF ApplyDiff
<1>6. ASSUME NEW t \in Task, NEW status \in Status
      PROVE  SetNode(s, t, status) \in SchedulerType
  <2>1. s.node \in Trees
    BY DEF SchedulerType
  <2>2. [u \in DOMAIN s.node |-> IF u = t THEN status ELSE s.node[u]] \in [DOMAIN s.node -> Status]
    BY <2>1, TreeType
  <2>3. [u \in DOMAIN s.node |-> IF u = t THEN status ELSE s.node[u]] \in Trees
    BY <2>1, <2>2, TreeType
  <2> QED BY <1>2, <2>3 DEF SetNode
<1>7. \A t \in Task : /\ TaskStarted(s, t) \in SchedulerType
                      /\ TaskCompleted(s, t) \in SchedulerType
                      /\ TaskFailed(s, t) \in SchedulerType
  <2>1. \A t \in Task : /\ SetNode(s, t, "in_progress") \in SchedulerType
                        /\ SetNode(s, t, "closed") \in SchedulerType
                        /\ SetNode(s, t, "blocked") \in SchedulerType
    BY <1>6 DEF Status
  <2>2. \A r \in SchedulerType, t \in Task :
          /\ [r EXCEPT !.enqueued = @ \ {t}, !.inProgress = @ \cup {t}] \in SchedulerType
          /\ [r EXCEPT !.enqueued = @ \ {t}, !.inProgress = @ \ {t}] \in SchedulerType
    BY DEF SchedulerType
  <2> QED BY <2>1, <2>2, UnmarkType DEF TaskStarted, TaskCompleted, TaskFailed
<1>8. \A matched : AfterPlan(s, matched) \in SchedulerType
  BY DEF AfterPlan, SchedulerType
<1> QED BY <1>1, <1>4, <1>5, <1>7, <1>8

QueueType == [ready : Seq(Item), taken : SUBSET Item]

LEMMA QueueOperations ==
  ASSUME NEW q \in QueueType, NEW item \in Item, NEW id \in Ids
  PROVE  /\ Enqueue(q, item) \in QueueType
         /\ Ack(q, item) \in QueueType
         /\ Nack(q, item, id) \in QueueType
         /\ CanTake(q) => Head(q.ready) \in Item /\ Take(q) \in QueueType
<1>1. ASSUME NEW r \in QueueType, NEW i \in Item
      PROVE  Enqueue(r, i) \in QueueType /\ Ack(r, i) \in QueueType
  <2>1. r.ready \in Seq(Item) /\ r.taken \in SUBSET Item
    BY DEF QueueType
  <2>2. Append(r.ready, i) \in Seq(Item)
    BY <2>1
  <2> QED BY <2>1, <2>2 DEF QueueType, Enqueue, Ack
<1>2. [item EXCEPT !.id = id] \in Item
  BY DEF Item
<1>3. CanTake(q) => Head(q.ready) \in Item /\ Take(q) \in QueueType
  BY DEF QueueType, CanTake, Take
<1> QED BY <1>1, <1>2, <1>3 DEF Nack

LEMMA IdentityType == \A item \in Item : NackIds(item) \subseteq Ids /\ FreeIds \subseteq Ids
BY DEF NackIds, FreeIds, Item

\* An executor never runs more than its slots.
LEMMA LoadType ==
  ASSUME NEW e \in Executor
  PROVE  Slots - Load(e) \in 0 .. Slots
<1> DEFINE running == {p \in Places : p[1] = e /\ slot[p].phase = "run"}
<1>1. Slots \in Nat
  BY SchedulingAssumption
<1>2. IsFiniteSet({e} \X (1 .. Slots)) /\ Cardinality({e} \X (1 .. Slots)) = Slots
  <2>1. IsFiniteSet(1 .. Slots) /\ Cardinality(1 .. Slots) = Slots
    BY <1>1, FS_Interval
  <2>2. IsFiniteSet({e}) /\ Cardinality({e}) = 1
    BY FS_Singleton
  <2> QED BY <1>1, <2>1, <2>2, FS_Product
<1>3. running \in SUBSET ({e} \X (1 .. Slots))
  BY DEF Places
<1>4. IsFiniteSet(running) /\ Cardinality(running) <= Slots
  BY <1>2, <1>3, FS_Subset
<1>5. Cardinality(running) \in Nat
  BY <1>4, FS_CardinalityType
<1> QED BY <1>1, <1>4, <1>5 DEF Load

-----------------------------------------------------------------------------
(* Types.                                                                   *)

Trace == [type : {"started", "completed", "failed"}, task : Task]
Update == [task : Task, status : Status]
Difference == [upsert : Trees, delete : SUBSET Task]

\* What goes over a channel.
LEMMA ChannelType ==
  ASSUME NEW S, NEW c \in Seq(S), Len(c) <= Room
  PROVE  /\ c # <<>> => Head(c) \in S /\ Tail(c) \in Seq(S) /\ Len(Tail(c)) <= Room
         /\ \A e \in S : Len(c) < Room => Append(c, e) \in Seq(S) /\ Len(Append(c, e)) <= Room
<1>1. Room \in Nat
  BY SchedulingAssumption
<1> QED BY <1>1

\* An event is sent whole or, at the cost of a fault, lost.
LEMMA SendType ==
  ASSUME NEW S, NEW c \in Seq(S), Len(c) <= Room, NEW event \in S, NEW d, left \in 0 .. MaxFaults,
         Send(c, d, event)
  PROVE  d \in Seq(S) /\ Len(d) <= Room /\ left' \in 0 .. MaxFaults
<1>1. Room \in Nat /\ MaxFaults \in Nat
  BY SchedulingAssumption
<1> QED BY <1>1, ChannelType DEF Send, Publish, Lose, Fine, Fault

\* So is a failure that is itself a fault.
LEMMA ReportType ==
  ASSUME NEW S, NEW c \in Seq(S), Len(c) <= Room, NEW event \in S, NEW d, left \in 0 .. MaxFaults,
         Publish(c, d, event), Fine \/ \E fault \in Faults : Fault(fault)
  PROVE  d \in Seq(S) /\ Len(d) <= Room /\ left' \in 0 .. MaxFaults
<1>1. Room \in Nat /\ MaxFaults \in Nat
  BY SchedulingAssumption
<1> QED BY <1>1, ChannelType DEF Publish, Fine, Fault

\* What a tracker makes of a status is a status, and "closed" only of "closed".
LEMMA ShownStatus ==
  ASSUME NEW status \in Status
  PROVE  Shown(status) \in Status /\ (Shown(status) = "closed" <=> status = "closed")
BY SchedulingAssumption DEF Shown, Status

\* A round decides about tasks the scheduler knows.
LEMMA PlansType ==
  ASSUME NEW s \in SchedulerType, NEW free, NEW matched, NEW plan \in Plans(s, free, matched)
  PROVE  plan.block \subseteq RunnableCandidates(s) /\ plan.send \subseteq RunnableCandidates(s)
<1> DEFINE runnable == RunnableCandidates(s) \ (s.enqueued \cup s.inProgress)
           ready    == runnable \cap matched
<1>1. PICK send \in kSubset(Min({Budget(s, free), Cardinality(ready)}), ready) :
        plan = [block |-> runnable \ (matched \cup s.blocked), send |-> send]
  BY DEF Plans
<1>2. send \subseteq ready
  BY DEF kSubset
<1> QED BY <1>1, <1>2

LEMMA ChangedType ==
  ASSUME NEW before \in Trees, NEW current \in Trees
  PROVE  Changed(before, current) \in Difference
<1> DEFINE altered == {t \in DOMAIN current : t \notin DOMAIN before \/ before[t] # current[t]}
<1>1. altered \subseteq Task /\ Restrict(current, altered) \in [altered -> Status]
  BY TreeType DEF Restrict
<1>2. Restrict(current, altered) \in Trees
  BY <1>1, TreeType
<1>3. DOMAIN before \ DOMAIN current \in SUBSET Task
  BY TreeType
<1> QED BY <1>2, <1>3 DEF Changed, Difference

\* The mastermind's goroutines.
LEMMA MastermindType ==
  ASSUME TypeOK, Mastermind
  PROVE  TypeOK'
<1> USE SchedulingAssumption DEF TypeOK, channels, workers, Fine, Fault
<1>1. CASE SyncTaskGraphs
  <2>1. tracker \in Trees /\ NoGraph \in Trees
    BY TreeType
  <2>2. \A tree \in Trees : Changed(previous, tree) \in Difference
    BY ChangedType
  <2>3. snapshots' \in Seq(Trees) /\ Len(snapshots') <= Room /\ previous' \in Trees
    BY <1>1, <2>1, ChannelType DEF SyncTaskGraphs, Publish
  <2>4. diffs' \in Seq(Difference) /\ Len(diffs') <= Room
    <3>1. diffs \in Seq(Difference) /\ Len(diffs) <= Room
      BY DEF Difference
    <3>2. \/ UNCHANGED diffs
          \/ \E tree \in Trees : Len(diffs) < Room /\ diffs' = Append(diffs, Changed(previous, tree))
      BY <1>1, <2>1 DEF SyncTaskGraphs, Publish
    <3>3. ASSUME NEW tree \in Trees, Len(diffs) < Room, diffs' = Append(diffs, Changed(previous, tree))
          PROVE  diffs' \in Seq(Difference) /\ Len(diffs') <= Room
      <4>1. Changed(previous, tree) \in Difference
        BY <2>2
      <4> HIDE DEF TypeOK
      <4> QED BY <3>1, <3>3, <4>1, ChannelType
    <3> QED BY <3>1, <3>2, <3>3
  <2> QED BY <1>1, <2>3, <2>4 DEF SyncTaskGraphs, Difference
<1>2. CASE HandleSnapshot
  BY <1>2, RecordType, ChannelType DEF HandleSnapshot
<1>3. CASE HandleDiff
  BY <1>3, RecordType, ChannelType DEF HandleDiff
<1>4. CASE HandleMonitor
  <2> DEFINE event == Head(monitor)
  <2>1. event \in Trace /\ monitor' \in Seq(Trace) /\ Len(monitor') <= Room
    BY <1>4, ChannelType DEF HandleMonitor, Trace
  <2>2. event.task \in Task /\ event.type \in {"started", "completed", "failed"}
    BY <2>1 DEF Trace
  <2>3. sched' \in SchedulerType
    <3>1. \/ sched' = TaskStarted(sched, event.task) \/ sched' = TaskCompleted(sched, event.task)
          \/ sched' = TaskFailed(sched, event.task)
      BY <1>4, <2>2 DEF HandleMonitor
    <3> QED BY <2>2, <3>1, RecordType
  <2>4. \A status \in Status : [task |-> event.task, status |-> status] \in Update
    BY <2>2 DEF Update
  <2>5. updates' \in Seq(Update) /\ Len(updates') <= Room /\ left' \in 0 .. MaxFaults
    <3>1. \/ UNCHANGED <<updates, left>>
          \/ \E status \in Status : Send(updates, updates', [task |-> event.task, status |-> status])
      BY <1>4, <2>2 DEF HandleMonitor, Status
    <3> HIDE DEF Fine, Fault
    <3> QED BY <2>4, <3>1, SendType DEF Update
  <2> QED BY <1>4, <2>1, <2>3, <2>5 DEF HandleMonitor, Trace, Update
<1>5. CASE HandleStatusUpdate
  <2>1. Head(updates) \in Update /\ updates' \in Seq(Update) /\ Len(updates') <= Room
    BY <1>5, ChannelType DEF HandleStatusUpdate, Update
  <2>2. tracker' \in [Task -> Status] /\ left' \in 0 .. MaxFaults
    <3>1. Head(updates).task \in Task /\ Shown(Head(updates).status) \in Status
      BY <2>1, ShownStatus DEF Update
    <3>2. \/ tracker' = [tracker EXCEPT ![Head(updates).task] = Shown(Head(updates).status)]
          \/ UNCHANGED tracker
      BY <1>5 DEF HandleStatusUpdate
    <3>3. left' \in 0 .. MaxFaults
      BY <1>5 DEF HandleStatusUpdate
    <3>4. tracker \in [Task -> Status]
      OBVIOUS
    <3> HIDE DEF TypeOK
    <3> QED BY <3>1, <3>2, <3>3, <3>4
  <2> QED BY <1>5, <2>1, <2>2 DEF HandleStatusUpdate, Update
<1>6. CASE Plan
  <2>1. AfterPlan(sched, Matched) \in SchedulerType /\ DOMAIN sched.node \subseteq Task
    BY RecordType, TreeType DEF SchedulerType
  <2>2. \A plan \in Plans(sched, FreeSlots, Matched) : plan.block \subseteq Task /\ plan.send \subseteq Task
    BY <2>1, PlansType DEF RunnableCandidates
  <2>3. todo' \in [block : SUBSET Task, send : SUBSET Task, mark : SUBSET Task]
    <3>1. PICK plan \in Plans(sched, FreeSlots, Matched) :
            todo' = [block |-> plan.block, send |-> plan.send, mark |-> {}]
      BY <1>6 DEF Plan
    <3> QED BY <2>2, <3>1
  <2>4. sched' \in SchedulerType
    BY <1>6, <2>1 DEF Plan
  <2> QED BY <1>6, <2>3, <2>4 DEF Plan
<1>7. CASE MarkEnqueued
  BY <1>7 DEF MarkEnqueued, SchedulerType
<1>8. ASSUME NEW t \in Task, ReportBlocked(t) PROVE TypeOK'
  <2>1. [task |-> t, status |-> "blocked"] \in Update
    BY DEF Update, Status
  <2>2. updates' \in Seq(Update) /\ Len(updates') <= Room /\ left' \in 0 .. MaxFaults
    <3> HIDE DEF Fine, Fault
    <3> QED BY <1>8, <2>1, SendType DEF ReportBlocked, Update
  <2>3. [sched EXCEPT !.blocked = @ \cup {t}] \in SchedulerType
    BY DEF SchedulerType
  <2> QED BY <1>8, <2>2, <2>3 DEF ReportBlocked, Update
<1>9. ASSUME NEW t \in Task, EnqueueTask(t) PROVE TypeOK'
  <2>1. PICK id \in FreeIds : queue' = Enqueue(queue, [id |-> id, task |-> t])
    BY <1>9 DEF EnqueueTask
  <2>2. [id |-> id, task |-> t] \in Item /\ id \in Ids
    BY DEF FreeIds, Item
  <2>3. queue' \in QueueType
    BY <2>1, <2>2, QueueOperations DEF QueueType
  <2> QED BY <1>9, <2>3 DEF EnqueueTask, QueueType
<1> QED BY <1>1, <1>2, <1>3, <1>4, <1>5, <1>6, <1>7, <1>8, <1>9 DEF Mastermind

\* An item goes back under its own identity or a free one.
LEMMA GivenBackType ==
  ASSUME NEW item \in Item, queue \in QueueType,
         \E id \in NackIds(item) : queue' = Nack(queue, item, id)
  PROVE  queue' \in QueueType
BY IdentityType, QueueOperations

\* An executor's list of items.
LEMMA HeldType ==
  ASSUME held \in [Executor -> Seq(Item)], NEW e \in Executor
  PROVE  /\ held[e] # <<>> => /\ Head(held[e]) \in Item
                             /\ [held EXCEPT ![e] = Tail(@)] \in [Executor -> Seq(Item)]
         /\ \A item \in Item : [held EXCEPT ![e] = Append(@, item)] \in [Executor -> Seq(Item)]
<1>1. held[e] \in Seq(Item)
  OBVIOUS
<1>2. held[e] # <<>> => Head(held[e]) \in Item /\ Tail(held[e]) \in Seq(Item)
  BY <1>1
<1>3. \A item \in Item : Append(held[e], item) \in Seq(Item)
  BY <1>1
<1> QED BY <1>2, <1>3

\* A slot that is taken holds an item of the queue.
SlotsHoldItems == \A p \in Places : slot[p].phase # "idle" => slot[p].item \in Item

SlotType == [item : Item \cup {NoItem}, phase : {"idle", "run", "ack", "nack"}]

\* A slot that changes its phase keeps its item.
LEMMA SlotPhase ==
  \A s \in [Places -> SlotType], p \in Places, phase \in {"run", "ack", "nack"} :
    LET n == [s EXCEPT ![p].phase = phase]
    IN  /\ n \in [Places -> SlotType]
        /\ \A q \in Places : /\ n[q].item = s[q].item
                             /\ n[q].phase = IF q = p THEN phase ELSE s[q].phase
<1> SUFFICES ASSUME NEW s \in [Places -> SlotType], NEW p \in Places,
                    NEW phase \in {"run", "ack", "nack"}
             PROVE  LET n == [s EXCEPT ![p].phase = phase]
                    IN  /\ n \in [Places -> SlotType]
                        /\ \A q \in Places : /\ n[q].item = s[q].item
                                             /\ n[q].phase = IF q = p THEN phase ELSE s[q].phase
  OBVIOUS
<1> DEFINE n == [s EXCEPT ![p].phase = phase]
<1>1. \A q \in Places : n[q] = IF q = p THEN [s[p] EXCEPT !.phase = phase] ELSE s[q]
  OBVIOUS
<1>2. [s[p] EXCEPT !.phase = phase] \in SlotType /\ [s[p] EXCEPT !.phase = phase].item = s[p].item
  BY DEF SlotType
<1>3. [s[p] EXCEPT !.phase = phase].phase = phase
  BY DEF SlotType
<1>4. n \in [Places -> SlotType]
  BY <1>1, <1>2
<1> QED BY <1>1, <1>2, <1>3, <1>4

\* The executors.
LEMMA RuntimeType ==
  ASSUME TypeOK, SlotsHoldItems, NEW e \in Executor, Runtime(e)
  PROVE  TypeOK' /\ SlotsHoldItems'
<1> USE SchedulingAssumption DEF TypeOK, SlotsHoldItems, channels
<1>0. queue \in QueueType /\ held[e] \in Seq(Item) /\ monitor \in Seq(Trace)
  BY DEF QueueType, Trace
<1>1. CASE Receive(e)
  <2>1. Head(queue.ready) \in Item /\ queue' \in QueueType
    BY <1>0, <1>1, QueueOperations DEF Receive, CanTake, QueueType, Take
  <2>2. held' \in [Executor -> Seq(Item)]
    BY <1>1, <2>1, HeldType DEF Receive
  <2> QED BY <1>1, <2>1, <2>2 DEF Receive, QueueType
<1>2. CASE Refuse(e)
  <2>1. Head(held[e]) \in Item /\ held' \in [Executor -> Seq(Item)]
    BY <1>2, HeldType DEF Refuse
  <2>2. queue' \in QueueType
    BY <1>0, <1>2, <2>1, GivenBackType DEF Refuse
  <2> QED BY <1>2, <2>1, <2>2 DEF Refuse, QueueType
<1>3. CASE GiveBack(e)
  <2>1. Head(held[e]) \in Item /\ held' \in [Executor -> Seq(Item)]
    BY <1>3, HeldType DEF GiveBack
  <2>2. queue' \in QueueType
    BY <1>0, <1>3, <2>1, GivenBackType DEF GiveBack
  <2> QED BY <1>3, <2>1, <2>2 DEF GiveBack, QueueType
<1>4. CASE PublishOffline(e)
  BY <1>4 DEF PublishOffline, Absent
<1>5. ASSUME NEW p \in Places, p[1] = e, Start(p) PROVE TypeOK' /\ SlotsHoldItems'
  <2>1. Head(held[e]) \in Item /\ held' \in [Executor -> Seq(Item)]
    BY <1>5, HeldType DEF Start
  <2>2. \E phase \in {"run", "ack", "nack"} :
          slot' = [slot EXCEPT ![p] = [item |-> Head(held[e]), phase |-> phase]]
    BY <1>5 DEF Start
  <2>3. monitor' \in Seq(Trace) /\ Len(monitor') <= Room /\ left' \in 0 .. MaxFaults
    <3>1. \A type \in {"started", "failed"} : [type |-> type, task |-> Head(held[e]).task] \in Trace
      BY <2>1 DEF Trace, Item
    <3>2. \/ Send(monitor, monitor', [type |-> "started", task |-> Head(held[e]).task])
          \/ /\ \E fault \in Faults : Fault(fault)
             /\ Publish(monitor, monitor', [type |-> "failed", task |-> Head(held[e]).task])
      BY <1>5 DEF Start, Fault
    <3> QED BY <1>0, <3>1, <3>2, SendType, ReportType
  <2> QED BY SMTT(30), <1>5, <2>1, <2>2, <2>3 DEF Start, Trace
<1>6. ASSUME NEW p \in Places, p[1] = e, Finish(p) PROVE TypeOK' /\ SlotsHoldItems'
  <2>1. slot[p].item \in Item /\ slot[p].item.task \in Task
    BY <1>6 DEF Finish, Item
  <2>2. \E phase \in {"ack", "nack"} : slot' = [slot EXCEPT ![p].phase = phase]
    BY <1>6 DEF Finish
  <2>3. monitor' \in Seq(Trace) /\ Len(monitor') <= Room /\ left' \in 0 .. MaxFaults
    <3>1. \A type \in {"completed", "failed"} : [type |-> type, task |-> slot[p].item.task] \in Trace
      BY <2>1 DEF Trace
    <3>2. \/ Send(monitor, monitor', [type |-> "completed", task |-> slot[p].item.task])
          \/ /\ Fine \/ \E fault \in Faults : Fault(fault)
             /\ \/ UNCHANGED monitor
                \/ Publish(monitor, monitor', [type |-> "failed", task |-> slot[p].item.task])
      BY <1>6 DEF Finish, Fault
    <3>3. (Fine \/ \E fault \in Faults : Fault(fault)) => left' \in 0 .. MaxFaults
      BY SchedulingAssumption DEF Fine, Fault
    <3> QED BY <1>0, <3>1, <3>2, <3>3, SendType, ReportType
  <2>4. done' \in SUBSET Task
    BY <1>6, <2>1 DEF Finish
  <2>5. /\ slot' \in [Places -> [item : Item \cup {NoItem}, phase : {"idle", "run", "ack", "nack"}]]
        /\ SlotsHoldItems'
    <3>1. PICK phase \in {"ack", "nack"} : slot' = [slot EXCEPT ![p].phase = phase]
      BY <2>2
    <3>2. slot \in [Places -> SlotType]
      BY DEF SlotType
    <3> HIDE DEF TypeOK
    <3>3. phase \in {"run", "ack", "nack"}
      OBVIOUS
    <3>4. [slot EXCEPT ![p].phase = phase] \in [Places -> SlotType]
      BY <3>2, <3>3, SlotPhase
    <3>5. slot' \in [Places -> SlotType]
      BY <3>1, <3>4
    <3>6. SlotsHoldItems'
      BY <2>1, <3>1, <3>2, SlotPhase
    <3> QED BY <3>5, <3>6 DEF SlotType
  <2> QED BY <1>6, <2>3, <2>4, <2>5 DEF Finish, Trace
<1>7. ASSUME NEW p \in Places, p[1] = e, Settle(p) PROVE TypeOK' /\ SlotsHoldItems'
  <2>1. slot[p].item \in Item
    BY <1>7 DEF Settle
  <2>2. queue' \in QueueType
    <3>1. \/ UNCHANGED queue
          \/ queue' = Ack(queue, slot[p].item)
          \/ \E id \in NackIds(slot[p].item) : queue' = Nack(queue, slot[p].item, id)
      BY <1>7 DEF Settle
    <3>2. Ack(queue, slot[p].item) \in QueueType
      BY <1>0, <2>1 DEF Ack, QueueType
    <3> QED BY <1>0, <2>1, <3>1, <3>2, GivenBackType
  <2> QED BY <1>7, <2>2 DEF Settle, QueueType, Idle
<1> QED BY <1>1, <1>2, <1>3, <1>4, <1>5, <1>6, <1>7 DEF Runtime

\* Executors coming and going, late deliveries, a new mastermind process.
LEMMA EnvironmentType ==
  ASSUME TypeOK, SlotsHoldItems, Environment
  PROVE  TypeOK' /\ SlotsHoldItems'
<1> USE SchedulingAssumption DEF TypeOK, SlotsHoldItems, channels, workers, Fault, Absent
<1>1. CASE Restart
  BY <1>1, TreeType, RecordType DEF Restart, Nothing
<1>2. ASSUME NEW e \in Executor, Register(e) PROVE TypeOK' /\ SlotsHoldItems'
  BY <1>2 DEF Register
<1>3. ASSUME NEW e \in Executor, Heartbeat(e) PROVE TypeOK' /\ SlotsHoldItems'
  BY <1>3, LoadType DEF Heartbeat
<1>4. ASSUME NEW e \in Executor, Expire(e) PROVE TypeOK' /\ SlotsHoldItems'
  BY <1>4 DEF Expire
<1>5. ASSUME NEW e \in Executor, ReceiveAgain(e) PROVE TypeOK' /\ SlotsHoldItems'
  <2>1. PICK item \in queue.taken : held' = [held EXCEPT ![e] = Append(@, item)]
    BY <1>5 DEF ReceiveAgain, Overdue
  <2>2. held' \in [Executor -> Seq(Item)]
    BY <2>1, HeldType
  <2> QED BY <1>5, <2>2 DEF ReceiveAgain
<1>6. ASSUME NEW e \in Executor, Stop(e) PROVE TypeOK' /\ SlotsHoldItems'
  BY <1>6 DEF Stop
<1> QED BY <1>1, <1>2, <1>3, <1>4, <1>5, <1>6 DEF Environment

LEMMA QueueTypeInvariant == Spec => [](TypeOK /\ SlotsHoldItems)
<1>1. Init => TypeOK /\ SlotsHoldItems
  BY SchedulingAssumption, RecordType, TreeType
     DEF Init, TypeOK, SlotsHoldItems, Nothing, Absent, EmptyQueue, Idle, EmptyScheduler, SchedulerType
<1>2. TypeOK /\ SlotsHoldItems /\ [Next]_vars => TypeOK' /\ SlotsHoldItems'
  <2> SUFFICES ASSUME TypeOK, SlotsHoldItems, [Next]_vars PROVE TypeOK' /\ SlotsHoldItems'
    OBVIOUS
  <2>1. CASE Mastermind
    <3>1. UNCHANGED slot
      BY <2>1 DEF Mastermind, SyncTaskGraphs, HandleSnapshot, HandleDiff, HandleMonitor, workers,
                  HandleStatusUpdate, Plan, MarkEnqueued, ReportBlocked, EnqueueTask
    <3> QED BY <2>1, <3>1, MastermindType DEF SlotsHoldItems
  <2>2. CASE \E e \in Executor : Runtime(e)
    BY <2>2, RuntimeType
  <2>3. CASE Environment
    BY <2>3, EnvironmentType
  <2>4. CASE UNCHANGED vars
    BY <2>4 DEF vars, channels, workers, TypeOK, SlotsHoldItems
  <2> QED BY <2>1, <2>2, <2>3, <2>4 DEF Next
<1> QED BY <1>1, <1>2, PTL DEF Spec

\* Whatever is lost, repeated or late, every channel, queue and slot holds what it
\* is made for, and a channel never more than it has room for.
THEOREM QueueTypeCorrect == Spec => []TypeOK
BY QueueTypeInvariant, PTL

-----------------------------------------------------------------------------
(* A task runs only after its parent and the tasks its node depends on.     *)

\* The tasks a tree calls closed were completed.
Completed(tree) == \A t \in DOMAIN tree : tree[t] = "closed" => t \in done

\* Everything the mastermind knows or has been told calls only completed tasks
\* closed: the tracker, the trees under way, the scheduler's record, the events.
ClosedIsDone ==
  /\ Completed(tracker) /\ Completed(previous) /\ Completed(sched.node)
  /\ \A i \in DOMAIN snapshots : Completed(snapshots[i])
  /\ \A i \in DOMAIN diffs : Completed(diffs[i].upsert)
  /\ \A i \in DOMAIN monitor : monitor[i].type = "completed" => monitor[i].task \in done
  /\ \A i \in DOMAIN updates : updates[i].status = "closed" => updates[i].task \in done

Released(t) == Dependencies(t) \subseteq done

QueueReleased(q) == /\ \A i \in DOMAIN q.ready : Released(q.ready[i].task)
                    /\ \A item \in q.taken : Released(item.task)

\* Every task on its way to a runner has its dependencies behind it.
OnlyReleased ==
  /\ \A t \in todo.send : Released(t)
  /\ QueueReleased(queue)
  /\ \A e \in Executor : \A i \in DOMAIN held[e] : Released(held[e][i].task)
  /\ \A p \in Places : slot[p].phase # "idle" => Released(slot[p].item.task)

DependencyInv == ClosedIsDone /\ OnlyReleased

\* What is in a channel after a step was in it before or has just been sent.
LEMMA ChannelElements ==
  ASSUME NEW S, NEW c \in Seq(S)
  PROVE  /\ c # <<>> => /\ \E i \in DOMAIN c : Head(c) = c[i]
                        /\ \A i \in DOMAIN Tail(c) : \E j \in DOMAIN c : Tail(c)[i] = c[j]
         /\ \A e \in S : \A i \in DOMAIN Append(c, e) :
               Append(c, e)[i] = e \/ \E j \in DOMAIN c : Append(c, e)[i] = c[j]
<1>1. c # <<>> => \E i \in DOMAIN c : Head(c) = c[i]
  <2>1. c # <<>> => 1 \in DOMAIN c /\ Head(c) = c[1]
    OBVIOUS
  <2> QED BY <2>1
<1>2. ASSUME c # <<>>, NEW i \in DOMAIN Tail(c) PROVE \E j \in DOMAIN c : Tail(c)[i] = c[j]
  <2>1. i + 1 \in DOMAIN c /\ Tail(c)[i] = c[i + 1]
    BY <1>2
  <2> QED BY <2>1
<1>3. ASSUME NEW e \in S, NEW i \in DOMAIN Append(c, e)
      PROVE  Append(c, e)[i] = e \/ \E j \in DOMAIN c : Append(c, e)[i] = c[j]
  <2>1. i \in DOMAIN c \/ i = Len(c) + 1
    BY <1>3
  <2>2. i \in DOMAIN c => Append(c, e)[i] = c[i]
    OBVIOUS
  <2>3. i = Len(c) + 1 => Append(c, e)[i] = e
    OBVIOUS
  <2> QED BY <2>1, <2>2, <2>3
<1> QED BY <1>1, <1>2, <1>3

LEMMA SentElements ==
  ASSUME NEW S, NEW c \in Seq(S), NEW event \in S, NEW d,
         Send(c, d, event) \/ Publish(c, d, event)
  PROVE  \A i \in DOMAIN d : d[i] = event \/ \E j \in DOMAIN c : d[i] = c[j]
BY ChannelElements DEF Send, Publish, Lose

\* No event closes a node of a task that was not completed.
LEMMA RecordIsDone ==
  ASSUME NEW s \in SchedulerType, Completed(s.node)
  PROVE  /\ \A tree \in Trees : Completed(tree) => Completed(ApplySnapshot(s, tree).node)
         /\ \A diff \in Difference : Completed(diff.upsert) => Completed(ApplyDiff(s, diff).node)
         /\ \A t \in Task : /\ Completed(TaskStarted(s, t).node)
                            /\ Completed(TaskFailed(s, t).node)
                            /\ t \in done => Completed(TaskCompleted(s, t).node)
         /\ \A matched : AfterPlan(s, matched).node = s.node
         /\ Completed(EmptyScheduler.node) /\ Completed(NoGraph)
<1>1. \A r \in SchedulerType : PruneState(r).node = r.node
  BY UnmarkType DEF PruneState
<1>2. ASSUME NEW tree \in Trees, Completed(tree) PROVE Completed(ApplySnapshot(s, tree).node)
  <2>1. [s EXCEPT !.node = tree] \in SchedulerType /\ [s EXCEPT !.node = tree].node = tree
    BY DEF SchedulerType
  <2> QED BY <1>1, <1>2, <2>1 DEF ApplySnapshot
<1>3. ASSUME NEW diff \in Difference, Completed(diff.upsert) PROVE Completed(ApplyDiff(s, diff).node)
  <2> DEFINE kept == (DOMAIN s.node \cup DOMAIN diff.upsert) \ diff.delete
             node == [t \in kept |-> IF t \in DOMAIN diff.upsert THEN diff.upsert[t] ELSE s.node[t]]
  <2>1. s.node \in Trees /\ diff.upsert \in Trees
    BY DEF SchedulerType, Difference
  <2>2. kept \subseteq Task /\ node \in [kept -> Status]
    BY <2>1, TreeType
  <2>3. node \in Trees /\ Completed(node)
    BY <1>3, <2>1, <2>2, TreeType DEF Completed
  <2>4. /\ [Unmark(s, diff.delete) EXCEPT !.node = node] \in SchedulerType
        /\ [Unmark(s, diff.delete) EXCEPT !.node = node].node = node
    BY <2>3, UnmarkType DEF SchedulerType
  <2> QED BY <1>1, <2>3, <2>4 DEF ApplyDiff
<1>4. ASSUME NEW t \in Task, NEW status \in Status, status = "closed" => t \in done
      PROVE  SetNode(s, t, status) \in SchedulerType /\ Completed(SetNode(s, t, status).node)
  <2> DEFINE node == [u \in DOMAIN s.node |-> IF u = t THEN status ELSE s.node[u]]
  <2>1. s.node \in Trees
    BY DEF SchedulerType
  <2>2. node \in Trees /\ Completed(node)
    BY <1>4, <2>1, TreeType DEF Completed
  <2>3. [s EXCEPT !.node = node] \in SchedulerType /\ [s EXCEPT !.node = node].node = node
    BY <2>2 DEF SchedulerType
  <2> QED BY <2>2, <2>3 DEF SetNode
<1>5. ASSUME NEW t \in Task
      PROVE  /\ Completed(TaskStarted(s, t).node) /\ Completed(TaskFailed(s, t).node)
             /\ t \in done => Completed(TaskCompleted(s, t).node)
  <2>1. \A r \in SchedulerType :
          /\ [r EXCEPT !.enqueued = @ \ {t}, !.inProgress = @ \cup {t}].node = r.node
          /\ [r EXCEPT !.enqueued = @ \ {t}, !.inProgress = @ \ {t}].node = r.node
    BY DEF SchedulerType
  <2> QED BY <1>4, <2>1, UnmarkType DEF TaskStarted, TaskFailed, TaskCompleted, Status
<1>6. \A matched : AfterPlan(s, matched).node = s.node
  BY DEF AfterPlan, SchedulerType
<1>7. Completed(EmptyScheduler.node) /\ Completed(NoGraph)
  BY DEF Completed, EmptyScheduler, NoGraph
<1> QED BY <1>2, <1>3, <1>5, <1>6, <1>7

\* What the mastermind is told, it is told truly.
LEMMA MastermindKeepsClosed ==
  ASSUME TypeOK, ClosedIsDone, Mastermind
  PROVE  ClosedIsDone'
<1> USE DEF ClosedIsDone, channels, workers
<1>0. /\ tracker \in Trees /\ previous \in Trees /\ NoGraph \in Trees /\ sched \in SchedulerType
      /\ snapshots \in Seq(Trees) /\ diffs \in Seq(Difference)
      /\ monitor \in Seq(Trace) /\ updates \in Seq(Update)
  BY TreeType DEF TypeOK, Difference, Trace, Update
<1>a. UNCHANGED done
  BY DEF Mastermind, SyncTaskGraphs, HandleSnapshot, HandleDiff, HandleMonitor,
         HandleStatusUpdate, Plan, MarkEnqueued, ReportBlocked, EnqueueTask
<1>b. \A tree : Completed(tree) => Completed(tree)'
  BY <1>a DEF Completed
<1>1. CASE SyncTaskGraphs
  <2>1. PICK tree \in {tracker, NoGraph} :
          /\ Publish(snapshots, snapshots', tree)
          /\ UNCHANGED diffs \/ Publish(diffs, diffs', Changed(previous, tree))
          /\ previous' = tree
          /\ UNCHANGED <<tracker, sched, monitor, updates>>
    BY <1>1 DEF SyncTaskGraphs
  <2>2. tree \in Trees /\ Completed(tree)
    BY <1>0, RecordIsDone
  <2>3. Changed(previous, tree) \in Difference /\ Completed(Changed(previous, tree).upsert)
    <3>1. /\ DOMAIN Changed(previous, tree).upsert \subseteq DOMAIN tree
          /\ \A t \in DOMAIN Changed(previous, tree).upsert : Changed(previous, tree).upsert[t] = tree[t]
      BY DEF Changed, Restrict
    <3> QED BY <1>0, <2>2, <3>1, ChangedType DEF Completed
  <2>4. \A i \in DOMAIN snapshots' : Completed(snapshots'[i])
    BY <1>0, <2>1, <2>2, SentElements
  <2>5. \A i \in DOMAIN diffs' : Completed(diffs'[i].upsert)
    <3>1. \A i \in DOMAIN diffs' : \/ diffs'[i] = Changed(previous, tree)
                                   \/ \E j \in DOMAIN diffs : diffs'[i] = diffs[j]
      <4> HIDE DEF ClosedIsDone
      <4> QED BY <1>0, <2>1, <2>3, SentElements
    <3> QED BY <2>3, <3>1
  <2> QED BY <1>a, <2>1, <2>2, <2>4, <2>5 DEF Completed
<1>2. CASE HandleSnapshot
  <2>1. Head(snapshots) \in Trees /\ Completed(Head(snapshots))
    BY <1>0, <1>2, ChannelElements DEF HandleSnapshot
  <2>2. Completed(sched'.node)
    BY <1>0, <1>2, <2>1, RecordIsDone DEF HandleSnapshot
  <2>3. \A i \in DOMAIN snapshots' : Completed(snapshots'[i])
    BY <1>0, <1>2, ChannelElements DEF HandleSnapshot
  <2> QED BY <1>2, <2>2, <2>3 DEF HandleSnapshot, Completed
<1>3. CASE HandleDiff
  <2>1. Head(diffs) \in Difference /\ Completed(Head(diffs).upsert)
    BY <1>0, <1>3, ChannelElements DEF HandleDiff
  <2>2. Completed(sched'.node)
    BY <1>0, <1>3, <2>1, RecordIsDone DEF HandleDiff
  <2>3. \A i \in DOMAIN diffs' : Completed(diffs'[i].upsert)
    BY <1>0, <1>3, ChannelElements DEF HandleDiff
  <2> QED BY <1>3, <2>2, <2>3 DEF HandleDiff, Completed
<1>4. CASE HandleMonitor
  <2> DEFINE event == Head(monitor)
  <2>1. /\ event.type \in {"started", "completed", "failed"} /\ event.task \in Task
        /\ event.type = "completed" => event.task \in done
        /\ \A i \in DOMAIN monitor' : \E j \in DOMAIN monitor : monitor'[i] = monitor[j]
    <3>1. event \in Trace
      BY <1>0, <1>4 DEF HandleMonitor
    <3>2. event.type = "completed" => event.task \in done
      BY <1>0, <1>4, ChannelElements DEF HandleMonitor
    <3>3. \A i \in DOMAIN monitor' : \E j \in DOMAIN monitor : monitor'[i] = monitor[j]
      <4>1. monitor # <<>> /\ monitor' = Tail(monitor)
        BY <1>4 DEF HandleMonitor
      <4> HIDE DEF ClosedIsDone
      <4> QED BY <1>0, <4>1, ChannelElements
    <3> QED BY <3>1, <3>2, <3>3 DEF Trace
  <2>2. Completed(sched'.node)
    <3>1. \/ sched' = TaskStarted(sched, event.task) \/ sched' = TaskFailed(sched, event.task)
          \/ event.task \in done /\ sched' = TaskCompleted(sched, event.task)
      BY <1>4, <2>1 DEF HandleMonitor
    <3> QED BY <1>0, <2>1, <3>1, RecordIsDone
  <2>3. \A i \in DOMAIN updates' : updates'[i].status = "closed" => updates'[i].task \in done
    <3>1. \/ UNCHANGED updates
          \/ \E status \in Status : /\ Send(updates, updates', [task |-> event.task, status |-> status])
                                    /\ status = "closed" => event.task \in done
      BY <1>4, <2>1 DEF HandleMonitor, Status
    <3>2. \A status \in Status : [task |-> event.task, status |-> status] \in Update
      BY <2>1 DEF Update
    <3>3. ASSUME NEW status \in Status, status = "closed" => event.task \in done,
                 Send(updates, updates', [task |-> event.task, status |-> status])
          PROVE  \A i \in DOMAIN updates' : updates'[i].status = "closed" => updates'[i].task \in done
      <4>1. \A i \in DOMAIN updates' : \/ updates'[i] = [task |-> event.task, status |-> status]
                                       \/ \E j \in DOMAIN updates : updates'[i] = updates[j]
        BY <1>0, <3>2, <3>3, SentElements
      <4> QED BY <3>3, <4>1
    <3> QED BY <3>1, <3>3
  <2>4. \A i \in DOMAIN monitor' : monitor'[i].type = "completed" => monitor'[i].task \in done
    BY <2>1
  <2> QED BY <1>4, <1>a, <2>2, <2>3, <2>4 DEF HandleMonitor, Completed
<1>5. CASE HandleStatusUpdate
  <2>1. /\ Head(updates) \in Update
        /\ Head(updates).status = "closed" => Head(updates).task \in done
        /\ \A i \in DOMAIN updates' : \E j \in DOMAIN updates : updates'[i] = updates[j]
    BY <1>0, <1>5, ChannelElements DEF HandleStatusUpdate
  <2>2. Completed(tracker')
    <3>1. Shown(Head(updates).status) = "closed" => Head(updates).task \in done
      BY <2>1, ShownStatus DEF Update
    <3>2. \/ tracker' = [tracker EXCEPT ![Head(updates).task] = Shown(Head(updates).status)]
          \/ UNCHANGED tracker
      BY <1>5 DEF HandleStatusUpdate
    <3> QED BY <3>1, <3>2 DEF Completed, TypeOK
  <2>3. \A i \in DOMAIN updates' : updates'[i].status = "closed" => updates'[i].task \in done
    BY <2>1
  <2> QED BY <1>5, <2>2, <2>3 DEF HandleStatusUpdate, Completed
<1>6. CASE Plan \/ MarkEnqueued
  <2>1. sched'.node = sched.node
    BY <1>0, <1>6, RecordIsDone DEF Plan, MarkEnqueued, SchedulerType
  <2> QED BY <1>6, <2>1 DEF Plan, MarkEnqueued, Completed
<1>7. ASSUME NEW t \in Task, ReportBlocked(t) PROVE ClosedIsDone'
  <2>1. sched'.node = sched.node
    BY <1>0, <1>7 DEF ReportBlocked, SchedulerType
  <2>2. \A i \in DOMAIN updates' : updates'[i].status = "closed" => updates'[i].task \in done
    <3>1. [task |-> t, status |-> "blocked"] \in Update
      BY DEF Update, Status
    <3> QED BY SMTT(30), <1>0, <1>7, <3>1, SentElements DEF ReportBlocked
  <2> QED BY <1>7, <2>1, <2>2 DEF ReportBlocked, Completed
<1>8. ASSUME NEW t \in Task, EnqueueTask(t) PROVE ClosedIsDone'
  BY <1>8 DEF EnqueueTask, Completed
<1> QED BY <1>1, <1>2, <1>3, <1>4, <1>5, <1>6, <1>7, <1>8 DEF Mastermind

\* A round sends out only tasks whose dependencies it knows to be closed: the step at
\* which "closed in the record" must mean "completed".
LEMMA PlansReleased ==
  ASSUME sched \in SchedulerType, Completed(sched.node),
         NEW free, NEW matched, NEW plan \in Plans(sched, free, matched)
  PROVE  plan.send \subseteq Task /\ \A t \in plan.send : Released(t)
<1>1. plan.send \subseteq RunnableCandidates(sched) /\ DOMAIN sched.node \subseteq Task
  BY PlansType, TreeType DEF SchedulerType
<1>2. ASSUME NEW t \in RunnableCandidates(sched) PROVE Released(t)
  <2>1. \A d \in Dependencies(t) : d \in DOMAIN sched.node /\ sched.node[d] = "closed"
    BY <1>2 DEF RunnableCandidates, DependenciesSatisfied
  <2> QED BY <2>1 DEF Released, Completed
<1> QED BY <1>1, <1>2 DEF RunnableCandidates

\* Every way an item comes into the queue or moves in it.
LEMMA QueueKeepsReleased ==
  ASSUME NEW q \in QueueType, QueueReleased(q), NEW item \in Item, Released(item.task), NEW id \in Ids
  PROVE  /\ QueueReleased(Enqueue(q, item)) /\ QueueReleased(Ack(q, item))
         /\ QueueReleased(Nack(q, item, id))
<1>1. ASSUME NEW r \in QueueType, QueueReleased(r), NEW i \in Item, Released(i.task)
      PROVE  QueueReleased(Enqueue(r, i)) /\ QueueReleased(Ack(r, i))
  <2>1. r.ready \in Seq(Item)
    BY DEF QueueType
  <2>2. \A k \in DOMAIN Append(r.ready, i) : Released(Append(r.ready, i)[k].task)
    BY <1>1, <2>1, ChannelElements DEF QueueReleased
  <2>3. Enqueue(r, i).ready = Append(r.ready, i) /\ Enqueue(r, i).taken = r.taken
    BY DEF Enqueue, QueueType
  <2>4. Ack(r, i).ready = r.ready /\ Ack(r, i).taken \subseteq r.taken
    BY DEF Ack, QueueType
  <2> QED BY <1>1, <2>2, <2>3, <2>4 DEF QueueReleased
<1>2. [item EXCEPT !.id = id] \in Item /\ [item EXCEPT !.id = id].task = item.task
  BY DEF Item
<1>3. QueueReleased(Nack(q, item, id))
  <2>1. Ack(q, item) \in QueueType /\ QueueReleased(Ack(q, item))
    BY <1>1, QueueOperations
  <2>2. /\ QueueReleased(Enqueue(Ack(q, item), [item EXCEPT !.id = id]))
        /\ QueueReleased(Enqueue(Ack(q, item), item))
    BY <1>1, <1>2, <2>1
  <2> QED BY <2>2 DEF Nack
<1> QED BY <1>1, <1>3

LEMMA TakenIsReleased ==
  ASSUME NEW q \in QueueType, QueueReleased(q), CanTake(q)
  PROVE  Head(q.ready) \in Item /\ Released(Head(q.ready).task) /\ QueueReleased(Take(q))
<1>1. q.ready \in Seq(Item) /\ q.ready # <<>>
  BY DEF QueueType, CanTake
<1>2. /\ Released(Head(q.ready).task)
      /\ \A k \in DOMAIN Tail(q.ready) : Released(Tail(q.ready)[k].task)
  BY <1>1, ChannelElements DEF QueueReleased
<1> QED BY <1>1, <1>2 DEF QueueReleased, Take

LEMMA MastermindKeepsReleased ==
  ASSUME TypeOK, ClosedIsDone, OnlyReleased, Mastermind
  PROVE  OnlyReleased'
<1> USE DEF OnlyReleased, QueueReleased, channels, workers
<1>1. CASE SyncTaskGraphs \/ HandleSnapshot \/ HandleDiff \/ HandleMonitor \/ HandleStatusUpdate
  BY <1>1 DEF SyncTaskGraphs, HandleSnapshot, HandleDiff, HandleMonitor, HandleStatusUpdate, Released
<1>2. CASE Plan
  <2>1. sched \in SchedulerType /\ Completed(sched.node)
    BY DEF TypeOK, ClosedIsDone
  <2>2. \A t \in todo'.send : Released(t)
    BY <1>2, <2>1, PlansReleased DEF Plan
  <2> QED BY <1>2, <2>2 DEF Plan, Released
<1>3. CASE MarkEnqueued
  <2>1. todo'.send = todo.send
    BY <1>3 DEF MarkEnqueued, TypeOK
  <2> QED BY <1>3, <2>1 DEF MarkEnqueued, Released
<1>4. ASSUME NEW t \in Task, ReportBlocked(t) PROVE OnlyReleased'
  <2>1. todo'.send = todo.send
    BY <1>4 DEF ReportBlocked, TypeOK
  <2> QED BY <1>4, <2>1 DEF ReportBlocked, Released
<1>5. ASSUME NEW t \in Task, EnqueueTask(t) PROVE OnlyReleased'
  <2>1. todo'.send \subseteq todo.send /\ Released(t)
    BY <1>5 DEF EnqueueTask, TypeOK
  <2>2. PICK id \in FreeIds : queue' = Enqueue(queue, [id |-> id, task |-> t])
    BY <1>5 DEF EnqueueTask
  <2>3. [id |-> id, task |-> t] \in Item /\ id \in Ids
    BY DEF FreeIds, Item
  <2>4. queue \in QueueType
    BY DEF TypeOK, QueueType
  <2> HIDE DEF QueueReleased
  <2>5. QueueReleased(queue')
    BY <2>1, <2>2, <2>3, <2>4, QueueKeepsReleased
  <2> QED BY <1>5, <2>1, <2>5 DEF EnqueueTask, Released, QueueReleased
<1> QED BY <1>1, <1>2, <1>3, <1>4, <1>5 DEF Mastermind

\* An executor's hands: an item comes from the queue, a slot's item from the hands.
LEMMA HeldReleased ==
  ASSUME held \in [Executor -> Seq(Item)], NEW e \in Executor,
         \A f \in Executor : \A i \in DOMAIN held[f] : Released(held[f][i].task)
  PROVE  /\ held[e] # <<>> =>
               /\ Released(Head(held[e]).task)
               /\ held' = [held EXCEPT ![e] = Tail(@)] =>
                    \A f \in Executor : \A i \in DOMAIN held'[f] : Released(held'[f][i].task)
         /\ \A item \in Item :
              Released(item.task) /\ held' = [held EXCEPT ![e] = Append(@, item)] =>
                \A f \in Executor : \A i \in DOMAIN held'[f] : Released(held'[f][i].task)
<1>1. held[e] \in Seq(Item)
  OBVIOUS
<1>2. held[e] # <<>> => /\ Released(Head(held[e]).task)
                        /\ \A i \in DOMAIN Tail(held[e]) : Released(Tail(held[e])[i].task)
  BY <1>1, ChannelElements
<1>3. \A item \in Item : Released(item.task) =>
        \A i \in DOMAIN Append(held[e], item) : Released(Append(held[e], item)[i].task)
  BY <1>1, ChannelElements
<1> QED BY <1>2, <1>3

\* A runner that ends says so once the task is done; what an executor takes up is what
\* the queue gave it.
LEMMA RuntimeKeepsDependencies ==
  ASSUME TypeOK, SlotsHoldItems, ClosedIsDone, OnlyReleased, NEW e \in Executor, Runtime(e)
  PROVE  ClosedIsDone' /\ OnlyReleased'
<1>0. /\ queue \in QueueType /\ QueueReleased(queue) /\ held[e] \in Seq(Item)
      /\ held \in [Executor -> Seq(Item)] /\ monitor \in Seq(Trace)
      /\ \A f \in Executor : \A i \in DOMAIN held[f] : Released(held[f][i].task)
  BY DEF TypeOK, QueueType, OnlyReleased, Trace
<1>1. CASE Receive(e) \/ Refuse(e) \/ GiveBack(e) \/ PublishOffline(e)
  <2>1. ClosedIsDone'
    BY <1>1 DEF Receive, Refuse, GiveBack, PublishOffline, ClosedIsDone, Completed, channels
  <2>2. CASE Receive(e)
    <3>1. Head(queue.ready) \in Item /\ Released(Head(queue.ready).task) /\ QueueReleased(queue')
      BY <1>0, <2>2, TakenIsReleased DEF Receive
    <3>2. \A f \in Executor : \A i \in DOMAIN held'[f] : Released(held'[f][i].task)
      BY <1>0, <2>2, <3>1, HeldReleased DEF Receive
    <3> QED BY <2>1, <2>2, <3>1, <3>2 DEF Receive, OnlyReleased, QueueReleased, Released
  <2>3. CASE Refuse(e) \/ GiveBack(e)
    <3>1. /\ held[e] # <<>> /\ held' = [held EXCEPT ![e] = Tail(@)]
          /\ \E id \in NackIds(Head(held[e])) : queue' = Nack(queue, Head(held[e]), id)
      BY <2>3 DEF Refuse, GiveBack
    <3>2. Head(held[e]) \in Item /\ Released(Head(held[e]).task)
      BY <1>0, <3>1, HeldReleased
    <3>3. QueueReleased(queue')
      BY <1>0, <3>1, <3>2, QueueKeepsReleased, IdentityType
    <3>4. \A f \in Executor : \A i \in DOMAIN held'[f] : Released(held'[f][i].task)
      BY <1>0, <3>1, HeldReleased
    <3> QED BY <2>1, <2>3, <3>3, <3>4 DEF Refuse, GiveBack, OnlyReleased, QueueReleased, Released
  <2>4. CASE PublishOffline(e)
    <3>1. \A f \in Executor : \A i \in DOMAIN held'[f] : Released(held'[f][i].task)
      BY <1>0, <2>4 DEF PublishOffline
    <3> QED BY <2>1, <2>4, <3>1 DEF PublishOffline, OnlyReleased, QueueReleased, Released
  <2> QED BY <1>1, <2>2, <2>3, <2>4
<1>2. ASSUME NEW p \in Places, p[1] = e, Start(p) PROVE ClosedIsDone' /\ OnlyReleased'
  <2>1. held[e] # <<>> /\ held' = [held EXCEPT ![e] = Tail(@)] /\ UNCHANGED <<queue, todo, done>>
    BY <1>2 DEF Start
  <2>2. Head(held[e]) \in Item /\ Released(Head(held[e]).task)
    BY <1>0, <2>1, HeldReleased
  <2>3. \A f \in Executor : \A i \in DOMAIN held'[f] : Released(held'[f][i].task)
    BY <1>0, <2>1, HeldReleased
  <2>4. \A q \in Places : slot'[q].phase # "idle" => Released(slot'[q].item.task)
    <3>1. PICK phase : slot' = [slot EXCEPT ![p] = [item |-> Head(held[e]), phase |-> phase]]
      BY <1>2 DEF Start
    <3>2. \A q \in Places : slot'[q] = IF q = p THEN [item |-> Head(held[e]), phase |-> phase]
                                              ELSE slot[q]
      BY <3>1 DEF TypeOK
    <3>3. \A q \in Places : slot[q].phase # "idle" => Released(slot[q].item.task)
      BY DEF OnlyReleased
    <3> QED BY <2>2, <3>2, <3>3
  <2>5. OnlyReleased'
    BY <2>1, <2>3, <2>4, <1>0 DEF OnlyReleased, QueueReleased, Released
  <2>6. \A i \in DOMAIN monitor' : monitor'[i].type = "completed" => monitor'[i].task \in done
    <3>1. \A type \in {"started", "failed"} : [type |-> type, task |-> Head(held[e]).task] \in Trace
      BY <2>2 DEF Trace, Item
    <3>2. PICK type \in {"started", "failed"} :
            \/ Send(monitor, monitor', [type |-> type, task |-> Head(held[e]).task])
            \/ Publish(monitor, monitor', [type |-> type, task |-> Head(held[e]).task])
      BY <1>2 DEF Start
    <3>3. \A i \in DOMAIN monitor' : \/ monitor'[i] = [type |-> type, task |-> Head(held[e]).task]
                                     \/ \E j \in DOMAIN monitor : monitor'[i] = monitor[j]
      BY <1>0, <3>1, <3>2, SentElements
    <3> QED BY <3>3 DEF ClosedIsDone
  <2>7. ClosedIsDone'
    BY <1>2, <2>6 DEF Start, ClosedIsDone, Completed
  <2> QED BY <2>5, <2>7
<1>3. ASSUME NEW p \in Places, p[1] = e, Finish(p) PROVE ClosedIsDone' /\ OnlyReleased'
  <2> DEFINE task == slot[p].item.task
  <2>1. /\ slot[p].phase = "run" /\ done \subseteq done' /\ UNCHANGED <<queue, todo, held>>
        /\ \E phase \in {"ack", "nack"} : slot' = [slot EXCEPT ![p].phase = phase]
    BY <1>3 DEF Finish
  <2>2. task \in Task /\ \A type \in {"completed", "failed"} : [type |-> type, task |-> task] \in Trace
    BY <2>1 DEF SlotsHoldItems, Item, Trace
  <2>3. \A q \in Places : slot'[q].item = slot[q].item /\ (slot'[q].phase # "idle" => slot[q].phase # "idle")
    <3>1. slot \in [Places -> SlotType]
      BY DEF TypeOK, SlotType
    <3> QED BY <2>1, <3>1, SlotPhase
  <2>4. OnlyReleased'
    BY <2>1, <2>3 DEF OnlyReleased, QueueReleased, Released
  <2>5. \A i \in DOMAIN monitor' : monitor'[i].type = "completed" => monitor'[i].task \in done'
    <3>1. \/ task \in done' /\ Send(monitor, monitor', [type |-> "completed", task |-> task])
          \/ Publish(monitor, monitor', [type |-> "failed", task |-> task])
          \/ UNCHANGED monitor
      BY <1>3 DEF Finish
    <3>2. PICK type \in {"completed", "failed"} :
            /\ type = "completed" => task \in done'
            /\ \/ Send(monitor, monitor', [type |-> type, task |-> task])
               \/ Publish(monitor, monitor', [type |-> type, task |-> task])
               \/ UNCHANGED monitor /\ type = "failed"
      BY <3>1
    <3>3. \A i \in DOMAIN monitor' : \/ monitor'[i] = [type |-> type, task |-> task]
                                     \/ \E j \in DOMAIN monitor : monitor'[i] = monitor[j]
      <4>1. CASE UNCHANGED monitor
        BY <4>1
      <4>2. CASE \/ Send(monitor, monitor', [type |-> type, task |-> task])
                 \/ Publish(monitor, monitor', [type |-> type, task |-> task])
        <5>1. [type |-> type, task |-> task] \in Trace
          BY <2>2
        <5> HIDE DEF task
        <5> QED BY <1>0, <4>2, <5>1, SentElements
      <4> QED BY <3>2, <4>1, <4>2
    <3> QED BY <2>1, <3>2, <3>3 DEF ClosedIsDone
  <2>6. ClosedIsDone'
    BY <1>3, <2>1, <2>5 DEF Finish, ClosedIsDone, Completed
  <2> QED BY <2>4, <2>6
<1>4. ASSUME NEW p \in Places, p[1] = e, Settle(p) PROVE ClosedIsDone' /\ OnlyReleased'
  <2>1. slot[p].item \in Item /\ Released(slot[p].item.task)
    BY <1>4 DEF Settle, SlotsHoldItems, OnlyReleased
  <2>2. QueueReleased(queue')
    <3>1. \/ UNCHANGED queue
          \/ queue' = Ack(queue, slot[p].item)
          \/ \E id \in NackIds(slot[p].item) : queue' = Nack(queue, slot[p].item, id)
      BY <1>4 DEF Settle
    <3>2. Ack(queue, slot[p].item).ready = queue.ready /\ Ack(queue, slot[p].item).taken \subseteq queue.taken
      BY <1>0 DEF Ack, QueueType
    <3>3. QueueReleased(Ack(queue, slot[p].item))
      BY <1>0, <3>2 DEF QueueReleased
    <3> QED BY <1>0, <2>1, <3>1, <3>3, QueueKeepsReleased, IdentityType
  <2>3. \A q \in Places : slot'[q].phase # "idle" => Released(slot'[q].item.task)
    BY <1>4 DEF Settle, OnlyReleased, TypeOK, Idle
  <2>4. OnlyReleased'
    BY <1>4, <2>2, <2>3 DEF Settle, OnlyReleased, QueueReleased, Released
  <2>5. ClosedIsDone'
    BY <1>4 DEF Settle, ClosedIsDone, Completed, channels
  <2> QED BY <2>4, <2>5
<1> QED BY <1>1, <1>2, <1>3, <1>4 DEF Runtime

LEMMA EnvironmentKeepsDependencies ==
  ASSUME TypeOK, ClosedIsDone, OnlyReleased, Environment
  PROVE  ClosedIsDone' /\ OnlyReleased'
<1> USE DEF channels, workers
<1>1. CASE Restart
  BY <1>1 DEF Restart, ClosedIsDone, OnlyReleased, QueueReleased, Released, Completed,
              EmptyScheduler, NoGraph, Nothing
<1>2. ASSUME NEW e \in Executor, Register(e) \/ Heartbeat(e) \/ Expire(e) \/ Stop(e)
      PROVE  ClosedIsDone' /\ OnlyReleased'
  BY <1>2 DEF Register, Heartbeat, Expire, Stop, ClosedIsDone, OnlyReleased, QueueReleased,
              Released, Completed
<1>3. ASSUME NEW e \in Executor, ReceiveAgain(e) PROVE ClosedIsDone' /\ OnlyReleased'
  <2>1. PICK item \in queue.taken : held' = [held EXCEPT ![e] = Append(@, item)]
    BY <1>3 DEF ReceiveAgain, Overdue
  <2>2. item \in Item /\ Released(item.task) /\ held \in [Executor -> Seq(Item)]
    BY DEF TypeOK, OnlyReleased, QueueReleased
  <2>3. \A f \in Executor : \A i \in DOMAIN held'[f] : Released(held'[f][i].task)
    BY <2>1, <2>2, HeldReleased DEF OnlyReleased
  <2> QED BY <1>3, <2>3 DEF ReceiveAgain, ClosedIsDone, OnlyReleased, QueueReleased, Released, Completed
<1> QED BY <1>1, <1>2, <1>3 DEF Environment

LEMMA DependencyInvariant == Spec => [](ClosedIsDone /\ OnlyReleased)
<1>1. Init => ClosedIsDone /\ OnlyReleased
  <2> SUFFICES ASSUME Init PROVE ClosedIsDone /\ OnlyReleased
    OBVIOUS
  <2>1. Completed(tracker)
    BY SchedulingAssumption DEF Init, Completed
  <2>2. Completed(previous) /\ Completed(sched.node)
    BY DEF Init, Completed, EmptyScheduler, NoGraph
  <2>3. ClosedIsDone
    BY <2>1, <2>2 DEF Init, ClosedIsDone
  <2>4. OnlyReleased
    BY DEF Init, OnlyReleased, QueueReleased, Nothing, EmptyQueue, Idle
  <2> QED BY <2>3, <2>4
<1>2. TypeOK /\ SlotsHoldItems /\ ClosedIsDone /\ OnlyReleased /\ [Next]_vars
        => ClosedIsDone' /\ OnlyReleased'
  <2> SUFFICES ASSUME TypeOK, SlotsHoldItems, ClosedIsDone, OnlyReleased, [Next]_vars
               PROVE  ClosedIsDone' /\ OnlyReleased'
    OBVIOUS
  <2>1. CASE Mastermind
    BY <2>1, MastermindKeepsClosed, MastermindKeepsReleased
  <2>2. CASE \E e \in Executor : Runtime(e)
    BY <2>2, RuntimeKeepsDependencies
  <2>3. CASE Environment
    BY <2>3, EnvironmentKeepsDependencies
  <2>4. CASE UNCHANGED vars
    BY <2>4 DEF vars, channels, workers, ClosedIsDone, OnlyReleased, QueueReleased, Released, Completed
  <2> QED BY <2>1, <2>2, <2>3, <2>4 DEF Next
<1> QED BY <1>1, <1>2, QueueTypeInvariant, PTL DEF Spec

\* A task runs only after its parent and every task its node lists under a key the
\* scheduler reads were completed: on every tracker, with lost events, repeated
\* deliveries, expired executors and restarts of the mastermind in any number
\* (Mastermind's candidates, the queue, QueueWorkerRuntime).  Under the key the shipped
\* trackers write nothing but the parent is left of it.
THEOREM DependenciesComeFirst == Spec => []DependenciesFirst
<1>1. OnlyReleased => DependenciesFirst
  BY DEF OnlyReleased, Released, DependenciesFirst, Running
<1> QED BY <1>1, DependencyInvariant, PTL

=============================================================================
