---------------------------- MODULE QueueRuns_proofs ----------------------------
(***************************************************************************)
(* Two executors never run the same task, one that was completed aside when *)
(* the tracker is tk or GitHub: over a bus that delivers once, as           *)
(* long as the tracker can be read, the events are handled in the order the *)
(* ticks published them, no failure is transient and the mastermind is not  *)
(* restarted.  Every other failure may happen, any number of times.         *)
(* And the work queued or running stays within the executors' capacity,     *)
(* whenever trees are handled, while nothing but events and writes is lost. *)
(***************************************************************************)
EXTENDS QueueScheduling_proofs

-----------------------------------------------------------------------------
(* Where a task can be between the round that sends it out and the handling *)
(* of the event that ends it.                                               *)

\* The tasks of a sequence's entries, each of which has one of its own, those in D
\* aside: the tasks a tracker may reopen after they were completed.
TasksOf(c, D)  == {c[i].task : i \in DOMAIN c} \ D
Distinct(c, D) == \A i, j \in DOMAIN c : c[i].task = c[j].task /\ c[i].task \notin D => i = j

\* The tasks whose end a channel's events announce.
Ends(c)          == {i \in DOMAIN c : c[i].type # "started"}
EndsOf(c, D)     == {c[i].task : i \in Ends(c)} \ D
EndsDiffer(c, D) == \A i, j \in Ends(c) : c[i].task = c[j].task /\ c[i].task \notin D => i = j

Sent     == todo.send \ Reopenable
Waiting  == TasksOf(queue.ready, Reopenable)
Taken(e) == TasksOf(held[e], Reopenable)
InHand   == {t \in Task : \E e \in Executor : t \in Taken(e)}
Runs     == {t \in Task \ Reopenable : Running(t) # {}}
Ended    == EndsOf(monitor, Reopenable)
Underway == Sent \cup Waiting \cup InHand \cup Runs \cup Ended

Apart == /\ Sent \cap (Waiting \cup InHand \cup Runs \cup Ended) = {}
         /\ Waiting \cap (InHand \cup Runs \cup Ended) = {}
         /\ InHand \cap (Runs \cup Ended) = {}
         /\ Runs \cap Ended = {}

HandsDiffer == /\ \A e \in Executor : Distinct(held[e], Reopenable)
               /\ \A e, f \in Executor : e # f => Taken(e) \cap Taken(f) = {}

RunsDiffer == \A t \in Task \ Reopenable : \A p, q \in Running(t) : p = q

\* A task is in at most one of these places, once.
OncePlaced == /\ Distinct(queue.ready, Reopenable) /\ HandsDiffer /\ RunsDiffer
              /\ EndsDiffer(monitor, Reopenable) /\ Apart

-----------------------------------------------------------------------------
(* The mastermind's trees follow the tracker.  The statuses of one that     *)
(* shows what it is told never return to "open"; one that does not never    *)
(* shows a blocked task.                                                    *)

TellsAll == BackendType \notin {"tk", "github"}

NotOpen(tree, t) == t \in DOMAIN tree => tree[t] # "open"

\* A tick's snapshot and difference say the same, and what they no longer call open
\* is not open in a tracker that shows what it is told.
TreesFollow ==
  /\ Len(snapshots) <= 1 /\ Len(diffs) <= 1
  /\ \A i \in DOMAIN snapshots : DOMAIN snapshots[i] = Task
  /\ \A i \in DOMAIN diffs : diffs[i].delete = {}
  /\ \A i \in DOMAIN snapshots, j \in DOMAIN diffs : \A t \in DOMAIN diffs[j].upsert :
        diffs[j].upsert[t] = snapshots[i][t]
  /\ \A t \in Task : TellsAll /\ tracker[t] = "open" =>
        /\ \A i \in DOMAIN snapshots : snapshots[i][t] = "open"
        /\ \A i \in DOMAIN diffs : t \in DOMAIN diffs[i].upsert => diffs[i].upsert[t] = "open"
  /\ \A i \in DOMAIN updates : updates[i].status # "open"

NotBlocked(tree) == \A t \in DOMAIN tree : tree[t] # "blocked"

NobodyBlocked ==
  TellsAll \/ /\ NotBlocked(tracker)
              /\ \A i \in DOMAIN snapshots : NotBlocked(snapshots[i])
              /\ \A i \in DOMAIN diffs : NotBlocked(diffs[i].upsert)

\* The task can never be a candidate again: nobody calls it open.
Past(t) ==
  /\ TellsAll /\ tracker[t] # "open"
  /\ NotOpen(sched.node, t)
  /\ \A i \in DOMAIN snapshots : NotOpen(snapshots[i], t)
  /\ \A i \in DOMAIN diffs : NotOpen(diffs[i].upsert, t)

Marked == sched.enqueued \cup sched.inProgress \cup todo.send \cup todo.mark

\* A task under way is one the scheduler knows to be, or will not consider again.
MarksHold ==
  \A t \in Underway :
    /\ t \in Marked \/ Past(t)
    /\ t \in DOMAIN sched.node
    /\ sched.node[t] \in {"open", "in_progress"} \/ Past(t)

NothingReturns == \A p \in Places : slot[p].phase # "nack"

\* Every item is delivered once, and the scheduler's record is not set back: the in-memory
\* bus does not redeliver, and a restarted mastermind loses it with what it holds.
Steady == /\ Bus = "memory" \/ Faults \cap {"late", "restart"} = {}
          /\ Faults \cap {"lag", "outage", "transient"} = {}

RunsInv == OncePlaced /\ TreesFollow /\ NobodyBlocked /\ MarksHold /\ NothingReturns

-----------------------------------------------------------------------------
(* Sequences whose entries have tasks of their own.                         *)

LEMMA DistinctTail ==
  ASSUME NEW S, NEW D, NEW c \in Seq(S), Distinct(c, D), c # <<>>
  PROVE  /\ Distinct(Tail(c), D) /\ Head(c).task \in TasksOf(c, D) \cup D
         /\ TasksOf(Tail(c), D) = TasksOf(c, D) \ {Head(c).task}
<1>1. /\ 1 \in DOMAIN c /\ Head(c) = c[1]
      /\ \A i \in DOMAIN Tail(c) : i + 1 \in DOMAIN c /\ Tail(c)[i] = c[i + 1] /\ i \in Nat \ {0}
      /\ \A i \in DOMAIN c : i = 1 \/ (i - 1 \in DOMAIN Tail(c) /\ Tail(c)[i - 1] = c[i])
  OBVIOUS
<1>2. Distinct(Tail(c), D)
  <2> SUFFICES ASSUME NEW i \in DOMAIN Tail(c), NEW j \in DOMAIN Tail(c), Tail(c)[i].task = Tail(c)[j].task,
                      Tail(c)[i].task \notin D
               PROVE  i = j
    BY DEF Distinct
  <2>1. i + 1 = j + 1
    BY <1>1 DEF Distinct
  <2> QED BY <1>1, <2>1
<1>3. TasksOf(Tail(c), D) \subseteq TasksOf(c, D) \ {Head(c).task}
  <2> SUFFICES ASSUME NEW i \in DOMAIN Tail(c), Tail(c)[i].task \notin D
               PROVE  Tail(c)[i].task \in TasksOf(c, D) /\ Tail(c)[i].task # Head(c).task
    BY DEF TasksOf
  <2>1. i + 1 \in DOMAIN c /\ i + 1 # 1 /\ Tail(c)[i] = c[i + 1]
    BY <1>1
  <2> QED BY <1>1, <2>1 DEF Distinct, TasksOf
<1>4. TasksOf(c, D) \ {Head(c).task} \subseteq TasksOf(Tail(c), D)
  <2> SUFFICES ASSUME NEW i \in DOMAIN c, c[i].task # Head(c).task, c[i].task \notin D
               PROVE  c[i].task \in TasksOf(Tail(c), D)
    BY DEF TasksOf
  <2>1. i - 1 \in DOMAIN Tail(c) /\ Tail(c)[i - 1] = c[i]
    BY <1>1
  <2> QED BY <2>1 DEF TasksOf
<1> QED BY <1>1, <1>2, <1>3, <1>4 DEF TasksOf

LEMMA DistinctAppend ==
  ASSUME NEW S, NEW D, NEW c \in Seq(S), Distinct(c, D), NEW e \in S
  PROVE  /\ TasksOf(Append(c, e), D) = TasksOf(c, D) \cup ({e.task} \ D)
         /\ e.task \notin TasksOf(c, D) => Distinct(Append(c, e), D)
<1>1. /\ \A i \in DOMAIN c : i \in DOMAIN Append(c, e) /\ Append(c, e)[i] = c[i]
      /\ Len(c) + 1 \in DOMAIN Append(c, e) /\ Append(c, e)[Len(c) + 1] = e
      /\ \A i \in DOMAIN Append(c, e) : i \in DOMAIN c \/ i = Len(c) + 1
  OBVIOUS
<1> QED BY <1>1 DEF TasksOf, Distinct

LEMMA EndsTail ==
  ASSUME NEW S, NEW D, NEW c \in Seq(S), EndsDiffer(c, D), c # <<>>
  PROVE  /\ EndsDiffer(Tail(c), D) /\ EndsOf(Tail(c), D) \subseteq EndsOf(c, D)
         /\ Head(c).type # "started" =>
               Head(c).task \in EndsOf(c, D) \cup D /\ Head(c).task \notin EndsOf(Tail(c), D)
<1>1. /\ 1 \in DOMAIN c /\ Head(c) = c[1]
      /\ \A i \in DOMAIN Tail(c) : i + 1 \in DOMAIN c /\ Tail(c)[i] = c[i + 1] /\ i \in Nat \ {0}
  OBVIOUS
<1>2. \A i \in Ends(Tail(c)) : i \in Nat \ {0} /\ i + 1 \in Ends(c) /\ Tail(c)[i] = c[i + 1]
  BY <1>1 DEF Ends
<1>3. EndsDiffer(Tail(c), D)
  <2> SUFFICES ASSUME NEW i \in Ends(Tail(c)), NEW j \in Ends(Tail(c)), Tail(c)[i].task = Tail(c)[j].task,
                      Tail(c)[i].task \notin D
               PROVE  i = j
    BY DEF EndsDiffer
  <2>1. i + 1 = j + 1
    BY <1>2 DEF EndsDiffer
  <2> QED BY <1>2, <2>1
<1>4. EndsOf(Tail(c), D) \subseteq EndsOf(c, D)
  BY <1>2 DEF EndsOf
<1>5. ASSUME Head(c).type # "started"
      PROVE  Head(c).task \in EndsOf(c, D) \cup D /\ Head(c).task \notin EndsOf(Tail(c), D)
  <2>1. 1 \in Ends(c)
    BY <1>1, <1>5 DEF Ends
  <2>2. ASSUME NEW i \in Ends(Tail(c)), Tail(c)[i].task = Head(c).task, Head(c).task \notin D
        PROVE  FALSE
    <3>1. i + 1 = 1 /\ i \in Nat \ {0}
      BY <1>1, <1>2, <2>1, <2>2 DEF EndsDiffer
    <3> QED BY <3>1
  <2> QED BY <1>1, <2>1, <2>2 DEF EndsOf
<1> QED BY <1>3, <1>4, <1>5

LEMMA EndsAppend ==
  ASSUME NEW S, NEW D, NEW c \in Seq(S), EndsDiffer(c, D), NEW e \in S
  PROVE  /\ e.type = "started" => EndsDiffer(Append(c, e), D) /\ EndsOf(Append(c, e), D) = EndsOf(c, D)
         /\ e.type # "started" => /\ EndsOf(Append(c, e), D) = EndsOf(c, D) \cup ({e.task} \ D)
                                  /\ e.task \notin EndsOf(c, D) => EndsDiffer(Append(c, e), D)
<1>1. /\ \A i \in DOMAIN c : i \in DOMAIN Append(c, e) /\ Append(c, e)[i] = c[i]
      /\ Len(c) + 1 \in DOMAIN Append(c, e) /\ Append(c, e)[Len(c) + 1] = e
      /\ \A i \in DOMAIN Append(c, e) : i \in DOMAIN c \/ i = Len(c) + 1
  OBVIOUS
<1>2. CASE e.type = "started"
  <2>1. Ends(Append(c, e)) = Ends(c)
    BY <1>1, <1>2 DEF Ends
  <2>2. \A i \in Ends(c) : Append(c, e)[i] = c[i]
    BY <1>1 DEF Ends
  <2>3. EndsOf(Append(c, e), D) = EndsOf(c, D)
    BY <2>1, <2>2 DEF EndsOf
  <2>4. EndsDiffer(Append(c, e), D)
    BY <2>1, <2>2 DEF EndsDiffer
  <2> QED BY <1>2, <2>3, <2>4
<1>3. CASE e.type # "started"
  <2>1. Ends(Append(c, e)) = Ends(c) \cup {Len(c) + 1}
    BY <1>1, <1>3 DEF Ends
  <2>2. (\A i \in Ends(c) : Append(c, e)[i] = c[i]) /\ Append(c, e)[Len(c) + 1] = e
    BY <1>1 DEF Ends
  <2>3. EndsOf(Append(c, e), D) = EndsOf(c, D) \cup ({e.task} \ D)
    BY <2>1, <2>2 DEF EndsOf
  <2>4. e.task \notin EndsOf(c, D) => EndsDiffer(Append(c, e), D)
    <3> SUFFICES ASSUME e.task \notin EndsOf(c, D),
                        NEW i \in Ends(c) \cup {Len(c) + 1}, NEW j \in Ends(c) \cup {Len(c) + 1},
                        Append(c, e)[i].task = Append(c, e)[j].task, Append(c, e)[i].task \notin D
                 PROVE  i = j
      BY <2>1 DEF EndsDiffer
    <3>1. CASE i \in Ends(c) /\ j \in Ends(c)
      BY <2>2, <3>1 DEF EndsDiffer
    <3>2. e.task \notin D => \A k \in Ends(c) : c[k].task # e.task
      BY DEF EndsOf
    <3> QED BY <2>2, <3>1, <3>2
  <2> QED BY <1>3, <2>3, <2>4
<1> QED BY <1>2, <1>3

-----------------------------------------------------------------------------
(* What a step of an executor does to the places.                           *)

\* A task that is completed leaves its place at most.
LEMMA Widen ==
  ASSUME done \subseteq done'
  PROVE  /\ Reopenable \subseteq Reopenable'
         /\ \A c : /\ TasksOf(c, Reopenable') \subseteq TasksOf(c, Reopenable)
                   /\ EndsOf(c, Reopenable') \subseteq EndsOf(c, Reopenable)
                   /\ Distinct(c, Reopenable) => Distinct(c, Reopenable')
                   /\ EndsDiffer(c, Reopenable) => EndsDiffer(c, Reopenable')
<1>1. Reopenable \subseteq Reopenable'
  BY DEF Reopenable
<1> QED BY <1>1 DEF TasksOf, EndsOf, Distinct, EndsDiffer

LEMMA PlaceFrames ==
  ASSUME done \subseteq done'
  PROVE  /\ UNCHANGED queue => /\ Waiting' \subseteq Waiting
                               /\ Distinct(queue.ready, Reopenable) => Distinct(queue.ready, Reopenable)'
         /\ UNCHANGED held => InHand' \subseteq InHand /\ (HandsDiffer => HandsDiffer')
         /\ UNCHANGED slot => Runs' \subseteq Runs /\ (RunsDiffer => RunsDiffer')
         /\ UNCHANGED monitor => /\ Ended' \subseteq Ended
                                 /\ EndsDiffer(monitor, Reopenable) => EndsDiffer(monitor, Reopenable)'
         /\ todo'.send \subseteq todo.send => Sent' \subseteq Sent
<1>0. Reopenable \subseteq Reopenable'
  BY Widen
<1>1. UNCHANGED queue => /\ Waiting' \subseteq Waiting
                         /\ Distinct(queue.ready, Reopenable) => Distinct(queue.ready, Reopenable)'
  BY Widen DEF Waiting
<1>2. UNCHANGED held => InHand' \subseteq InHand /\ (HandsDiffer => HandsDiffer')
  <2> SUFFICES ASSUME UNCHANGED held PROVE InHand' \subseteq InHand /\ (HandsDiffer => HandsDiffer')
    OBVIOUS
  <2>1. \A e \in Executor : Taken(e)' \subseteq Taken(e)
    BY Widen DEF Taken
  <2>2. InHand' \subseteq InHand
    BY <2>1 DEF InHand
  <2>3. ASSUME HandsDiffer PROVE HandsDiffer'
    <3>1. \A e \in Executor : Distinct(held[e], Reopenable)'
      BY <2>3, Widen DEF HandsDiffer
    <3>2. \A e, f \in Executor : e # f => (Taken(e) \cap Taken(f) = {})'
      BY <2>1, <2>3 DEF HandsDiffer
    <3> QED BY <3>1, <3>2 DEF HandsDiffer
  <2> QED BY <2>2, <2>3
<1>3. UNCHANGED slot => Runs' \subseteq Runs /\ (RunsDiffer => RunsDiffer')
  BY <1>0 DEF Runs, RunsDiffer, Running
<1>4. UNCHANGED monitor => /\ Ended' \subseteq Ended
                           /\ EndsDiffer(monitor, Reopenable) => EndsDiffer(monitor, Reopenable)'
  BY Widen DEF Ended
<1>5. todo'.send \subseteq todo.send => Sent' \subseteq Sent
  BY <1>0 DEF Sent
<1> QED BY <1>1, <1>2, <1>3, <1>4, <1>5

\* An executor's first item leaves its hands.
LEMMA LeavesHand ==
  ASSUME held \in [Executor -> Seq(Item)], HandsDiffer, NEW e \in Executor, held[e] # <<>>,
         held' = [held EXCEPT ![e] = Tail(@)], UNCHANGED done
  PROVE  /\ HandsDiffer' /\ Head(held[e]).task \in InHand \cup Reopenable
         /\ InHand' = InHand \ {Head(held[e]).task}
<1> DEFINE t == Head(held[e]).task
           D == Reopenable
<1>0. held[e] \in Seq(Item) /\ Distinct(held[e], D) /\ D' = D
  BY DEF HandsDiffer, Reopenable
<1> HIDE DEF D
<1>1. t \in Task
  <2>1. Head(held[e]) \in Item
    BY <1>0
  <2> QED BY <2>1 DEF Item
<1>2. /\ Distinct(Tail(held[e]), D) /\ t \in TasksOf(held[e], D) \cup D
      /\ TasksOf(Tail(held[e]), D) = TasksOf(held[e], D) \ {t}
  <2>1. PICK c \in Seq(Item) : c = held[e]
    BY <1>0
  <2>2. Distinct(c, D) /\ c # <<>>
    BY <1>0, <2>1
  <2>3. /\ Distinct(Tail(c), D) /\ Head(c).task \in TasksOf(c, D) \cup D
        /\ TasksOf(Tail(c), D) = TasksOf(c, D) \ {Head(c).task}
    BY <2>2, DistinctTail
  <2> QED BY <2>1, <2>3
<1>3. /\ \A f \in Executor : f # e => held'[f] = held[f]
      /\ held'[e] = Tail(held[e])
  OBVIOUS
<1>4. \A f \in Executor : /\ Taken(f) = TasksOf(held[f], D)
                          /\ Taken(f)' = IF f = e THEN Taken(e) \ {t} ELSE Taken(f)
  BY <1>0, <1>2, <1>3 DEF Taken, D
<1>5. HandsDiffer'
  <2>1. \A f \in Executor : Distinct(held'[f], D')
    BY <1>0, <1>2, <1>3 DEF HandsDiffer, D
  <2>2. \A f, g \in Executor : f # g => Taken(f)' \cap Taken(g)' = {}
    BY <1>4 DEF HandsDiffer
  <2> QED BY <2>1, <2>2 DEF HandsDiffer, D
<1>6. \A f \in Executor : f # e /\ t \in Taken(e) => t \notin Taken(f)
  BY DEF HandsDiffer
<1>7. \A f \in Executor : t \in D => t \notin Taken(f)
  BY <1>4 DEF TasksOf
<1>8. t \in InHand \cup D
  BY <1>1, <1>2, <1>4 DEF InHand
<1>9. InHand' = InHand \ {t}
  BY <1>2, <1>4, <1>6, <1>7 DEF InHand
<1> QED BY <1>5, <1>8, <1>9 DEF D

\* An executor takes up an item of a task that nobody has in hand.
LEMMA ComesToHand ==
  ASSUME held \in [Executor -> Seq(Item)], HandsDiffer, NEW e \in Executor, NEW item \in Item,
         item.task \notin InHand, held' = [held EXCEPT ![e] = Append(@, item)], UNCHANGED done
  PROVE  HandsDiffer' /\ InHand' = InHand \cup ({item.task} \ Reopenable)
<1> DEFINE D == Reopenable
<1>1. held[e] \in Seq(Item) /\ Distinct(held[e], D) /\ item.task \in Task /\ D' = D
  BY DEF HandsDiffer, Item, Reopenable
<1> HIDE DEF D
<1>2. \A f \in Executor : item.task \notin Taken(f) /\ Taken(f) = TasksOf(held[f], D)
  BY <1>1 DEF InHand, Taken, D
<1>3. /\ Distinct(Append(held[e], item), D)
      /\ TasksOf(Append(held[e], item), D) = Taken(e) \cup ({item.task} \ D)
  BY <1>1, <1>2, DistinctAppend
<1>4. /\ \A f \in Executor : f # e => held'[f] = held[f]
      /\ held'[e] = Append(held[e], item)
  OBVIOUS
<1>5. \A f \in Executor : Taken(f)' = IF f = e THEN Taken(e) \cup ({item.task} \ D) ELSE Taken(f)
  BY <1>1, <1>2, <1>3, <1>4 DEF Taken, D
<1>6. HandsDiffer'
  <2>1. \A f \in Executor : Distinct(held'[f], D')
    BY <1>1, <1>3, <1>4 DEF HandsDiffer, D
  <2>2. \A f, g \in Executor : f # g => Taken(f)' \cap Taken(g)' = {}
    BY <1>2, <1>5 DEF HandsDiffer
  <2> QED BY <2>1, <2>2 DEF HandsDiffer, D
<1>7. InHand' = InHand \cup ({item.task} \ D)
  BY <1>1, <1>5 DEF InHand
<1> QED BY <1>6, <1>7 DEF D

\* A slot starts or stops running a task.
LEMMA RunsStep ==
  ASSUME slot \in [Places -> SlotType], RunsDiffer, NEW p \in Places, done \subseteq done'
  PROVE  /\ \A item \in Item :
              /\ slot[p] = Idle /\ item.task \notin Runs
              /\ slot' = [slot EXCEPT ![p] = [item |-> item, phase |-> "run"]]
              => RunsDiffer' /\ Runs' \subseteq Runs \cup ({item.task} \ Reopenable)
         /\ \A item : \A phase \in {"ack", "nack"} :
              slot[p] = Idle /\ slot' = [slot EXCEPT ![p] = [item |-> item, phase |-> phase]]
              => RunsDiffer' /\ Runs' \subseteq Runs
         /\ \A phase \in {"ack", "nack"} :
              /\ slot[p].phase = "run" /\ slot[p].item.task \in Task
              /\ slot' = [slot EXCEPT ![p].phase = phase]
              => /\ RunsDiffer' /\ Runs' \subseteq Runs \ {slot[p].item.task}
                 /\ slot[p].item.task \in Runs \cup Reopenable
         /\ slot[p].phase # "run" /\ slot' = [slot EXCEPT ![p] = Idle]
              => RunsDiffer' /\ Runs' \subseteq Runs
<1>0. Reopenable \subseteq Reopenable'
  BY Widen
<1>1. ASSUME NEW item \in Item, slot[p] = Idle, item.task \notin Runs,
             slot' = [slot EXCEPT ![p] = [item |-> item, phase |-> "run"]]
      PROVE  RunsDiffer' /\ Runs' \subseteq Runs \cup ({item.task} \ Reopenable)
  <2>1. item.task \in Reopenable \/ Running(item.task) = {}
    BY <1>1 DEF Runs, Item
  <2>2. \A q \in Places : slot'[q] = IF q = p THEN [item |-> item, phase |-> "run"] ELSE slot[q]
    BY <1>1
  <2>3. \A t \in Task \ Reopenable : Running(t)' = IF t = item.task THEN {p} ELSE Running(t)
    BY <1>1, <2>1, <2>2 DEF Running, Idle
  <2> QED BY <1>0, <2>1, <2>3 DEF RunsDiffer, Runs
<1>2. ASSUME NEW item, NEW phase \in {"ack", "nack"}, slot[p] = Idle,
             slot' = [slot EXCEPT ![p] = [item |-> item, phase |-> phase]]
      PROVE  RunsDiffer' /\ Runs' \subseteq Runs
  <2>1. \A q \in Places : slot'[q] = IF q = p THEN [item |-> item, phase |-> phase] ELSE slot[q]
    BY <1>2
  <2>2. \A t \in Task : Running(t)' = Running(t)
    BY <1>2, <2>1 DEF Running, Idle
  <2> QED BY <1>0, <2>2 DEF RunsDiffer, Runs
<1>3. ASSUME NEW phase \in {"ack", "nack"}, slot[p].phase = "run", slot[p].item.task \in Task,
             slot' = [slot EXCEPT ![p].phase = phase]
      PROVE  /\ RunsDiffer' /\ Runs' \subseteq Runs \ {slot[p].item.task}
             /\ slot[p].item.task \in Runs \cup Reopenable
  <2>1. \A q \in Places : slot'[q].item = slot[q].item /\ slot'[q].phase = IF q = p THEN phase ELSE slot[q].phase
    BY <1>3, SlotPhase
  <2>2. p \in Running(slot[p].item.task)
    BY <1>3 DEF Running
  <2>3. slot[p].item.task \notin Reopenable => Running(slot[p].item.task) = {p}
    BY <1>3, <2>2 DEF RunsDiffer
  <2>4. \A t \in Task \ Reopenable : Running(t)' = IF t = slot[p].item.task THEN {} ELSE Running(t)
    BY <1>3, <2>1, <2>3 DEF Running
  <2> QED BY <1>0, <1>3, <2>2, <2>4 DEF RunsDiffer, Runs
<1>4. ASSUME slot[p].phase # "run", slot' = [slot EXCEPT ![p] = Idle]
      PROVE  RunsDiffer' /\ Runs' \subseteq Runs
  <2>1. \A q \in Places : slot'[q] = IF q = p THEN Idle ELSE slot[q]
    BY <1>4
  <2>2. \A t \in Task : Running(t)' = Running(t)
    BY <1>4, <2>1 DEF Running, Idle
  <2> QED BY <1>0, <2>2 DEF RunsDiffer, Runs
<1> QED BY <1>1, <1>2, <1>3, <1>4

\* An event goes out, or is lost: a start ends nothing, an end ends its task at most.
LEMMA EventPlaces ==
  ASSUME monitor \in Seq(Trace), EndsDiffer(monitor, Reopenable), NEW t \in Task,
         NEW type \in {"started", "completed", "failed"}, done \subseteq done',
         \/ UNCHANGED monitor
         \/ Send(monitor, monitor', [type |-> type, task |-> t])
         \/ Publish(monitor, monitor', [type |-> type, task |-> t])
  PROVE  /\ type = "started" => EndsDiffer(monitor, Reopenable)' /\ Ended' \subseteq Ended
         /\ type # "started" => /\ Ended' \subseteq Ended \cup ({t} \ Reopenable')
                                /\ t \notin Ended => EndsDiffer(monitor, Reopenable)'
<1> DEFINE event == [type |-> type, task |-> t]
           D     == Reopenable'
<1>1. event \in Trace /\ event.type = type /\ event.task = t
  BY DEF Trace
<1>2. monitor' = Append(monitor, event) \/ monitor' = monitor
  BY DEF Send, Publish, Lose
<1>3. EndsDiffer(monitor, D) /\ EndsOf(monitor, D) \subseteq Ended
  BY Widen DEF Ended
<1>4. CASE monitor' = monitor
  BY <1>3, <1>4 DEF Ended
<1>5. CASE monitor' = Append(monitor, event)
  <2> HIDE DEF D
  <2>1. /\ type = "started" => /\ EndsDiffer(monitor', D)
                               /\ EndsOf(monitor', D) = EndsOf(monitor, D)
        /\ type # "started" => /\ EndsOf(monitor', D) = EndsOf(monitor, D) \cup ({t} \ D)
                               /\ t \notin EndsOf(monitor, D) => EndsDiffer(monitor', D)
    BY <1>1, <1>3, <1>5, EndsAppend
  <2> QED BY <1>3, <2>1 DEF Ended, D
<1> QED BY <1>2, <1>4, <1>5

\* A step of an executor moves a task from place to place, or out.
LEMMA RuntimePlaces ==
  ASSUME Steady, TypeOK, SlotsHoldItems, OncePlaced, NothingReturns, NEW e \in Executor, Runtime(e)
  PROVE  OncePlaced' /\ NothingReturns' /\ Underway' \subseteq Underway
<1> USE DEF OncePlaced, channels
<1>0. /\ held \in [Executor -> Seq(Item)] /\ held[e] \in Seq(Item) /\ slot \in [Places -> SlotType]
      /\ monitor \in Seq(Trace) /\ queue \in QueueType /\ queue.ready \in Seq(Item)
  BY DEF TypeOK, SlotType, Trace, QueueType
<1>a. /\ Waiting \cap Reopenable = {} /\ Runs \cap Reopenable = {} /\ Ended \cap Reopenable = {}
      /\ InHand \cap Reopenable = {}
  BY DEF Waiting, Runs, Ended, InHand, Taken, TasksOf, EndsOf
<1>b. UNCHANGED done => done \subseteq done' /\ Reopenable' = Reopenable
  BY DEF Reopenable
<1>1. CASE Receive(e)
  <2>1. queue.ready # <<>> /\ queue'.ready = Tail(queue.ready) /\ Head(queue.ready) \in Item
    BY <1>0, <1>1 DEF Receive, CanTake, Take
  <2>2. UNCHANGED <<slot, monitor, todo, done>>
    BY <1>1 DEF Receive
  <2>3. /\ Distinct(queue.ready, Reopenable)' /\ Head(queue.ready).task \in Waiting \cup Reopenable
        /\ Waiting' = Waiting \ {Head(queue.ready).task}
    <3> DEFINE D == Reopenable
    <3>1. D' = D /\ Distinct(queue.ready, D)
      BY <1>b, <2>2
    <3> HIDE DEF D
    <3>2. /\ Distinct(Tail(queue.ready), D) /\ Head(queue.ready).task \in TasksOf(queue.ready, D) \cup D
          /\ TasksOf(Tail(queue.ready), D) = TasksOf(queue.ready, D) \ {Head(queue.ready).task}
      <4>1. PICK c \in Seq(Item) : c = queue.ready
        BY <1>0
      <4>2. Distinct(c, D) /\ c # <<>>
        BY <2>1, <3>1, <4>1
      <4>3. /\ Distinct(Tail(c), D) /\ Head(c).task \in TasksOf(c, D) \cup D
            /\ TasksOf(Tail(c), D) = TasksOf(c, D) \ {Head(c).task}
        BY <4>2, DistinctTail
      <4> QED BY <4>1, <4>3
    <3> QED BY <2>1, <3>1, <3>2 DEF Waiting, D
  <2>4. Head(queue.ready).task \notin InHand
    BY <1>a, <2>3 DEF Apart
  <2>5. HandsDiffer' /\ InHand' = InHand \cup ({Head(queue.ready).task} \ Reopenable)
    BY <1>0, <1>1, <2>1, <2>2, <2>4, ComesToHand DEF Receive
  <2> QED BY <1>b, <2>2, <2>3, <2>5, PlaceFrames DEF Apart, Underway, NothingReturns
<1>2. CASE Refuse(e) \/ GiveBack(e)
  <2> DEFINE t == Head(held[e]).task
             D == Reopenable
  <2>1. PICK id \in NackIds(Head(held[e])) :
          /\ held[e] # <<>> /\ held' = [held EXCEPT ![e] = Tail(@)]
          /\ queue' = Nack(queue, Head(held[e]), id)
          /\ UNCHANGED <<slot, monitor, todo, done>>
    BY <1>2 DEF Refuse, GiveBack
  <2>2. HandsDiffer' /\ t \in InHand \cup D /\ InHand' = InHand \ {t} /\ Head(held[e]) \in Item
    <3>1. Head(held[e]) \in Item
      BY <1>0, <2>1
    <3> QED BY <1>0, <2>1, <3>1, LeavesHand
  <2>3. t \notin Waiting
    BY <1>a, <2>2 DEF Apart
  <2>4. PICK again \in Item :
          /\ again.task = t
          /\ queue'.ready = queue.ready \/ queue'.ready = Append(queue.ready, again)
    <3> DEFINE i == IF Bus = "redis" THEN [Head(held[e]) EXCEPT !.id = id] ELSE Head(held[e])
    <3>1. i \in Item /\ i.task = t
      BY <2>1, <2>2, IdentityType DEF Item
    <3>2. queue'.ready = queue.ready \/ queue'.ready = Append(queue.ready, i)
      BY <1>0, <2>1 DEF Nack, Enqueue, Ack, QueueType
    <3> QED BY <3>1, <3>2
  <2>5. D' = D /\ Distinct(queue.ready, D) /\ Waiting = TasksOf(queue.ready, D)
    BY <1>b, <2>1 DEF Waiting
  <2> HIDE DEF D
  <2>6. Distinct(queue'.ready, D) /\ TasksOf(queue'.ready, D) \subseteq Waiting \cup ({t} \ D)
    <3>1. CASE queue'.ready = queue.ready
      BY <2>5, <3>1
    <3>2. CASE queue'.ready = Append(queue.ready, again)
      <4>1. t \notin TasksOf(queue.ready, D)
        BY <2>3, <2>5
      <4>2. /\ TasksOf(queue'.ready, D) = TasksOf(queue.ready, D) \cup ({t} \ D)
            /\ Distinct(queue'.ready, D)
        BY <1>0, <2>4, <2>5, <3>2, <4>1, DistinctAppend
      <4> QED BY <2>5, <4>2
    <3> QED BY <2>4, <3>1, <3>2
  <2>7. Distinct(queue.ready, Reopenable)' /\ Waiting' \subseteq Waiting \cup ({t} \ Reopenable)
    BY <2>5, <2>6 DEF Waiting, D
  <2>8. t \in InHand \cup Reopenable
    BY <2>2 DEF D
  <2> HIDE DEF t
  <2> QED BY <1>b, <2>1, <2>2, <2>7, <2>8, PlaceFrames DEF Apart, Underway, NothingReturns
<1>3. CASE PublishOffline(e)
  <2>1. held' = [held EXCEPT ![e] = <<>>] /\ UNCHANGED <<queue, slot, monitor, todo, done>>
    BY <1>3 DEF PublishOffline
  <2>2. \A f \in Executor : Taken(f)' = IF f = e THEN {} ELSE Taken(f)
    BY <1>0, <1>b, <2>1 DEF Taken, TasksOf
  <2>3. InHand' \subseteq InHand
    BY <2>2 DEF InHand
  <2>4. \A f \in Executor : Distinct(held[f], Reopenable)'
    BY <1>0, <1>b, <2>1 DEF HandsDiffer, Distinct
  <2>5. HandsDiffer'
    BY <2>2, <2>4 DEF HandsDiffer
  <2> QED BY <1>b, <2>1, <2>3, <2>5, PlaceFrames DEF Apart, Underway, NothingReturns
<1>4. ASSUME NEW p \in Places, p[1] = e, Start(p)
      PROVE  OncePlaced' /\ NothingReturns' /\ Underway' \subseteq Underway
  <2> DEFINE item == Head(held[e])
  <2>1. /\ held[e] # <<>> /\ held' = [held EXCEPT ![e] = Tail(@)] /\ slot[p] = Idle
        /\ UNCHANGED <<queue, todo, done>>
        /\ \/ /\ Send(monitor, monitor', [type |-> "started", task |-> item.task])
              /\ slot' = [slot EXCEPT ![p] = [item |-> item, phase |-> "run"]]
           \/ /\ Publish(monitor, monitor', [type |-> "failed", task |-> item.task])
              /\ slot' = [slot EXCEPT ![p] = [item |-> item, phase |-> "ack"]]
    BY <1>4 DEF Start, Fault, Steady
  <2>2. /\ HandsDiffer' /\ item.task \in InHand \cup Reopenable /\ InHand' = InHand \ {item.task}
        /\ item \in Item /\ item.task \in Task
    <3>1. item \in Item
      BY <1>0, <2>1
    <3> QED BY <1>0, <2>1, <3>1, LeavesHand DEF Item
  <2>3. item.task \notin Runs /\ item.task \notin Ended /\ Reopenable' = Reopenable /\ done \subseteq done'
    BY <1>a, <1>b, <2>1, <2>2 DEF Apart
  <2>4. \/ /\ EndsDiffer(monitor, Reopenable)' /\ Ended' \subseteq Ended
           /\ RunsDiffer' /\ Runs' \subseteq Runs \cup ({item.task} \ Reopenable)
        \/ /\ EndsDiffer(monitor, Reopenable)' /\ Ended' \subseteq Ended \cup ({item.task} \ Reopenable)
           /\ RunsDiffer' /\ Runs' \subseteq Runs
    <3>1. CASE /\ Send(monitor, monitor', [type |-> "started", task |-> item.task])
               /\ slot' = [slot EXCEPT ![p] = [item |-> item, phase |-> "run"]]
      BY <1>0, <2>1, <2>2, <2>3, <3>1, EventPlaces, RunsStep
    <3>2. CASE /\ Publish(monitor, monitor', [type |-> "failed", task |-> item.task])
               /\ slot' = [slot EXCEPT ![p] = [item |-> item, phase |-> "ack"]]
      BY <1>0, <2>1, <2>2, <2>3, <3>2, EventPlaces, RunsStep
    <3> QED BY <2>1, <3>1, <3>2
  <2>5. NothingReturns'
    <3>1. PICK phase \in {"run", "ack"} : slot' = [slot EXCEPT ![p] = [item |-> item, phase |-> phase]]
      BY <2>1
    <3>2. \A q \in Places : slot'[q] = IF q = p THEN [item |-> item, phase |-> phase] ELSE slot[q]
      BY <1>0, <3>1
    <3> QED BY <3>2 DEF NothingReturns
  <2> QED BY <2>1, <2>2, <2>3, <2>4, <2>5, PlaceFrames DEF Apart, Underway
<1>5. ASSUME NEW p \in Places, p[1] = e, Finish(p)
      PROVE  OncePlaced' /\ NothingReturns' /\ Underway' \subseteq Underway
  <2> DEFINE t == slot[p].item.task
  <2>1. /\ slot[p].phase = "run" /\ slot' = [slot EXCEPT ![p].phase = "ack"]
        /\ UNCHANGED <<queue, held, todo>> /\ done \subseteq done'
        /\ \E type \in {"completed", "failed"} :
              \/ UNCHANGED monitor
              \/ Send(monitor, monitor', [type |-> type, task |-> t])
              \/ Publish(monitor, monitor', [type |-> type, task |-> t])
    BY <1>5 DEF Finish, Fault, Steady
  <2>2. t \in Task
    BY <2>1 DEF SlotsHoldItems, Item
  <2>3. RunsDiffer' /\ Runs' \subseteq Runs \ {t} /\ t \in Runs \cup Reopenable
    BY <1>0, <2>1, <2>2, RunsStep
  <2>4. t \notin Ended /\ Reopenable \subseteq Reopenable'
    BY <1>a, <2>1, <2>3, Widen DEF Apart
  <2>5. EndsDiffer(monitor, Reopenable)' /\ Ended' \subseteq Ended \cup ({t} \ Reopenable')
    BY <1>0, <2>1, <2>2, <2>4, EventPlaces
  <2>6. NothingReturns'
    BY <1>0, <2>1, SlotPhase DEF NothingReturns
  <2> HIDE DEF t
  <2> QED BY <2>1, <2>3, <2>4, <2>5, <2>6, PlaceFrames DEF Apart, Underway
<1>6. ASSUME NEW p \in Places, p[1] = e, Settle(p)
      PROVE  OncePlaced' /\ NothingReturns' /\ Underway' \subseteq Underway
  <2>1. /\ slot[p].phase = "ack" /\ slot' = [slot EXCEPT ![p] = Idle]
        /\ queue' = Ack(queue, slot[p].item) \/ UNCHANGED queue
        /\ UNCHANGED <<held, todo, monitor, done>>
    BY <1>6 DEF Settle, NothingReturns
  <2>2. queue'.ready = queue.ready
    BY <1>0, <2>1 DEF Ack, QueueType
  <2>3. Waiting' = Waiting /\ Distinct(queue.ready, Reopenable)'
    BY <1>b, <2>1, <2>2 DEF Waiting
  <2>4. RunsDiffer' /\ Runs' \subseteq Runs
    BY <1>0, <1>b, <2>1, RunsStep
  <2>5. NothingReturns'
    BY <1>0, <2>1 DEF NothingReturns, Idle
  <2> QED BY <1>b, <2>1, <2>3, <2>4, <2>5, PlaceFrames DEF Apart, Underway
<1> QED BY <1>1, <1>2, <1>3, <1>4, <1>5, <1>6 DEF Runtime

\* What the mastermind keeps is its own.
LEMMA RecordFrame ==
  ASSUME UNCHANGED <<tracker, sched, todo, snapshots, diffs, updates>>, TreesFollow, NobodyBlocked,
         MarksHold, Underway' \subseteq Underway
  PROVE  TreesFollow' /\ NobodyBlocked' /\ MarksHold'
<1>1. TreesFollow' /\ NobodyBlocked'
  BY DEF TreesFollow, NobodyBlocked
<1>2. \A t : Past(t) => Past(t)'
  BY DEF Past, NotOpen
<1>3. Marked' = Marked
  BY DEF Marked
<1> QED BY <1>1, <1>2, <1>3 DEF MarksHold

LEMMA RuntimeKeepsRuns ==
  ASSUME Steady, TypeOK, SlotsHoldItems, RunsInv, NEW e \in Executor, Runtime(e)
  PROVE  RunsInv'
<1>1. OncePlaced' /\ NothingReturns' /\ Underway' \subseteq Underway
  BY RuntimePlaces DEF RunsInv
<1>2. UNCHANGED <<tracker, sched, todo, snapshots, diffs, updates>>
  BY DEF Runtime, Receive, Refuse, GiveBack, PublishOffline, Start, Finish, Settle, channels
<1> QED BY <1>1, <1>2, RecordFrame DEF RunsInv

-----------------------------------------------------------------------------
(* What a step of the mastermind does to the places and to the marks.       *)

PlacesStay == UNCHANGED <<queue, held, slot, monitor, done>> /\ todo'.send = todo.send

LEMMA StayedPlaces ==
  ASSUME OncePlaced, NothingReturns, PlacesStay
  PROVE  OncePlaced' /\ NothingReturns' /\ Underway' \subseteq Underway
<1>1. done \subseteq done'
  BY DEF PlacesStay
<1>2. /\ Waiting' \subseteq Waiting /\ InHand' \subseteq InHand /\ Runs' \subseteq Runs
      /\ Ended' \subseteq Ended /\ Sent' \subseteq Sent
  BY <1>1, PlaceFrames DEF PlacesStay
<1>3. OncePlaced'
  BY <1>1, <1>2, PlaceFrames DEF PlacesStay, OncePlaced, Apart
<1> QED BY <1>2, <1>3 DEF PlacesStay, Underway, NothingReturns

\* A tracker that reopens what it closed calls a task under way open or in progress.
LEMMA UnderwayOpen ==
  ASSUME ~TellsAll, NEW t \in Underway, NEW tree \in Trees, Completed(tree), NotBlocked(tree),
         t \in DOMAIN tree
  PROVE  tree[t] \in {"open", "in_progress"}
<1>1. Reopenable = done
  BY DEF TellsAll, Reopenable
<1>2. t \notin done
  BY <1>1 DEF Underway, Sent, Waiting, InHand, Taken, Runs, Ended, TasksOf, EndsOf
<1> QED BY <1>2, TreeType DEF Completed, NotBlocked, Status

\* A record that drops the marks of its finished nodes keeps the others'.
LEMMA PruneKeeps ==
  ASSUME NEW s \in SchedulerType
  PROVE  /\ PruneState(s).node = s.node
         /\ \A t \in DOMAIN s.node : s.node[t] \in {"open", "in_progress"} =>
               /\ t \in s.enqueued => t \in PruneState(s).enqueued
               /\ t \in s.inProgress => t \in PruneState(s).inProgress
BY DEF PruneState, Unmark, SchedulerType

\* What the tracker no longer calls open it never calls open again.
LEMMA TickKeepsRuns ==
  ASSUME Steady, TypeOK, RunsInv, SyncTaskGraphs
  PROVE  RunsInv'
<1> USE DEF RunsInv
<1>0. tracker \in [Task -> Status] /\ previous \in Trees /\ DOMAIN previous \subseteq Task
      /\ sched \in SchedulerType
  BY TreeType DEF TypeOK
<1>1. /\ snapshots = <<>> /\ diffs = <<>> /\ snapshots' = Append(snapshots, tracker)
      /\ \/ UNCHANGED diffs
         \/ diffs' = Append(diffs, Changed(previous, tracker))
      /\ UNCHANGED <<tracker, sched, todo, monitor, updates, queue, held, slot, done>>
  BY DEF SyncTaskGraphs, Steady, Fault, Publish, workers
<1>2. /\ snapshots' = <<tracker>>
      /\ diffs' = <<>> \/ diffs' = <<Changed(previous, tracker)>>
  BY <1>1
<1>3. LET diff == Changed(previous, tracker)
      IN  /\ diff.delete = {} /\ DOMAIN diff.upsert \subseteq Task
          /\ \A t \in DOMAIN diff.upsert : diff.upsert[t] = tracker[t]
  BY <1>0 DEF Changed, Restrict
<1>4. OncePlaced' /\ NothingReturns' /\ Underway' \subseteq Underway
  BY <1>1, StayedPlaces DEF PlacesStay
<1>a. NobodyBlocked'
  <2>1. /\ DOMAIN snapshots' = {1} /\ snapshots'[1] = tracker
        /\ \A i \in DOMAIN diffs' : diffs'[i] = Changed(previous, tracker)
    BY <1>2
  <2> QED BY <1>0, <1>1, <1>3, <2>1 DEF NobodyBlocked, NotBlocked
<1>5. TreesFollow'
  <2>1. /\ Len(snapshots') = 1 /\ DOMAIN snapshots' = {1} /\ snapshots'[1] = tracker
        /\ Len(diffs') <= 1
        /\ \A i \in DOMAIN diffs' : diffs'[i] = Changed(previous, tracker)
    <3> DEFINE diff == Changed(previous, tracker)
    <3>1. Len(snapshots') = 1 /\ DOMAIN snapshots' = {1} /\ snapshots'[1] = tracker
      BY <1>2
    <3> HIDE DEF diff
    <3>2. Len(diffs') <= 1 /\ \A i \in DOMAIN diffs' : diffs'[i] = diff
      <4>1. CASE diffs' = <<>>
        BY <4>1
      <4>2. CASE diffs' = <<diff>>
        BY <4>2
      <4> QED BY <1>2, <4>1, <4>2 DEF diff
    <3> QED BY <3>1, <3>2 DEF diff
  <2>2. DOMAIN tracker = Task /\ tracker' = tracker
    BY <1>0, <1>1
  <2>3. \A i \in DOMAIN updates' : updates'[i].status # "open"
    BY <1>1 DEF TreesFollow
  <2> QED BY <1>3, <2>1, <2>2, <2>3 DEF TreesFollow
<1>6. \A t \in Task : Past(t) => Past(t)'
  BY <1>0, <1>1, <1>2, <1>3 DEF Past, NotOpen
<1>7. MarksHold'
  <2>1. Underway \subseteq Task
    BY <1>0, TreeType DEF MarksHold, SchedulerType
  <2> QED BY <1>1, <1>4, <1>6, <2>1 DEF MarksHold, Marked
<1> QED BY <1>4, <1>5, <1>7, <1>a

\* A snapshot takes the marks of a task under way only if nobody calls it open.
LEMMA SnapshotKeepsRuns ==
  ASSUME Steady, TypeOK, RunsInv, ClosedIsDone, HandleSnapshot
  PROVE  RunsInv'
<1> USE DEF RunsInv
<1> DEFINE tree == Head(snapshots)
           r    == [sched EXCEPT !.node = tree]
<1>0. /\ sched \in SchedulerType /\ snapshots \in Seq(Trees) /\ snapshots # <<>> /\ Len(snapshots) <= 1
      /\ 1 \in DOMAIN snapshots /\ tree = snapshots[1] /\ tree \in Trees /\ DOMAIN tree = Task
      /\ snapshots' = <<>> /\ sched' = ApplySnapshot(sched, tree)
      /\ UNCHANGED <<tracker, todo, diffs, monitor, updates, queue, held, slot, done>>
  BY DEF HandleSnapshot, TypeOK, TreesFollow, workers
<1>1. OncePlaced' /\ NothingReturns' /\ Underway' \subseteq Underway
  BY <1>0, StayedPlaces DEF PlacesStay
<1>2. TreesFollow' /\ NobodyBlocked'
  BY <1>0 DEF TreesFollow, NobodyBlocked
<1>3. \A t \in Underway : t \in Task /\ tree # NoGraph
  BY <1>0, TreeType DEF MarksHold, SchedulerType, NoGraph
<1>4. r \in SchedulerType /\ r.node = tree /\ r.enqueued = sched.enqueued /\ r.inProgress = sched.inProgress
  BY <1>0 DEF SchedulerType
<1>5. ASSUME NEW t \in Underway
      PROVE  /\ t \in Marked' \/ Past(t)'
             /\ t \in DOMAIN sched'.node
             /\ sched'.node[t] \in {"open", "in_progress"} \/ Past(t)'
  <2>1. sched' = PruneState(r) /\ sched'.node = tree /\ t \in Task
    BY <1>0, <1>3, <1>4, PruneKeeps DEF ApplySnapshot
  <2>2. CASE tree[t] = "open" \/ ~TellsAll
    <3>1. ~Past(t)
      BY <1>0, <2>1, <2>2 DEF Past, NotOpen
    <3>2. t \in Marked
      BY <3>1 DEF MarksHold
    <3>3. tree[t] \in {"open", "in_progress"}
      BY <1>0, <2>1, <2>2, UnderwayOpen DEF ClosedIsDone, NobodyBlocked
    <3> QED BY <1>0, <1>4, <2>1, <3>2, <3>3, PruneKeeps DEF Marked
  <2>3. CASE tree[t] # "open" /\ TellsAll
    <3>1. tracker[t] # "open" /\ \A i \in DOMAIN diffs : NotOpen(diffs[i].upsert, t)
      BY <1>0, <2>1, <2>3 DEF TreesFollow, NotOpen
    <3>2. Past(t)'
      BY <1>0, <2>1, <2>3, <3>1 DEF Past, NotOpen
    <3> QED BY <1>0, <2>1, <3>2
  <2> QED BY <2>2, <2>3
<1>6. MarksHold'
  BY <1>1, <1>5 DEF MarksHold
<1> QED BY <1>1, <1>2, <1>6

\* Nor does a difference.
LEMMA DifferenceKeepsRuns ==
  ASSUME Steady, TypeOK, RunsInv, ClosedIsDone, HandleDiff
  PROVE  RunsInv'
<1> USE DEF RunsInv
<1> DEFINE diff == Head(diffs)
           kept == (DOMAIN sched.node \cup DOMAIN diff.upsert) \ diff.delete
           node == [t \in kept |-> IF t \in DOMAIN diff.upsert THEN diff.upsert[t] ELSE sched.node[t]]
           r    == [Unmark(sched, diff.delete) EXCEPT !.node = node]
<1>0. /\ sched \in SchedulerType /\ diffs \in Seq(Difference) /\ diffs # <<>> /\ Len(diffs) <= 1
      /\ UNCHANGED <<tracker, todo, snapshots, monitor, updates, queue, held, slot, done>>
      /\ sched' = ApplyDiff(sched, diff)
  BY DEF HandleDiff, TypeOK, TreesFollow, workers, Difference
<1>1. /\ 1 \in DOMAIN diffs /\ diff = diffs[1] /\ diff \in Difference /\ diff.delete = {}
      /\ diffs' = <<>>
  BY <1>0 DEF TreesFollow, HandleDiff
<1>2. OncePlaced' /\ NothingReturns' /\ Underway' \subseteq Underway
  BY <1>0, StayedPlaces DEF PlacesStay
<1>3. TreesFollow' /\ NobodyBlocked'
  BY <1>0, <1>1 DEF TreesFollow, NobodyBlocked
<1>4. /\ kept = DOMAIN sched.node \cup DOMAIN diff.upsert /\ kept \subseteq Task /\ node \in Trees
  <2>1. sched.node \in Trees /\ diff.upsert \in Trees
    BY <1>0, <1>1 DEF SchedulerType, Difference
  <2>2. kept = DOMAIN sched.node \cup DOMAIN diff.upsert /\ kept \subseteq Task
    BY <1>1, <2>1, TreeType
  <2>3. node \in [kept -> Status]
    BY <2>1, <2>2, TreeType
  <2> QED BY <2>2, <2>3, TreeType
<1>5. r \in SchedulerType /\ r.node = node /\ r.enqueued = sched.enqueued /\ r.inProgress = sched.inProgress
  BY <1>0, <1>1, <1>4 DEF SchedulerType, Unmark
<1>6. sched' = PruneState(r) /\ sched'.node = node
  BY <1>0, <1>5, PruneKeeps DEF ApplyDiff
<1>7. ASSUME NEW t \in Underway
      PROVE  /\ t \in Marked' \/ Past(t)'
             /\ t \in DOMAIN sched'.node
             /\ sched'.node[t] \in {"open", "in_progress"} \/ Past(t)'
  <2>1. t \in DOMAIN sched.node /\ t \in kept /\ t \in Task
    BY <1>4 DEF MarksHold
  <2>2. ASSUME TellsAll, node[t] # "open", tracker[t] # "open",
               \A i \in DOMAIN snapshots : NotOpen(snapshots[i], t)
        PROVE  Past(t)'
    BY <1>0, <1>1, <1>6, <2>2 DEF Past, NotOpen
  <2>3. CASE Past(t)
    <3>1. TellsAll /\ node[t] # "open"
      BY <1>1, <2>1, <2>3 DEF Past, NotOpen
    <3> QED BY <1>6, <2>1, <2>2, <2>3, <3>1 DEF Past
  <2>4. CASE ~Past(t) /\ node[t] \in {"open", "in_progress"}
    <3>1. t \in Marked
      BY <2>4 DEF MarksHold
    <3> QED BY <1>0, <1>5, <1>6, <2>1, <2>4, <3>1, PruneKeeps DEF Marked
  <2>5. CASE ~Past(t) /\ node[t] \notin {"open", "in_progress"}
    <3>1. t \in DOMAIN diff.upsert /\ diff.upsert[t] # "open"
      BY <2>1, <2>5 DEF MarksHold
    <3>2. TellsAll
      <4>1. diff.upsert \in Trees /\ Completed(diff.upsert) /\ (TellsAll \/ NotBlocked(diff.upsert))
        BY <1>1 DEF ClosedIsDone, NobodyBlocked, Difference
      <4>2. t \in kept /\ node[t] = diff.upsert[t]
        BY <2>1, <3>1
      <4> QED BY <2>5, <3>1, <4>1, <4>2, UnderwayOpen
    <3>3. tracker[t] # "open" /\ \A i \in DOMAIN snapshots : NotOpen(snapshots[i], t)
      BY <1>1, <2>1, <3>1, <3>2 DEF TreesFollow, NotOpen
    <3> QED BY <1>6, <2>1, <2>2, <2>5, <3>2, <3>3
  <2> QED BY <2>3, <2>4, <2>5
<1>8. MarksHold'
  BY <1>2, <1>7 DEF MarksHold
<1> QED BY <1>2, <1>3, <1>8

\* The event that ends a task finds it nowhere else.
LEMMA MonitorKeepsRuns ==
  ASSUME Steady, TypeOK, SlotsHoldItems, RunsInv, HandleMonitor
  PROVE  RunsInv'
<1> USE DEF RunsInv, OncePlaced
<1> DEFINE event == Head(monitor)
           t0    == event.task
<1>0. /\ sched \in SchedulerType /\ monitor \in Seq(Trace) /\ monitor # <<>> /\ monitor' = Tail(monitor)
      /\ updates \in Seq(Update)
      /\ UNCHANGED <<tracker, todo, snapshots, diffs, queue, held, slot, done>>
  BY DEF HandleMonitor, TypeOK, Trace, Update, workers
<1>1. event \in Trace /\ t0 \in Task /\ event.type \in {"started", "completed", "failed"}
  <2>1. event \in Trace
    BY <1>0
  <2> QED BY <2>1 DEF Trace
<1>2. /\ EndsDiffer(monitor, Reopenable)' /\ Ended' \subseteq Ended
      /\ event.type # "started" => t0 \in Ended \cup Reopenable /\ t0 \notin Ended'
  <2> DEFINE D == Reopenable
  <2>1. D' = D /\ EndsDiffer(monitor, D)
    BY <1>0 DEF Reopenable
  <2> HIDE DEF D
  <2>2. /\ EndsDiffer(Tail(monitor), D) /\ EndsOf(Tail(monitor), D) \subseteq EndsOf(monitor, D)
        /\ event.type # "started" =>
              t0 \in EndsOf(monitor, D) \cup D /\ t0 \notin EndsOf(Tail(monitor), D)
    BY <1>0, <2>1, EndsTail
  <2> QED BY <1>0, <2>1, <2>2 DEF Ended, D
<1>a. /\ Waiting' \subseteq Waiting /\ InHand' \subseteq InHand /\ Runs' \subseteq Runs /\ Sent' \subseteq Sent
      /\ Distinct(queue.ready, Reopenable)' /\ HandsDiffer' /\ RunsDiffer'
  BY <1>0, PlaceFrames
<1>3. OncePlaced' /\ NothingReturns' /\ Underway' \subseteq Underway
  BY <1>0, <1>2, <1>a DEF Apart, Underway, NothingReturns
<1>4. event.type # "started" => t0 \notin Underway'
  <2>1. Underway \cap Reopenable = {}
    BY DEF Underway, Sent, Waiting, InHand, Taken, Runs, Ended, TasksOf, EndsOf
  <2> QED BY <1>2, <1>3, <1>a, <2>1 DEF Apart, Underway
<1>b. NobodyBlocked'
  BY <1>0 DEF NobodyBlocked
<1>5. TreesFollow'
  <2>1. \/ UNCHANGED updates
        \/ \E status \in {"in_progress", "closed", "blocked"} :
              Send(updates, updates', [task |-> t0, status |-> status])
    BY <1>1 DEF HandleMonitor
  <2>2. \A i \in DOMAIN updates' : updates'[i].status # "open"
    <3>1. CASE UNCHANGED updates
      BY <3>1 DEF TreesFollow
    <3>2. ASSUME NEW status \in {"in_progress", "closed", "blocked"},
                 Send(updates, updates', [task |-> t0, status |-> status])
          PROVE  \A i \in DOMAIN updates' : updates'[i].status # "open"
      <4>1. [task |-> t0, status |-> status] \in Update
        BY <1>1 DEF Update, Status
      <4>2. \A i \in DOMAIN updates' : \/ updates'[i] = [task |-> t0, status |-> status]
                                       \/ \E j \in DOMAIN updates : updates'[i] = updates[j]
        BY <1>0, <3>2, <4>1, SentElements
      <4> QED BY <4>2 DEF TreesFollow
    <3> QED BY <2>1, <3>1, <3>2
  <2> QED BY <1>0, <2>2 DEF TreesFollow
<1>6. /\ DOMAIN sched'.node = DOMAIN sched.node
      /\ \A t \in DOMAIN sched.node : sched'.node[t] = sched.node[t] \/ (t = t0 /\ sched'.node[t] # "open")
      /\ \A t \in Task \ {t0} : /\ t \in sched.enqueued => t \in sched'.enqueued
                                /\ t \in sched.inProgress => t \in sched'.inProgress
      /\ event.type = "started" => /\ t0 \in sched'.inProgress
                                   /\ t0 \in DOMAIN sched.node => sched'.node[t0] = "in_progress"
  <2>1. CASE event.type = "started" /\ sched' = TaskStarted(sched, t0)
    BY <1>0, <1>1, <2>1 DEF TaskStarted, SetNode, SchedulerType
  <2>2. CASE event.type = "completed" /\ sched' = TaskCompleted(sched, t0)
    BY <1>0, <1>1, <2>2 DEF TaskCompleted, SetNode, Unmark, SchedulerType
  <2>3. CASE event.type = "failed" /\ sched' = TaskFailed(sched, t0)
    BY <1>0, <1>1, <2>3 DEF TaskFailed, SetNode, SchedulerType
  <2> QED BY <1>1, <2>1, <2>2, <2>3 DEF HandleMonitor
<1>7. MarksHold'
  <2> SUFFICES ASSUME NEW t \in Underway'
               PROVE  /\ t \in Marked' \/ Past(t)'
                      /\ t \in DOMAIN sched'.node
                      /\ sched'.node[t] \in {"open", "in_progress"} \/ Past(t)'
    BY DEF MarksHold
  <2>1. t \in Underway /\ t \in DOMAIN sched.node /\ t \in Task
    BY <1>0, <1>3, TreeType DEF MarksHold, SchedulerType
  <2>2. Past(t) => Past(t)'
    BY <1>0, <1>6, <2>1 DEF Past, NotOpen
  <2>3. CASE t # t0
    BY <1>0, <1>6, <2>1, <2>2, <2>3 DEF MarksHold, Marked
  <2>4. CASE t = t0
    BY <1>4, <1>6, <2>1, <2>4 DEF Marked
  <2> QED BY <2>3, <2>4
<1> QED BY <1>3, <1>5, <1>7, <1>b

\* A status the mastermind writes is never "open".
LEMMA StatusKeepsRuns ==
  ASSUME Steady, TypeOK, RunsInv, HandleStatusUpdate
  PROVE  RunsInv'
<1> USE DEF RunsInv
<1>0. /\ tracker \in [Task -> Status] /\ updates \in Seq(Update) /\ updates # <<>>
      /\ updates' = Tail(updates) /\ sched \in SchedulerType
      /\ UNCHANGED <<sched, todo, snapshots, diffs, monitor, queue, held, slot, done>>
  BY DEF HandleStatusUpdate, TypeOK, Update, workers
<1>1. OncePlaced' /\ NothingReturns' /\ Underway' \subseteq Underway
  BY <1>0, StayedPlaces DEF PlacesStay
<1> DEFINE u == Head(updates)
<1>a. u.status \in Status /\ u.status # "open"
  <2>1. u \in Update /\ \E i \in DOMAIN updates : u = updates[i]
    BY <1>0, ChannelElements
  <2> QED BY <2>1 DEF TreesFollow, Update
<1>b. tracker' = tracker \/ tracker' = [tracker EXCEPT ![u.task] = Shown(u.status)]
  BY DEF HandleStatusUpdate
<1>c. (TellsAll => Shown(u.status) # "open") /\ (~TellsAll => Shown(u.status) # "blocked")
  BY <1>a, SchedulingAssumption DEF TellsAll, Shown, Status
<1> HIDE DEF u
<1>2. \A t \in Task : TellsAll /\ tracker'[t] = "open" => tracker[t] = "open"
  BY <1>0, <1>b, <1>c
<1>d. NobodyBlocked'
  BY <1>0, <1>b, <1>c DEF NobodyBlocked, NotBlocked
<1>3. \A i \in DOMAIN updates' : updates'[i].status # "open"
  <2>1. \A i \in DOMAIN updates' : \E j \in DOMAIN updates : updates'[i] = updates[j]
    BY <1>0, ChannelElements
  <2> QED BY <2>1 DEF TreesFollow
<1>4. TreesFollow'
  BY <1>0, <1>2, <1>3 DEF TreesFollow
<1>5. \A t \in Task : Past(t) => Past(t)'
  BY <1>0, <1>2 DEF Past, NotOpen
<1>6. MarksHold'
  <2>1. Underway \subseteq Task
    BY <1>0, TreeType DEF MarksHold, SchedulerType
  <2> QED BY <1>0, <1>1, <1>5, <2>1 DEF MarksHold, Marked
<1> QED BY <1>1, <1>4, <1>6, <1>d

\* A round takes only tasks that are not under way.
LEMMA PlanKeepsRuns ==
  ASSUME Steady, TypeOK, RunsInv, Plan
  PROVE  RunsInv'
<1> USE DEF RunsInv
<1>0. /\ sched \in SchedulerType /\ todo = Nothing /\ sched' = AfterPlan(sched, Matched)
      /\ UNCHANGED <<tracker, snapshots, diffs, monitor, updates, queue, held, slot, done>>
  BY DEF Plan, TypeOK, channels, workers
<1>1. PICK plan \in Plans(sched, FreeSlots, Matched) :
        todo' = [block |-> plan.block, send |-> plan.send, mark |-> {}]
  BY DEF Plan
<1>2. /\ todo'.send = plan.send
      /\ plan.send \subseteq RunnableCandidates(sched) \ (sched.enqueued \cup sched.inProgress)
  <2> DEFINE runnable == RunnableCandidates(sched) \ (sched.enqueued \cup sched.inProgress)
             ready    == runnable \cap Matched
  <2>1. PICK send \in kSubset(Min({Budget(sched, FreeSlots), Cardinality(ready)}), ready) :
          plan = [block |-> runnable \ (Matched \cup sched.blocked), send |-> send]
    BY DEF Plans
  <2>2. send \subseteq ready
    BY DEF kSubset
  <2> QED BY <1>1, <2>1, <2>2
<1>3. /\ sched'.node = sched.node /\ sched'.enqueued = sched.enqueued
      /\ sched'.inProgress = sched.inProgress
  BY <1>0 DEF AfterPlan, SchedulerType
<1>4. ASSUME NEW t \in plan.send
      PROVE  t \in DOMAIN sched.node /\ sched.node[t] = "open" /\ t \notin Underway
  <2>1. t \in DOMAIN sched.node /\ sched.node[t] = "open"
    BY <1>2 DEF RunnableCandidates
  <2>2. t \notin Marked
    BY <1>0, <1>2 DEF Marked, Nothing
  <2> QED BY <2>1, <2>2 DEF MarksHold, Past, NotOpen
<1>a. /\ Waiting' \subseteq Waiting /\ InHand' \subseteq InHand /\ Runs' \subseteq Runs /\ Ended' \subseteq Ended
      /\ Distinct(queue.ready, Reopenable)' /\ HandsDiffer' /\ RunsDiffer' /\ EndsDiffer(monitor, Reopenable)'
      /\ Sent' \subseteq plan.send
  <2>1. Sent' \subseteq plan.send
    BY <1>2 DEF Sent
  <2> QED BY <1>0, <2>1, PlaceFrames DEF OncePlaced
<1>5. OncePlaced' /\ NothingReturns'
  BY <1>0, <1>4, <1>a DEF OncePlaced, Apart, Underway, NothingReturns
<1>6. TreesFollow' /\ NobodyBlocked'
  BY <1>0 DEF TreesFollow, NobodyBlocked
<1>7. \A t : Past(t) => Past(t)'
  BY <1>0, <1>3 DEF Past, NotOpen
<1>8. MarksHold'
  <2> SUFFICES ASSUME NEW t \in Underway'
               PROVE  /\ t \in Marked' \/ Past(t)'
                      /\ t \in DOMAIN sched'.node
                      /\ sched'.node[t] \in {"open", "in_progress"} \/ Past(t)'
    BY DEF MarksHold
  <2>1. t \in plan.send \/ t \in Underway
    BY <1>a DEF Underway
  <2>2. CASE t \in plan.send
    BY <1>2, <1>3, <1>4, <2>2 DEF Marked
  <2>3. CASE t \in Underway
    BY <1>0, <1>3, <1>7, <2>3 DEF MarksHold, Marked, Nothing
  <2> QED BY <2>1, <2>2, <2>3
<1> QED BY <1>5, <1>6, <1>8

\* Carrying a round out: what leaves the round's list is in the queue, and marked
\* before the next round.
LEMMA RoundKeepsRuns ==
  ASSUME Steady, TypeOK, RunsInv, MarkEnqueued \/ \E t \in Task : ReportBlocked(t) \/ EnqueueTask(t)
  PROVE  RunsInv'
<1> USE DEF RunsInv
<1>0. /\ sched \in SchedulerType /\ updates \in Seq(Update) /\ queue \in QueueType
      /\ queue.ready \in Seq(Item)
      /\ todo \in [block : SUBSET Task, send : SUBSET Task, mark : SUBSET Task]
  BY DEF TypeOK, Update, QueueType
<1>1. CASE MarkEnqueued
  <2>1. /\ UNCHANGED <<tracker, snapshots, diffs, monitor, updates, queue, held, slot, done>>
        /\ todo'.send = todo.send /\ todo'.mark = {}
        /\ sched'.node = sched.node /\ sched'.inProgress = sched.inProgress
        /\ sched'.enqueued = sched.enqueued \cup todo.mark
    BY <1>0, <1>1 DEF MarkEnqueued, channels, workers, SchedulerType
  <2>2. OncePlaced' /\ NothingReturns' /\ Underway' \subseteq Underway
    BY <2>1, StayedPlaces DEF PlacesStay
  <2>3. TreesFollow' /\ NobodyBlocked'
    BY <2>1 DEF TreesFollow, NobodyBlocked
  <2>4. (\A t : Past(t) => Past(t)') /\ Marked' = Marked
    BY <2>1 DEF Past, NotOpen, Marked
  <2> QED BY <2>1, <2>2, <2>3, <2>4 DEF MarksHold
<1>2. ASSUME NEW t \in Task, ReportBlocked(t) PROVE RunsInv'
  <2>1. /\ UNCHANGED <<tracker, snapshots, diffs, monitor, queue, held, slot, done>>
        /\ todo'.send = todo.send /\ todo'.mark = todo.mark
        /\ sched'.node = sched.node /\ sched'.inProgress = sched.inProgress
        /\ sched'.enqueued = sched.enqueued
    BY <1>0, <1>2 DEF ReportBlocked, workers, SchedulerType
  <2>2. OncePlaced' /\ NothingReturns' /\ Underway' \subseteq Underway
    BY <2>1, StayedPlaces DEF PlacesStay
  <2>3. \A i \in DOMAIN updates' : updates'[i].status # "open"
    <3>1. [task |-> t, status |-> "blocked"] \in Update
      BY DEF Update, Status
    <3>2. \A i \in DOMAIN updates' : \/ updates'[i] = [task |-> t, status |-> "blocked"]
                                     \/ \E j \in DOMAIN updates : updates'[i] = updates[j]
      BY <1>0, <1>2, <3>1, SentElements DEF ReportBlocked
    <3> QED BY <3>2 DEF TreesFollow
  <2>4. TreesFollow' /\ NobodyBlocked'
    BY <2>1, <2>3 DEF TreesFollow, NobodyBlocked
  <2>5. (\A u : Past(u) => Past(u)') /\ Marked' = Marked
    BY <2>1 DEF Past, NotOpen, Marked
  <2> QED BY <2>1, <2>2, <2>4, <2>5 DEF MarksHold
<1>3. ASSUME NEW t \in Task, EnqueueTask(t) PROVE RunsInv'
  <2>1. /\ UNCHANGED <<tracker, sched, snapshots, diffs, monitor, updates, held, slot, done>>
        /\ todo'.send = todo.send \ {t} /\ todo'.mark = {t} /\ t \in todo.send /\ todo.mark = {}
    BY <1>0, <1>3 DEF EnqueueTask, channels
  <2>2. PICK id \in FreeIds : queue' = Enqueue(queue, [id |-> id, task |-> t])
    BY <1>3 DEF EnqueueTask
  <2>3. [id |-> id, task |-> t] \in Item /\ queue'.ready = Append(queue.ready, [id |-> id, task |-> t])
    BY <1>0, <2>2 DEF FreeIds, Item, Enqueue, QueueType
  <2>4. t \in Sent \cup Reopenable /\ Sent' = Sent \ {t} /\ t \notin Waiting
    BY <2>1 DEF Sent, OncePlaced, Apart, Waiting, TasksOf, Reopenable
  <2>5. Distinct(queue.ready, Reopenable)' /\ Waiting' = Waiting \cup ({t} \ Reopenable)
    <3> DEFINE D == Reopenable
    <3>1. D' = D /\ Distinct(queue.ready, D) /\ t \notin TasksOf(queue.ready, D)
      BY <2>1, <2>4 DEF Reopenable, OncePlaced, Waiting
    <3> HIDE DEF D
    <3>2. /\ TasksOf(queue'.ready, D) = TasksOf(queue.ready, D) \cup ({t} \ D)
          /\ Distinct(queue'.ready, D)
      BY <1>0, <2>3, <3>1, DistinctAppend
    <3> QED BY <3>1, <3>2 DEF Waiting, D
  <2>6. OncePlaced' /\ NothingReturns' /\ Underway' \subseteq Underway
    <3>1. /\ InHand' \subseteq InHand /\ Runs' \subseteq Runs /\ Ended' \subseteq Ended
          /\ HandsDiffer' /\ RunsDiffer' /\ EndsDiffer(monitor, Reopenable)'
      BY <2>1, PlaceFrames DEF OncePlaced
    <3> QED BY <2>1, <2>4, <2>5, <3>1 DEF OncePlaced, Apart, Underway, NothingReturns
  <2>7. TreesFollow' /\ NobodyBlocked'
    BY <2>1 DEF TreesFollow, NobodyBlocked
  <2>8. (\A u : Past(u) => Past(u)') /\ Marked' = Marked
    BY <2>1 DEF Past, NotOpen, Marked
  <2> QED BY <2>1, <2>6, <2>7, <2>8 DEF MarksHold
<1> QED BY <1>1, <1>2, <1>3

-----------------------------------------------------------------------------

\* Over any bus while it delivers once, with the tracker readable, ticks handled in order, no
\* transient failure and no restart, two executors never run the same task at the same
\* time, one already completed that tk or GitHub calls open again aside: through failing
\* runners and workspaces, lost events and tracker writes, stopping and late executors and
\* expired advertisements, for any task graph, any number of executors and each of the
\* trackers (buildDispatchPlan's marks, QueueWorkerRuntime).
THEOREM TasksRunAlone ==
  ASSUME Steady
  PROVE  Spec => []RunsAlone
<1>1. Init => RunsInv
  <2> SUFFICES ASSUME Init PROVE RunsInv
    OBVIOUS
  <2>1. /\ Waiting = {} /\ InHand = {} /\ Runs = {} /\ Ended = {} /\ todo.send = {}
        /\ HandsDiffer /\ RunsDiffer /\ EndsDiffer(monitor, Reopenable) /\ Distinct(queue.ready, Reopenable)
    BY DEF Init, Waiting, InHand, Runs, Ended, HandsDiffer, RunsDiffer, EndsDiffer, EndsOf, Ends,
           Distinct, TasksOf, Taken, Running, Idle, EmptyQueue, Nothing
  <2>a. NobodyBlocked
    BY SchedulingAssumption DEF Init, NobodyBlocked, NotBlocked, TellsAll, Shown
  <2>2. TreesFollow /\ NothingReturns
    BY DEF Init, TreesFollow, NothingReturns, Idle
  <2>3. Underway = {}
    BY <2>1 DEF Underway, Sent
  <2> QED BY <2>1, <2>2, <2>3, <2>a DEF RunsInv, OncePlaced, Apart, MarksHold, Sent
<1>2. TypeOK /\ SlotsHoldItems /\ ClosedIsDone /\ RunsInv /\ [Next]_vars => RunsInv'
  <2> SUFFICES ASSUME TypeOK, SlotsHoldItems, ClosedIsDone, RunsInv, [Next]_vars PROVE RunsInv'
    OBVIOUS
  <2>1. CASE Mastermind
    BY <2>1, TickKeepsRuns, SnapshotKeepsRuns, DifferenceKeepsRuns, MonitorKeepsRuns,
       StatusKeepsRuns, PlanKeepsRuns, RoundKeepsRuns DEF Mastermind
  <2>2. CASE \E e \in Executor : Runtime(e)
    BY <2>2, RuntimeKeepsRuns
  <2>3. CASE Environment
    <3>1. UNCHANGED <<tracker, sched, todo, snapshots, diffs, updates, monitor, queue, held, slot, done>>
      BY <2>3 DEF Environment, Restart, Register, Heartbeat, Expire, ReceiveAgain, Stop, Fault,
                  Steady, Overdue, channels, workers
    <3> QED BY <3>1, StayedPlaces, RecordFrame DEF PlacesStay, RunsInv
  <2>4. CASE UNCHANGED vars
    BY <2>4, StayedPlaces, RecordFrame DEF PlacesStay, RunsInv, vars, channels, workers
  <2> QED BY <2>1, <2>2, <2>3, <2>4 DEF Next
<1>3. TypeOK /\ RunsInv => RunsAlone
  <2> SUFFICES ASSUME RunsInv, NEW t \in Task \ Reopenable PROVE Cardinality(Running(t)) <= 1
    BY DEF RunsAlone
  <2>1. CASE Running(t) = {}
    BY <2>1, FS_EmptySet
  <2>2. CASE Running(t) # {}
    <3>1. PICK p : p \in Running(t)
      BY <2>2
    <3>2. Running(t) = {p}
      BY <3>1 DEF RunsInv, OncePlaced, RunsDiffer
    <3>3. Cardinality({p}) = 1
      BY FS_Singleton
    <3> QED BY <3>2, <3>3
  <2> QED BY <2>1, <2>2
<1> QED BY <1>1, <1>2, <1>3, QueueTypeInvariant, DependencyInvariant, PTL DEF Spec

-----------------------------------------------------------------------------
(* The work queued or running stays within the executors' capacity, as long *)
(* as nothing fails: a failed task may be reopened by a tree read before it *)
(* failed, and the next tree then takes its mark while it is queued again.  *)

\* No failure but lost events and lost writes, each task matched by an executor that is
\* registered from the start, and items that keep their identity.
Calm == /\ Bus # "redis" /\ Faults \subseteq {"lag", "drop", "write"}
        /\ \A t \in Task : Matches[t] \cap InitiallyUp # {}
        /\ IsFiniteSet(Task) /\ IsFiniteSet(Executor)

\* Tasks blocked from the start, which nobody takes up.
Resting == {t \in Task : InitialStatus[t] = "blocked"}

\* A tree never calls a task that is not done closed, nor blocked unless it rests.
OnlyProgress(tree) ==
  \A t \in DOMAIN tree : t \notin done =>
    IF t \in Resting THEN tree[t] = "blocked" ELSE tree[t] \in {"open", "in_progress"}

NothingFails ==
  /\ Resting \cap done = {}
  /\ OnlyProgress(tracker) /\ OnlyProgress(sched.node)
  /\ \A i \in DOMAIN snapshots : DOMAIN snapshots[i] = Task /\ OnlyProgress(snapshots[i])
  /\ \A i \in DOMAIN diffs : diffs[i].delete = {} /\ OnlyProgress(diffs[i].upsert)
  /\ \A i \in DOMAIN monitor : /\ monitor[i].type \in {"started", "completed"}
                               /\ monitor[i].type = "completed" => monitor[i].task \in done
                               /\ monitor[i].task \notin Resting
  /\ \A i \in DOMAIN updates : /\ updates[i].status \in {"in_progress", "closed"}
                               /\ updates[i].status = "closed" => updates[i].task \in done
                               /\ updates[i].task \notin Resting

NobodyLeaves ==
  /\ \A e \in Executor : up[e] \in {"new", "up"}
  /\ \A e \in InitiallyUp : registry[e].present /\ registry[e].known
  /\ todo.block = {} /\ NothingReturns

LoadTasks == {i.task : i \in Unfinished}

\* What is queued or runs is counted: each task once, by a mark or by one on its way.
LoadIsMarked ==
  /\ \A i, j \in Unfinished : i.task = j.task => i = j
  /\ LoadTasks \cap todo.send = {}
  /\ LoadTasks \subseteq sched.enqueued \cup sched.inProgress \cup todo.mark
  /\ LoadTasks \cup todo.send \cup todo.mark \subseteq DOMAIN sched.node \ Resting

InBudget ==
  Cardinality(LoadTasks \cup todo.send) * 100 <= Cardinality(Executor) * Slots * Backpressure

CapacityInv == NothingFails /\ NobodyLeaves /\ LoadIsMarked /\ InBudget

-----------------------------------------------------------------------------

\* The identities and places of Unfinished, one by one.
OnQueue(item)  == \E i \in DOMAIN queue.ready : queue.ready[i] = item
IsHeld(item)   == \E e \in Executor : \E i \in DOMAIN held[e] : held[e][i] = item
IsRun(item)    == \E p \in Places : slot[p].phase = "run" /\ slot[p].item = item

LEMMA UnfinishedPlaces ==
  /\ \A i : i \in Unfinished  <=> (OnQueue(i) \/ IsHeld(i) \/ IsRun(i))   /\ i.task \notin done
  /\ \A i : i \in Unfinished' <=> (OnQueue(i) \/ IsHeld(i) \/ IsRun(i))' /\ i.task \notin done'
<1>1. /\ \A i : i \in Range(queue.ready) <=> OnQueue(i)
      /\ \A i : i \in Range(queue'.ready) <=> OnQueue(i)'
  BY DEF Range, OnQueue
<1>2. /\ \A i : i \in UNION {Range(held[e]) : e \in Executor} <=> IsHeld(i)
      /\ \A i : i \in UNION {Range(held'[e]) : e \in Executor} <=> IsHeld(i)'
  BY DEF Range, IsHeld
<1>3. /\ \A i : i \in {slot[p].item : p \in {x \in Places : slot[x].phase = "run"}} <=> IsRun(i)
      /\ \A i : i \in {slot'[p].item : p \in {x \in Places : slot'[x].phase = "run"}} <=> IsRun(i)'
  BY DEF IsRun
<1> DEFINE All == Range(queue.ready) \cup (UNION {Range(held[e]) : e \in Executor})
                  \cup {slot[p].item : p \in {x \in Places : slot[x].phase = "run"}}
<1>4. /\ \A i : i \in All  <=> OnQueue(i) \/ IsHeld(i) \/ IsRun(i)
      /\ \A i : i \in All' <=> (OnQueue(i) \/ IsHeld(i) \/ IsRun(i))'
  BY <1>1, <1>2, <1>3
<1>5. Unfinished = {i \in All : i.task \notin done} /\ Unfinished' = {i \in All' : i.task \notin done'}
  BY DEF Unfinished
<1> HIDE DEF All
<1> QED BY <1>4, <1>5

LEMMA UnfinishedItems ==
  ASSUME TypeOK, SlotsHoldItems
  PROVE  Unfinished \subseteq Item /\ LoadTasks \subseteq Task
<1>0. /\ queue.ready \in Seq(Item) /\ held \in [Executor -> Seq(Item)] /\ slot \in [Places -> SlotType]
  BY DEF TypeOK, SlotType
<1>1. \A i : OnQueue(i) => i \in Item
  BY <1>0 DEF OnQueue
<1>2. \A i : IsHeld(i) => i \in Item
  BY <1>0 DEF IsHeld
<1>3. \A i : IsRun(i) => i \in Item
  BY DEF IsRun, SlotsHoldItems
<1>4. Unfinished \subseteq Item
  BY <1>1, <1>2, <1>3, UnfinishedPlaces
<1> QED BY <1>4 DEF LoadTasks, Item

\* A set of tasks that does not grow stays within the budget.
LEMMA BudgetShrinks ==
  ASSUME Calm, TypeOK, SlotsHoldItems, InBudget,
         (LoadTasks \cup todo.send)' \subseteq LoadTasks \cup todo.send
  PROVE  InBudget'
<1> DEFINE W == LoadTasks \cup todo.send
<1>1. W \subseteq Task
  BY UnfinishedItems DEF TypeOK
<1>2. IsFiniteSet(W)
  BY <1>1, FS_Subset DEF Calm
<1>3. IsFiniteSet(W') /\ Cardinality(W') <= Cardinality(W)
  BY <1>2, FS_Subset
<1>4. Cardinality(W) \in Nat /\ Cardinality(W') \in Nat
  BY <1>2, <1>3, FS_CardinalityType
<1>5. Cardinality(Executor) \in Nat /\ Slots \in Nat /\ Backpressure \in Nat
  BY FS_CardinalityType, SchedulingAssumption, GraphAssumption DEF Calm
<1> DEFINE bound == Cardinality(Executor) * Slots * Backpressure
<1>6. bound \in Nat /\ Cardinality(W) * 100 <= bound
  BY <1>5 DEF InBudget
<1>7. Cardinality(W') * 100 <= bound
  <2> HIDE DEF bound, W
  <2> QED BY <1>3, <1>4, <1>6
<1> QED BY <1>7 DEF InBudget

\* Nothing new is on its way, and what is keeps its mark.
LEMMA LoadStays ==
  ASSUME Calm, TypeOK, SlotsHoldItems, LoadIsMarked, InBudget,
         Unfinished' \subseteq Unfinished,
         todo'.send \subseteq todo.send, todo'.mark \subseteq todo.mark,
         DOMAIN sched.node \subseteq DOMAIN sched'.node,
         \A t \in LoadTasks' : t \in sched.enqueued \cup sched.inProgress \cup todo.mark
            => t \in sched'.enqueued \cup sched'.inProgress \cup todo'.mark
  PROVE  LoadIsMarked' /\ InBudget'
<1>1. LoadTasks' \subseteq LoadTasks
  BY DEF LoadTasks
<1>2. LoadIsMarked'
  BY <1>1 DEF LoadIsMarked, Resting
<1>3. InBudget'
  BY <1>1, BudgetShrinks
<1> QED BY <1>2, <1>3

LEMMA OnlyProgressFrame ==
  ASSUME done \subseteq done'
  PROVE  \A tree : OnlyProgress(tree) => OnlyProgress(tree)'
BY DEF OnlyProgress, Resting

\* What an item that waits, is held or runs may be: its task does not rest.
LEMMA ItemsAwake ==
  ASSUME TypeOK, SlotsHoldItems, NothingFails, LoadIsMarked, NEW i \in Item,
         OnQueue(i) \/ IsHeld(i) \/ IsRun(i)
  PROVE  i.task \notin Resting
<1>1. i.task \in done => i.task \notin Resting
  BY DEF NothingFails
<1>2. i.task \notin done => i.task \in LoadTasks
  BY UnfinishedPlaces DEF LoadTasks
<1> QED BY <1>1, <1>2 DEF LoadIsMarked

\* The executors move items on, and only to their end.
LEMMA RuntimeMovesItems ==
  ASSUME Calm, TypeOK, SlotsHoldItems, CapacityInv, NEW e \in Executor, Runtime(e)
  PROVE  /\ \A i : OnQueue(i)' \/ IsHeld(i)' \/ IsRun(i)' => OnQueue(i) \/ IsHeld(i) \/ IsRun(i)
         /\ done \subseteq done' /\ Resting \cap done' = {}
         /\ \A k \in DOMAIN monitor' : /\ monitor'[k].type \in {"started", "completed"}
                                       /\ monitor'[k].type = "completed" => monitor'[k].task \in done'
                                       /\ monitor'[k].task \notin Resting
         /\ NothingReturns' /\ UNCHANGED <<up, registry>>
<1> DEFINE MonitorFine == \A k \in DOMAIN monitor' :
             /\ monitor'[k].type \in {"started", "completed"}
             /\ monitor'[k].type = "completed" => monitor'[k].task \in done'
             /\ monitor'[k].task \notin Resting
           Moves == \A i : OnQueue(i)' \/ IsHeld(i)' \/ IsRun(i)' => OnQueue(i) \/ IsHeld(i) \/ IsRun(i)
<1>0. /\ queue \in QueueType /\ queue.ready \in Seq(Item) /\ held \in [Executor -> Seq(Item)]
      /\ slot \in [Places -> SlotType] /\ monitor \in Seq(Trace) /\ held[e] \in Seq(Item)
      /\ up[e] \in {"new", "up"} /\ NothingReturns /\ Resting \cap done = {}
  BY DEF TypeOK, SlotType, QueueType, Trace, CapacityInv, NobodyLeaves, NothingFails
<1>a. UNCHANGED <<monitor, done>> => MonitorFine
  BY DEF CapacityInv, NothingFails
<1>b. UNCHANGED slot => NothingReturns' /\ \A i : IsRun(i)' <=> IsRun(i)
  BY <1>0 DEF NothingReturns, IsRun
<1>c. ASSUME held[e] # <<>>, held' = [held EXCEPT ![e] = Tail(@)]
      PROVE  /\ IsHeld(Head(held[e])) /\ Head(held[e]) \in Item
             /\ \A i : IsHeld(i)' => IsHeld(i)
  <2>1. 1 \in DOMAIN held[e] /\ Head(held[e]) = held[e][1] /\ Head(held[e]) \in Item
    BY <1>0, <1>c
  <2>2. \A k \in DOMAIN Tail(held[e]) : \E j \in DOMAIN held[e] : Tail(held[e])[k] = held[e][j]
    BY <1>0, <1>c, ChannelElements
  <2>3. held'[e] = Tail(held[e]) /\ \A f \in Executor : f # e => held'[f] = held[f]
    BY <1>0, <1>c
  <2>4. ASSUME NEW i, IsHeld(i)' PROVE IsHeld(i)
    <3>1. PICK f \in Executor : \E k \in DOMAIN held'[f] : held'[f][k] = i
      BY <2>4 DEF IsHeld
    <3>2. \E k \in DOMAIN held[f] : held[f][k] = i
      <4>1. CASE f # e
        BY <2>3, <3>1, <4>1
      <4>2. CASE f = e
        <5>1. PICK k \in DOMAIN Tail(held[e]) : Tail(held[e])[k] = i
          BY <2>3, <3>1, <4>2
        <5> QED BY <2>2, <4>2, <5>1
      <4> QED BY <4>1, <4>2
    <3> QED BY <3>2 DEF IsHeld
  <2>5. IsHeld(Head(held[e]))
    BY <2>1 DEF IsHeld
  <2> QED BY <2>1, <2>4, <2>5
<1>1. CASE Receive(e)
  <2>1. /\ queue.ready # <<>> /\ queue'.ready = Tail(queue.ready)
        /\ held' = [held EXCEPT ![e] = Append(@, Head(queue.ready))]
        /\ UNCHANGED <<slot, monitor, done, up, registry>>
    BY <1>1 DEF Receive, CanTake, Take, channels
  <2>2. \A i : OnQueue(i)' => OnQueue(i)
    <3>1. \A k \in DOMAIN Tail(queue.ready) : \E j \in DOMAIN queue.ready : Tail(queue.ready)[k] = queue.ready[j]
      BY <1>0, <2>1, ChannelElements
    <3> QED BY <2>1, <3>1 DEF OnQueue
  <2>3. \A i : IsHeld(i)' => IsHeld(i) \/ OnQueue(i)
    <3>1. Head(queue.ready) \in Item /\ OnQueue(Head(queue.ready))
      <4>1. 1 \in DOMAIN queue.ready /\ Head(queue.ready) = queue.ready[1] /\ Head(queue.ready) \in Item
        BY <1>0, <2>1
      <4> QED BY <4>1 DEF OnQueue
    <3>2. \A f \in Executor : held'[f] = IF f = e THEN Append(held[e], Head(queue.ready)) ELSE held[f]
      BY <1>0, <2>1
    <3>3. \A k \in DOMAIN Append(held[e], Head(queue.ready)) :
            \/ Append(held[e], Head(queue.ready))[k] = Head(queue.ready)
            \/ \E j \in DOMAIN held[e] : Append(held[e], Head(queue.ready))[k] = held[e][j]
      BY <1>0, <3>1, ChannelElements
    <3> QED BY <3>1, <3>2, <3>3 DEF IsHeld
  <2> QED BY <1>0, <1>a, <1>b, <2>1, <2>2, <2>3
<1>2. ASSUME Refuse(e) \/ GiveBack(e) PROVE Moves /\ UNCHANGED <<slot, monitor, done, up, registry>>
  <2>1. PICK id \in NackIds(Head(held[e])) :
          /\ held[e] # <<>> /\ held' = [held EXCEPT ![e] = Tail(@)]
          /\ queue' = Nack(queue, Head(held[e]), id)
          /\ UNCHANGED <<slot, monitor, done, up, registry>>
    BY <1>2 DEF Refuse, GiveBack, channels
  <2>2. queue'.ready = Append(queue.ready, Head(held[e])) \/ queue'.ready = queue.ready
    BY <1>0, <2>1 DEF Nack, Enqueue, Ack, Calm, QueueType
  <2>3. Head(held[e]) \in Item /\ IsHeld(Head(held[e])) /\ \A i : IsHeld(i)' => IsHeld(i)
    BY <1>c, <2>1
  <2>4. \A k \in DOMAIN queue'.ready : \/ queue'.ready[k] = Head(held[e])
                                       \/ \E j \in DOMAIN queue.ready : queue'.ready[k] = queue.ready[j]
    <3>1. CASE queue'.ready = Append(queue.ready, Head(held[e]))
      <4>1. \A k \in DOMAIN Append(queue.ready, Head(held[e])) :
              \/ Append(queue.ready, Head(held[e]))[k] = Head(held[e])
              \/ \E j \in DOMAIN queue.ready : Append(queue.ready, Head(held[e]))[k] = queue.ready[j]
        BY <1>0, <2>3, ChannelElements
      <4> QED BY <3>1, <4>1
    <3> QED BY <2>2, <3>1
  <2>5. \A i : OnQueue(i)' => OnQueue(i) \/ IsHeld(i)
    BY <2>3, <2>4 DEF OnQueue
  <2> QED BY <1>b, <2>1, <2>3, <2>5
<1>3. ~PublishOffline(e)
  BY <1>0 DEF PublishOffline
<1>4. ASSUME NEW p \in Places, p[1] = e, Start(p)
      PROVE  /\ Moves /\ UNCHANGED <<done, up, registry>> /\ NothingReturns'
             /\ Send(monitor, monitor', [type |-> "started", task |-> Head(held[e]).task])
             /\ IsHeld(Head(held[e])) /\ Head(held[e]) \in Item
  <2>1. /\ held[e] # <<>> /\ held' = [held EXCEPT ![e] = Tail(@)]
        /\ Send(monitor, monitor', [type |-> "started", task |-> Head(held[e]).task])
        /\ slot' = [slot EXCEPT ![p] = [item |-> Head(held[e]), phase |-> "run"]]
        /\ UNCHANGED <<queue, done, up, registry>>
    BY <1>4 DEF Start, Fault, Calm
  <2>2. Head(held[e]) \in Item /\ IsHeld(Head(held[e])) /\ \A i : IsHeld(i)' => IsHeld(i)
    BY <1>c, <2>1
  <2>3. \A q \in Places : slot'[q] = IF q = p THEN [item |-> Head(held[e]), phase |-> "run"] ELSE slot[q]
    BY <1>0, <2>1
  <2>4. NothingReturns' /\ \A i : IsRun(i)' => IsRun(i) \/ i = Head(held[e])
    <3>1. \A q \in Places : \/ slot'[q] = slot[q]
                            \/ slot'[q].item = Head(held[e]) /\ slot'[q].phase = "run"
      BY <2>3
    <3> QED BY <1>0, <3>1 DEF NothingReturns, IsRun
  <2>5. \A i : OnQueue(i)' => OnQueue(i)
    BY <2>1 DEF OnQueue
  <2> QED BY <2>1, <2>2, <2>4, <2>5
<1>5. ASSUME NEW p \in Places, p[1] = e, Finish(p)
      PROVE  /\ Moves /\ UNCHANGED <<up, registry>> /\ NothingReturns'
             /\ done' = done \cup {slot[p].item.task}
             /\ Send(monitor, monitor', [type |-> "completed", task |-> slot[p].item.task])
             /\ IsRun(slot[p].item) /\ slot[p].item \in Item
  <2>1. /\ slot[p].phase = "run" /\ done' = done \cup {slot[p].item.task}
        /\ Send(monitor, monitor', [type |-> "completed", task |-> slot[p].item.task])
        /\ slot' = [slot EXCEPT ![p].phase = "ack"]
        /\ UNCHANGED <<queue, held, up, registry>>
    BY <1>0, <1>5 DEF Finish, Fault, Calm, Cancelled
  <2>2. IsRun(slot[p].item) /\ slot[p].item \in Item
    BY <2>1 DEF IsRun, SlotsHoldItems
  <2>3. \A q \in Places : slot'[q].item = slot[q].item /\ slot'[q].phase = IF q = p THEN "ack" ELSE slot[q].phase
    BY <1>0, <2>1, SlotPhase
  <2>4. NothingReturns' /\ \A i : IsRun(i)' => IsRun(i)
    BY <1>0, <2>3 DEF NothingReturns, IsRun
  <2>5. \A i : (OnQueue(i)' => OnQueue(i)) /\ (IsHeld(i)' => IsHeld(i))
    BY <2>1 DEF OnQueue, IsHeld
  <2> QED BY <2>1, <2>2, <2>4, <2>5
<1>6. ASSUME NEW p \in Places, p[1] = e, Settle(p)
      PROVE  Moves /\ UNCHANGED <<monitor, done, up, registry>> /\ NothingReturns'
  <2>1. /\ slot[p].phase = "ack" /\ queue'.ready = queue.ready
        /\ slot' = [slot EXCEPT ![p] = Idle] /\ UNCHANGED <<held, monitor, done, up, registry>>
    BY <1>0, <1>6 DEF Settle, NothingReturns, Ack, QueueType, channels
  <2>2. \A q \in Places : slot'[q] = IF q = p THEN Idle ELSE slot[q]
    BY <1>0, <2>1
  <2>3. NothingReturns' /\ \A i : IsRun(i)' => IsRun(i)
    <3>1. \A q \in Places : slot'[q] = slot[q] \/ slot'[q].phase = "idle"
      BY <2>2 DEF Idle
    <3> QED BY <1>0, <3>1 DEF NothingReturns, IsRun
  <2>4. \A i : (OnQueue(i)' => OnQueue(i)) /\ (IsHeld(i)' => IsHeld(i))
    BY <2>1 DEF OnQueue, IsHeld
  <2> QED BY <2>1, <2>3, <2>4
<1>7. ASSUME NEW i \in Item, OnQueue(i) \/ IsHeld(i) \/ IsRun(i),
             NEW type \in {"started", "completed"}, type = "completed" => i.task \in done',
             done \subseteq done', Send(monitor, monitor', [type |-> type, task |-> i.task])
      PROVE  MonitorFine
  <2>1. i.task \notin Resting /\ [type |-> type, task |-> i.task] \in Trace
    BY <1>7, ItemsAwake DEF CapacityInv, Trace, Item
  <2>2. \A k \in DOMAIN monitor' : \/ monitor'[k] = [type |-> type, task |-> i.task]
                                   \/ \E j \in DOMAIN monitor : monitor'[k] = monitor[j]
    BY <1>0, <1>7, <2>1, SentElements
  <2>3. \A j \in DOMAIN monitor : /\ monitor[j].type \in {"started", "completed"}
                                  /\ monitor[j].type = "completed" => monitor[j].task \in done'
                                  /\ monitor[j].task \notin Resting
    BY <1>7 DEF CapacityInv, NothingFails
  <2> QED BY <1>7, <2>1, <2>2, <2>3
<1>8. CASE Refuse(e) \/ GiveBack(e)
  BY <1>0, <1>2, <1>8, <1>a, <1>b
<1>9. CASE \E p \in Places : p[1] = e /\ Start(p)
  <2>1. PICK p \in Places : p[1] = e /\ Start(p)
    BY <1>9
  <2> QED BY <1>0, <1>4, <1>7, <2>1
<1>10. CASE \E p \in Places : p[1] = e /\ Finish(p)
  <2>1. PICK p \in Places : p[1] = e /\ Finish(p)
    BY <1>10
  <2>2. slot[p].item.task \notin Resting
    BY <1>5, <2>1, ItemsAwake DEF CapacityInv
  <2> QED BY <1>0, <1>5, <1>7, <2>1, <2>2
<1>11. CASE \E p \in Places : p[1] = e /\ Settle(p)
  BY <1>0, <1>6, <1>11, <1>a
<1> QED BY <1>1, <1>3, <1>8, <1>9, <1>10, <1>11 DEF Runtime

LEMMA RuntimeKeepsCapacity ==
  ASSUME Calm, TypeOK, SlotsHoldItems, CapacityInv, TypeOK', SlotsHoldItems', NEW e \in Executor, Runtime(e)
  PROVE  CapacityInv'
<1>1. /\ \A i : OnQueue(i)' \/ IsHeld(i)' \/ IsRun(i)' => OnQueue(i) \/ IsHeld(i) \/ IsRun(i)
      /\ done \subseteq done' /\ Resting \cap done' = {}
      /\ \A k \in DOMAIN monitor' : /\ monitor'[k].type \in {"started", "completed"}
                                    /\ monitor'[k].type = "completed" => monitor'[k].task \in done'
                                    /\ monitor'[k].task \notin Resting
      /\ NothingReturns' /\ UNCHANGED <<up, registry>>
  BY RuntimeMovesItems
<1>2. UNCHANGED <<tracker, sched, todo, snapshots, diffs, updates>>
  BY DEF Runtime, Receive, Refuse, GiveBack, PublishOffline, Start, Finish, Settle, channels
<1>3. NothingFails'
  BY <1>1, <1>2, OnlyProgressFrame DEF CapacityInv, NothingFails, Resting
<1>4. NobodyLeaves'
  BY <1>1, <1>2 DEF CapacityInv, NobodyLeaves
<1>5. Unfinished' \subseteq Unfinished
  BY <1>1, UnfinishedPlaces
<1> QED BY <1>2, <1>3, <1>4, <1>5, LoadStays DEF CapacityInv

\* A step of the mastermind that leaves the items where they are.
ItemsStay == UNCHANGED <<queue, held, slot, done, up>>

LEMMA StayedItems ==
  ASSUME ItemsStay
  PROVE  /\ Unfinished' = Unfinished /\ LoadTasks' = LoadTasks
         /\ NothingReturns => NothingReturns'
         /\ \A tree : OnlyProgress(tree) => OnlyProgress(tree)'
<1>1. Unfinished' = Unfinished
  BY DEF ItemsStay, Unfinished
<1> QED BY <1>1 DEF ItemsStay, LoadTasks, NothingReturns, OnlyProgress, Resting

\* Pruning takes no mark of a task that is neither done nor at rest.
LEMMA PruneKeepsLoad ==
  ASSUME NEW s \in SchedulerType, OnlyProgress(s.node),
         NEW t \in DOMAIN s.node, t \notin done, t \notin Resting
  PROVE  /\ t \in s.enqueued => t \in PruneState(s).enqueued
         /\ t \in s.inProgress => t \in PruneState(s).inProgress
BY PruneKeeps DEF OnlyProgress

\* A tree that is read says of each task what the tracker says.
LEMMA TickKeepsCapacity ==
  ASSUME Calm, TypeOK, SlotsHoldItems, CapacityInv, SyncTaskGraphs
  PROVE  CapacityInv'
<1>0. /\ tracker \in [Task -> Status] /\ previous \in Trees /\ DOMAIN previous \subseteq Task
      /\ snapshots \in Seq(Trees) /\ diffs \in Seq(Difference) /\ tracker \in Trees
      /\ OnlyProgress(tracker) /\ OnlyProgress(sched.node)
  BY TreeType DEF TypeOK, Difference, CapacityInv, NothingFails
<1> DEFINE diff == Changed(previous, tracker)
<1>1. /\ snapshots' = Append(snapshots, tracker)
      /\ diffs' = Append(diffs, diff) \/ UNCHANGED diffs
      /\ UNCHANGED <<tracker, sched, todo, monitor, updates, registry>> /\ ItemsStay
  BY DEF SyncTaskGraphs, Calm, Fault, Publish, workers, ItemsStay
<1>2. diff \in Difference /\ diff.delete = {} /\ OnlyProgress(diff.upsert)
  <2>1. /\ diff.delete = {} /\ DOMAIN diff.upsert \subseteq Task
        /\ \A t \in DOMAIN diff.upsert : diff.upsert[t] = tracker[t]
    BY <1>0 DEF Changed, Restrict
  <2> QED BY <1>0, <2>1, ChangedType DEF OnlyProgress
<1>3. \A i \in DOMAIN snapshots' : DOMAIN snapshots'[i] = Task /\ OnlyProgress(snapshots'[i])
  <2>1. \A i \in DOMAIN snapshots' : \/ snapshots'[i] = tracker
                                     \/ \E j \in DOMAIN snapshots : snapshots'[i] = snapshots[j]
    <3>1. \A i \in DOMAIN Append(snapshots, tracker) :
            \/ Append(snapshots, tracker)[i] = tracker
            \/ \E j \in DOMAIN snapshots : Append(snapshots, tracker)[i] = snapshots[j]
      BY <1>0, ChannelElements
    <3> QED BY <1>1, <3>1
  <2> QED BY <1>0, <2>1 DEF CapacityInv, NothingFails
<1>4. \A i \in DOMAIN diffs' : diffs'[i].delete = {} /\ OnlyProgress(diffs'[i].upsert)
  <2> HIDE DEF diff
  <2>1. \A i \in DOMAIN Append(diffs, diff) :
          Append(diffs, diff)[i] = diff \/ \E j \in DOMAIN diffs : Append(diffs, diff)[i] = diffs[j]
    BY <1>0, <1>2, ChannelElements
  <2>2. \A j \in DOMAIN diffs : diffs[j].delete = {} /\ OnlyProgress(diffs[j].upsert)
    BY DEF CapacityInv, NothingFails
  <2> QED BY <1>1, <1>2, <2>1, <2>2
<1>5. NothingFails'
  <2>1. OnlyProgress(tracker)' /\ OnlyProgress(sched.node)'
    BY <1>0, <1>1 DEF OnlyProgress, ItemsStay, Resting
  <2>2. /\ \A i \in DOMAIN snapshots' : DOMAIN snapshots'[i] = Task /\ OnlyProgress(snapshots[i])'
        /\ \A i \in DOMAIN diffs' : diffs'[i].delete = {} /\ OnlyProgress(diffs[i].upsert)'
    BY <1>1, <1>3, <1>4 DEF OnlyProgress, ItemsStay, Resting
  <2> QED BY <1>1, <2>1, <2>2 DEF CapacityInv, NothingFails, ItemsStay, Resting
<1>6. NobodyLeaves'
  BY <1>1, StayedItems DEF CapacityInv, NobodyLeaves, ItemsStay
<1> QED BY <1>1, <1>5, <1>6, StayedItems, LoadStays DEF CapacityInv

\* Handling a tree keeps the marks of what is under way.
LEMMA TreesKeepCapacity ==
  ASSUME Calm, TypeOK, SlotsHoldItems, CapacityInv, HandleSnapshot \/ HandleDiff
  PROVE  CapacityInv'
<1>0. /\ sched \in SchedulerType /\ snapshots \in Seq(Trees) /\ diffs \in Seq(Difference)
      /\ UNCHANGED <<tracker, todo, monitor, updates, registry>> /\ ItemsStay
      /\ OnlyProgress(sched.node) /\ sched.node \in Trees
  BY DEF TypeOK, Difference, HandleSnapshot, HandleDiff, workers, ItemsStay, CapacityInv, NothingFails,
         SchedulerType
<1>1. \E r \in SchedulerType :
        /\ sched' = PruneState(r) /\ OnlyProgress(r.node) /\ DOMAIN sched.node \subseteq DOMAIN r.node
        /\ r.enqueued = sched.enqueued /\ r.inProgress = sched.inProgress
  <2>1. CASE HandleSnapshot
    <3> DEFINE tree == Head(snapshots)
    <3>1. /\ tree \in Trees /\ DOMAIN tree = Task /\ OnlyProgress(tree) /\ sched' = ApplySnapshot(sched, tree)
      <4>1. tree \in Trees /\ \E j \in DOMAIN snapshots : tree = snapshots[j]
        BY <1>0, <2>1, ChannelElements DEF HandleSnapshot
      <4> QED BY <2>1, <4>1 DEF HandleSnapshot, CapacityInv, NothingFails
    <3>2. CASE tree = NoGraph
      BY <1>0, <3>1, <3>2 DEF ApplySnapshot
    <3>3. CASE tree # NoGraph
      <4> DEFINE r == [sched EXCEPT !.node = tree]
      <4>1. /\ r \in SchedulerType /\ r.node = tree /\ r.enqueued = sched.enqueued
            /\ r.inProgress = sched.inProgress /\ sched' = PruneState(r)
        BY <1>0, <3>1, <3>3 DEF SchedulerType, ApplySnapshot
      <4>2. DOMAIN sched.node \subseteq DOMAIN r.node
        BY <1>0, <3>1, <4>1, TreeType
      <4> QED BY <3>1, <4>1, <4>2
    <3> QED BY <3>2, <3>3
  <2>2. CASE HandleDiff
    <3> DEFINE diff == Head(diffs)
               kept == (DOMAIN sched.node \cup DOMAIN diff.upsert) \ diff.delete
               node == [t \in kept |-> IF t \in DOMAIN diff.upsert THEN diff.upsert[t] ELSE sched.node[t]]
               r    == [Unmark(sched, diff.delete) EXCEPT !.node = node]
    <3>1. /\ diff \in Difference /\ diff.delete = {} /\ OnlyProgress(diff.upsert)
          /\ diff.upsert \in Trees /\ sched' = PruneState(r)
      <4>1. diff \in Difference /\ \E j \in DOMAIN diffs : diff = diffs[j]
        BY <1>0, <2>2, ChannelElements DEF HandleDiff
      <4> QED BY <2>2, <4>1 DEF HandleDiff, CapacityInv, NothingFails, Difference, ApplyDiff
    <3>2. kept = DOMAIN sched.node \cup DOMAIN diff.upsert /\ kept \subseteq Task
      BY <1>0, <3>1, TreeType
    <3>3. node \in Trees /\ DOMAIN sched.node \subseteq DOMAIN node /\ OnlyProgress(node)
      <4>1. node \in [kept -> Status]
        BY <1>0, <3>1, <3>2, TreeType
      <4>2. OnlyProgress(node)
        BY <1>0, <3>1, <3>2 DEF OnlyProgress
      <4> QED BY <3>2, <4>1, <4>2, TreeType
    <3>4. r \in SchedulerType /\ r.node = node /\ r.enqueued = sched.enqueued /\ r.inProgress = sched.inProgress
      BY <1>0, <3>1, <3>3 DEF SchedulerType, Unmark
    <3> HIDE DEF r, node
    <3> QED BY <3>1, <3>3, <3>4
  <2> QED BY <2>1, <2>2
<1>2. PICK r \in SchedulerType :
        /\ sched' = PruneState(r) /\ OnlyProgress(r.node) /\ DOMAIN sched.node \subseteq DOMAIN r.node
        /\ r.enqueued = sched.enqueued /\ r.inProgress = sched.inProgress
  BY <1>1
<1>3. sched'.node = r.node
  BY <1>2, PruneKeeps
<1>4. /\ \A i \in DOMAIN snapshots' : DOMAIN snapshots'[i] = Task /\ OnlyProgress(snapshots'[i])
      /\ \A i \in DOMAIN diffs' : diffs'[i].delete = {} /\ OnlyProgress(diffs'[i].upsert)
  <2>1. \A i \in DOMAIN snapshots' : \E j \in DOMAIN snapshots : snapshots'[i] = snapshots[j]
    <3>1. snapshots # <<>> => \A i \in DOMAIN Tail(snapshots) : \E j \in DOMAIN snapshots : Tail(snapshots)[i] = snapshots[j]
      BY <1>0, ChannelElements
    <3> QED BY <3>1 DEF HandleSnapshot, HandleDiff
  <2>2. \A i \in DOMAIN diffs' : \E j \in DOMAIN diffs : diffs'[i] = diffs[j]
    <3>1. diffs # <<>> => \A i \in DOMAIN Tail(diffs) : \E j \in DOMAIN diffs : Tail(diffs)[i] = diffs[j]
      BY <1>0, ChannelElements
    <3> QED BY <3>1 DEF HandleSnapshot, HandleDiff
  <2> QED BY <2>1, <2>2 DEF CapacityInv, NothingFails
<1>5. NothingFails'
  <2>1. OnlyProgress(tracker)' /\ OnlyProgress(sched.node)'
    BY <1>0, <1>2, <1>3 DEF CapacityInv, NothingFails, OnlyProgress, ItemsStay, Resting
  <2>2. /\ \A i \in DOMAIN snapshots' : DOMAIN snapshots'[i] = Task /\ OnlyProgress(snapshots[i])'
        /\ \A i \in DOMAIN diffs' : diffs'[i].delete = {} /\ OnlyProgress(diffs[i].upsert)'
    BY <1>0, <1>4 DEF OnlyProgress, ItemsStay, Resting
  <2> QED BY <1>0, <2>1, <2>2 DEF CapacityInv, NothingFails, ItemsStay, Resting
<1>6. NobodyLeaves'
  BY <1>0, StayedItems DEF CapacityInv, NobodyLeaves, ItemsStay
<1>7. \A t \in LoadTasks' : t \in sched.enqueued \cup sched.inProgress \cup todo.mark
         => t \in sched'.enqueued \cup sched'.inProgress \cup todo'.mark
  <2> SUFFICES ASSUME NEW t \in LoadTasks
               PROVE  t \in sched.enqueued \cup sched.inProgress \cup todo.mark
                         => t \in sched'.enqueued \cup sched'.inProgress \cup todo'.mark
    BY <1>0, StayedItems
  <2>1. t \in DOMAIN r.node /\ t \notin Resting /\ t \notin done
    BY <1>2, UnfinishedPlaces DEF CapacityInv, LoadIsMarked, LoadTasks
  <2> QED BY <1>0, <1>2, <2>1, PruneKeepsLoad
<1> QED BY <1>0, <1>2, <1>3, <1>5, <1>6, <1>7, StayedItems, LoadStays DEF CapacityInv

\* A start moves a mark, and a mark is dropped only for a task that is done.
LEMMA MonitorKeepsCapacity ==
  ASSUME Calm, TypeOK, SlotsHoldItems, CapacityInv, HandleMonitor
  PROVE  CapacityInv'
<1> DEFINE event == Head(monitor)
           t0    == event.task
<1>0. /\ sched \in SchedulerType /\ monitor \in Seq(Trace) /\ monitor # <<>> /\ monitor' = Tail(monitor)
      /\ updates \in Seq(Update) /\ OnlyProgress(sched.node) /\ OnlyProgress(tracker)
      /\ UNCHANGED <<tracker, todo, snapshots, diffs, registry>> /\ ItemsStay
  BY DEF HandleMonitor, TypeOK, Trace, Update, workers, ItemsStay, CapacityInv, NothingFails
<1>1. /\ t0 \in Task /\ event.type \in {"started", "completed"} /\ t0 \notin Resting
      /\ event.type = "completed" => t0 \in done
  <2>1. event \in Trace /\ \E j \in DOMAIN monitor : event = monitor[j]
    BY <1>0, ChannelElements
  <2> QED BY <2>1 DEF Trace, CapacityInv, NothingFails
<1>2. \A k \in DOMAIN monitor' : /\ monitor'[k].type \in {"started", "completed"}
                                 /\ monitor'[k].type = "completed" => monitor'[k].task \in done
                                 /\ monitor'[k].task \notin Resting
  <2>1. \A k \in DOMAIN monitor' : \E j \in DOMAIN monitor : monitor'[k] = monitor[j]
    BY <1>0, ChannelElements
  <2> QED BY <2>1 DEF CapacityInv, NothingFails
<1>3. \A k \in DOMAIN updates' : /\ updates'[k].status \in {"in_progress", "closed"}
                                 /\ updates'[k].status = "closed" => updates'[k].task \in done
                                 /\ updates'[k].task \notin Resting
  <2>1. \/ UNCHANGED updates
        \/ \E status \in {"in_progress", "closed"} :
              /\ status = "closed" => t0 \in done
              /\ Send(updates, updates', [task |-> t0, status |-> status])
    BY <1>1 DEF HandleMonitor
  <2>2. CASE UNCHANGED updates
    BY <2>2 DEF CapacityInv, NothingFails
  <2>3. ASSUME NEW status \in {"in_progress", "closed"}, status = "closed" => t0 \in done,
               Send(updates, updates', [task |-> t0, status |-> status])
        PROVE  \A k \in DOMAIN updates' : /\ updates'[k].status \in {"in_progress", "closed"}
                                          /\ updates'[k].status = "closed" => updates'[k].task \in done
                                          /\ updates'[k].task \notin Resting
    <3>1. [task |-> t0, status |-> status] \in Update
      BY <1>1 DEF Update, Status
    <3>2. \A k \in DOMAIN updates' : \/ updates'[k] = [task |-> t0, status |-> status]
                                     \/ \E j \in DOMAIN updates : updates'[k] = updates[j]
      BY <1>0, <2>3, <3>1, SentElements
    <3>3. \A j \in DOMAIN updates : /\ updates[j].status \in {"in_progress", "closed"}
                                    /\ updates[j].status = "closed" => updates[j].task \in done
                                    /\ updates[j].task \notin Resting
      BY DEF CapacityInv, NothingFails
    <3> HIDE DEF t0
    <3> QED BY <1>1, <2>3, <3>2, <3>3
  <2> QED BY <2>1, <2>2, <2>3
<1>4. /\ DOMAIN sched'.node = DOMAIN sched.node /\ OnlyProgress(sched'.node)
      /\ \A t \in Task : t \notin done =>
            (t \in sched.enqueued \cup sched.inProgress => t \in sched'.enqueued \cup sched'.inProgress)
  <2>1. CASE event.type = "started" /\ sched' = TaskStarted(sched, t0)
    <3>1. /\ DOMAIN sched'.node = DOMAIN sched.node
          /\ \A t \in DOMAIN sched.node : sched'.node[t] = IF t = t0 THEN "in_progress" ELSE sched.node[t]
          /\ sched'.enqueued = sched.enqueued \ {t0} /\ sched'.inProgress = sched.inProgress \cup {t0}
      BY <1>0, <2>1 DEF TaskStarted, SetNode, SchedulerType
    <3> HIDE DEF t0
    <3> QED BY <1>0, <1>1, <3>1 DEF OnlyProgress
  <2>2. CASE event.type = "completed" /\ sched' = TaskCompleted(sched, t0)
    <3>1. /\ DOMAIN sched'.node = DOMAIN sched.node
          /\ \A t \in DOMAIN sched.node : sched'.node[t] = IF t = t0 THEN "closed" ELSE sched.node[t]
          /\ sched'.enqueued = sched.enqueued \ {t0} /\ sched'.inProgress = sched.inProgress \ {t0}
      BY <1>0, <2>2 DEF TaskCompleted, SetNode, Unmark, SchedulerType
    <3> HIDE DEF t0
    <3> QED BY <1>0, <1>1, <2>2, <3>1 DEF OnlyProgress
  <2> QED BY <1>1, <2>1, <2>2 DEF HandleMonitor
<1>5. NothingFails'
  <2>1. OnlyProgress(tracker)' /\ OnlyProgress(sched.node)'
    BY <1>0, <1>4 DEF OnlyProgress, ItemsStay, Resting
  <2> QED BY <1>0, <1>2, <1>3, <2>1, StayedItems DEF CapacityInv, NothingFails, ItemsStay, Resting
<1>6. NobodyLeaves'
  BY <1>0, StayedItems DEF CapacityInv, NobodyLeaves, ItemsStay
<1>7. \A t \in LoadTasks' : t \in sched.enqueued \cup sched.inProgress \cup todo.mark
         => t \in sched'.enqueued \cup sched'.inProgress \cup todo'.mark
  <2>1. \A t \in LoadTasks' : t \in LoadTasks /\ t \in Task /\ t \notin done
    BY <1>0, StayedItems, UnfinishedItems, UnfinishedPlaces DEF LoadTasks
  <2> QED BY <1>0, <1>4, <2>1
<1> QED BY <1>0, <1>4, <1>5, <1>6, <1>7, StayedItems, LoadStays DEF CapacityInv

LEMMA StatusKeepsCapacity ==
  ASSUME Calm, TypeOK, SlotsHoldItems, CapacityInv, HandleStatusUpdate
  PROVE  CapacityInv'
<1>0. /\ tracker \in [Task -> Status] /\ updates \in Seq(Update) /\ updates # <<>>
      /\ updates' = Tail(updates) /\ OnlyProgress(tracker) /\ OnlyProgress(sched.node)
      /\ UNCHANGED <<sched, todo, snapshots, diffs, monitor, registry>> /\ ItemsStay
  BY DEF HandleStatusUpdate, TypeOK, Update, workers, ItemsStay, CapacityInv, NothingFails
<1> DEFINE u == Head(updates)
<1>1. /\ u.status \in {"in_progress", "closed"} /\ u.task \notin Resting
      /\ u.status = "closed" => u.task \in done
  <2>1. \E j \in DOMAIN updates : u = updates[j]
    BY <1>0, ChannelElements
  <2> QED BY <2>1 DEF CapacityInv, NothingFails
<1>2. OnlyProgress(tracker')
  <2>1. \/ tracker' = tracker
        \/ tracker' = [tracker EXCEPT ![u.task] = Shown(u.status)]
    BY DEF HandleStatusUpdate
  <2>2. \A t \in Task : tracker'[t] = tracker[t] \/ (t = u.task /\ tracker'[t] = Shown(u.status))
    BY <1>0, <2>1
  <2>4. /\ Shown(u.status) \in {"open", "in_progress", "closed"}
        /\ Shown(u.status) = "closed" => u.status = "closed"
    BY <1>1 DEF Shown
  <2>3. DOMAIN tracker' = Task /\ DOMAIN tracker = Task
    BY <1>0, <2>1
  <2> HIDE DEF u
  <2> QED BY <1>0, <1>1, <2>2, <2>3, <2>4 DEF OnlyProgress
<1>3. \A k \in DOMAIN updates' : /\ updates'[k].status \in {"in_progress", "closed"}
                                 /\ updates'[k].status = "closed" => updates'[k].task \in done
                                 /\ updates'[k].task \notin Resting
  <2>1. \A k \in DOMAIN updates' : \E j \in DOMAIN updates : updates'[k] = updates[j]
    BY <1>0, ChannelElements
  <2> QED BY <2>1 DEF CapacityInv, NothingFails
<1>4. NothingFails'
  <2>1. OnlyProgress(tracker)' /\ OnlyProgress(sched.node)'
    BY <1>0, <1>2 DEF OnlyProgress, ItemsStay, Resting
  <2> QED BY <1>0, <1>3, <2>1, StayedItems DEF CapacityInv, NothingFails, ItemsStay, Resting
<1>5. NobodyLeaves'
  BY <1>0, StayedItems DEF CapacityInv, NobodyLeaves, ItemsStay
<1> QED BY <1>0, <1>4, <1>5, StayedItems, LoadStays DEF CapacityInv

-----------------------------------------------------------------------------
(* The budget of a round.                                                   *)

LEMMA FreeSlotsBound ==
  ASSUME IsFiniteSet(Executor)
  PROVE  FreeSlots \in Nat /\ FreeSlots <= Cardinality(Executor) * Slots
<1> DEFINE free == {p \in Places : p[2] <= registry[p[1]].slots}
<1>1. Slots \in Nat
  BY SchedulingAssumption
<1>2. IsFiniteSet(1 .. Slots) /\ Cardinality(1 .. Slots) = Slots
  BY <1>1, FS_Interval
<1>3. IsFiniteSet(Places) /\ Cardinality(Places) = Cardinality(Executor) * Slots
  BY <1>2, FS_Product DEF Places
<1>4. free \in SUBSET Places
  OBVIOUS
<1>5. IsFiniteSet(free) /\ Cardinality(free) <= Cardinality(Places)
  BY <1>3, <1>4, FS_Subset
<1> QED BY <1>3, <1>5, FS_CardinalityType DEF FreeSlots

LEMMA RoundBudget ==
  ASSUME NEW s \in SchedulerType, NEW free \in Nat, NEW matched, IsFiniteSet(Task),
         NEW plan \in Plans(s, free, matched)
  PROVE  /\ plan.send \subseteq RunnableCandidates(s) \ (s.enqueued \cup s.inProgress)
         /\ plan.block = RunnableCandidates(s) \ (s.enqueued \cup s.inProgress \cup matched \cup s.blocked)
         /\ plan.send # {} =>
               (Cardinality(s.enqueued) + Cardinality(s.inProgress) + Cardinality(plan.send)) * 100
                  <= free * Backpressure
<1> DEFINE runnable == RunnableCandidates(s) \ (s.enqueued \cup s.inProgress)
           ready    == runnable \cap matched
           k        == Min({Budget(s, free), Cardinality(ready)})
<1>1. PICK send \in kSubset(k, ready) : plan = [block |-> runnable \ (matched \cup s.blocked), send |-> send]
  BY DEF Plans
<1>2. send \subseteq ready /\ Cardinality(send) = k
  BY DEF kSubset
<1>3. s.enqueued \subseteq Task /\ s.inProgress \subseteq Task /\ ready \subseteq Task
  BY TreeType DEF SchedulerType, RunnableCandidates
<1>4. /\ Cardinality(s.enqueued) \in Nat /\ Cardinality(s.inProgress) \in Nat
      /\ Cardinality(ready) \in Nat /\ Backpressure \in Nat
      /\ IsFiniteSet(send) /\ Cardinality(send) \in Nat
  BY <1>2, <1>3, FS_Subset, FS_CardinalityType, GraphAssumption
<1> DEFINE flight == Cardinality(s.enqueued) + Cardinality(s.inProgress)
           limit  == (free * Backpressure) \div 100
<1>5. flight \in Nat /\ limit \in Nat /\ limit * 100 <= free * Backpressure
  <2>1. free * Backpressure \in Nat
    BY <1>4
  <2>2. flight \in Nat
    BY <1>4
  <2> DEFINE n == free * Backpressure
  <2>3. n \in Nat
    BY <2>1
  <2>4. (n \div 100) \in Nat /\ (n \div 100) * 100 <= n
    <3> HIDE DEF n
    <3> QED BY <2>3
  <2> QED BY <2>2, <2>4
<1>6. Budget(s, free) = IF limit > flight THEN limit - flight ELSE 0
  BY DEF Budget
<1>7. Budget(s, free) \in Nat /\ (Budget(s, free) # 0 => flight + Budget(s, free) <= limit)
  <2> HIDE DEF flight, limit
  <2> QED BY <1>5, <1>6
<1>8. k <= Budget(s, free) /\ k \in Nat
  <2>1. \A a, b \in Nat : Min({a, b}) \in Nat /\ Min({a, b}) <= a
    <3> SUFFICES ASSUME NEW a \in Nat, NEW b \in Nat
                 PROVE  Min({a, b}) \in Nat /\ Min({a, b}) <= a
      OBVIOUS
    <3>1. \E x \in {a, b} : \A y \in {a, b} : x <= y
      BY SMT
    <3>2. Min({a, b}) \in {a, b} /\ \A y \in {a, b} : Min({a, b}) <= y
      BY <3>1 DEF Min
    <3> QED BY <3>2
  <2> QED BY <1>4, <1>7, <2>1
<1>9. ASSUME send # {} PROVE (flight + Cardinality(send)) * 100 <= free * Backpressure
  <2>1. Cardinality(send) # 0
    BY <1>4, <1>9, FS_EmptySet
  <2>2. PICK c \in Nat, b \in Nat, f \in Nat, l \in Nat :
          c = Cardinality(send) /\ b = Budget(s, free) /\ f = flight /\ l = limit
    BY <1>4, <1>5, <1>7
  <2>3. c # 0 /\ c <= b /\ (b # 0 => f + b <= l)
    BY <1>2, <1>7, <1>8, <2>1, <2>2
  <2>4. f + c <= l
    BY <2>3
  <2>5. (f + c) * 100 <= l * 100
    BY <2>4
  <2> HIDE DEF flight, limit
  <2>6. PICK m \in Nat : m = free * Backpressure
    BY <1>4
  <2> QED BY <1>5, <2>2, <2>5, <2>6
<1>10. plan.send = send /\ plan.block = runnable \ (matched \cup s.blocked)
  BY <1>1
<1> QED BY <1>2, <1>9, <1>10

\* A round adds no more than the marks leave free, and every unfinished task is marked.
LEMMA PlanKeepsCapacity ==
  ASSUME Calm, TypeOK, SlotsHoldItems, CapacityInv, Plan
  PROVE  CapacityInv'
<1>0. /\ sched \in SchedulerType /\ todo = Nothing /\ sched' = AfterPlan(sched, Matched)
      /\ UNCHANGED <<tracker, snapshots, diffs, monitor, updates, registry>> /\ ItemsStay
      /\ OnlyProgress(sched.node)
  BY DEF Plan, TypeOK, channels, workers, ItemsStay, CapacityInv, NothingFails
<1>1. FreeSlots \in Nat /\ FreeSlots <= Cardinality(Executor) * Slots
  BY FreeSlotsBound DEF Calm
<1>2. PICK plan \in Plans(sched, FreeSlots, Matched) :
        todo' = [block |-> plan.block, send |-> plan.send, mark |-> {}]
  BY DEF Plan
<1>3. /\ plan.send \subseteq RunnableCandidates(sched) \ (sched.enqueued \cup sched.inProgress)
      /\ plan.block = RunnableCandidates(sched) \ (sched.enqueued \cup sched.inProgress \cup Matched \cup sched.blocked)
      /\ plan.send # {} =>
            (Cardinality(sched.enqueued) + Cardinality(sched.inProgress) + Cardinality(plan.send)) * 100
               <= FreeSlots * Backpressure
  BY <1>0, <1>1, RoundBudget DEF Calm
<1>4. /\ sched'.node = sched.node /\ sched'.enqueued = sched.enqueued /\ sched'.inProgress = sched.inProgress
  BY <1>0 DEF AfterPlan, SchedulerType
<1>5. RunnableCandidates(sched) \subseteq DOMAIN sched.node \ Resting /\ DOMAIN sched.node \subseteq Task
  <2>1. \A t \in RunnableCandidates(sched) : t \in DOMAIN sched.node /\ sched.node[t] = "open"
    BY DEF RunnableCandidates
  <2>2. \A t \in Resting : t \notin done
    BY DEF CapacityInv, NothingFails
  <2> QED BY <1>0, <2>1, <2>2, TreeType DEF OnlyProgress, SchedulerType
<1>6. plan.block = {}
  <2>1. \A t \in Task : t \in Matched
    BY SchedulingAssumption DEF Calm, Matched, CapacityInv, NobodyLeaves
  <2> QED BY <1>3, <1>5, <2>1
<1>7. NothingFails'
  <2>1. OnlyProgress(tracker)' /\ OnlyProgress(sched.node)'
    BY <1>0, <1>4 DEF OnlyProgress, ItemsStay, Resting, CapacityInv, NothingFails
  <2> QED BY <1>0, <2>1, StayedItems DEF CapacityInv, NothingFails, ItemsStay, Resting
<1>8. NobodyLeaves'
  BY <1>0, <1>2, <1>6, StayedItems DEF CapacityInv, NobodyLeaves, ItemsStay
<1>9. LoadTasks \subseteq sched.enqueued \cup sched.inProgress /\ LoadTasks' = LoadTasks /\ Unfinished' = Unfinished
  BY <1>0, StayedItems DEF CapacityInv, LoadIsMarked, Nothing
<1>10. LoadIsMarked'
  <2>1. todo'.send = plan.send /\ todo'.mark = {}
    BY <1>2
  <2> QED BY <1>3, <1>4, <1>5, <1>9, <2>1 DEF CapacityInv, LoadIsMarked, Resting
<1>11. InBudget'
  <2>1. CASE plan.send = {}
    BY <1>2, <1>9, <2>1, BudgetShrinks DEF CapacityInv
  <2>2. CASE plan.send # {}
    <3> DEFINE marked == sched.enqueued \cup sched.inProgress
               W      == LoadTasks \cup plan.send
    <3>1. /\ IsFiniteSet(sched.enqueued) /\ IsFiniteSet(sched.inProgress) /\ IsFiniteSet(plan.send)
      BY <1>0, <1>3, <1>5, FS_Subset DEF Calm, SchedulerType
    <3>2. /\ IsFiniteSet(marked)
          /\ Cardinality(marked) = Cardinality(sched.enqueued) + Cardinality(sched.inProgress)
                                     - Cardinality(sched.enqueued \cap sched.inProgress)
      BY <3>1, FS_Union
    <3>3. /\ IsFiniteSet(marked \cup plan.send)
          /\ Cardinality(marked \cup plan.send) = Cardinality(marked) + Cardinality(plan.send)
                                                    - Cardinality(marked \cap plan.send)
      BY <3>1, <3>2, FS_Union
    <3>4. W \in SUBSET (marked \cup plan.send)
      BY <1>9
    <3>5. IsFiniteSet(W) /\ Cardinality(W) <= Cardinality(marked \cup plan.send)
      BY <3>3, <3>4, FS_Subset
    <3>6. IsFiniteSet(sched.enqueued \cap sched.inProgress) /\ IsFiniteSet(marked \cap plan.send)
      BY <3>1, <3>2, FS_Subset
    <3>7. PICK w \in Nat, m \in Nat, n \in Nat, q \in Nat, s \in Nat, both \in Nat, again \in Nat, all \in Nat :
            /\ w = Cardinality(W) /\ m = Cardinality(marked) /\ n = Cardinality(sched.enqueued)
            /\ q = Cardinality(sched.inProgress) /\ s = Cardinality(plan.send)
            /\ both = Cardinality(sched.enqueued \cap sched.inProgress)
            /\ again = Cardinality(marked \cap plan.send) /\ all = Cardinality(marked \cup plan.send)
      BY <3>1, <3>2, <3>3, <3>5, <3>6, FS_CardinalityType
    <3>8. w <= n + q + s
      <4>1. m = n + q - both /\ all = m + s - again /\ w <= all
        BY <3>2, <3>3, <3>5, <3>7
      <4> QED BY <4>1
    <3>9. PICK f \in Nat, b \in Nat, x \in Nat, c \in Nat :
            f = FreeSlots /\ b = Backpressure /\ x = Cardinality(Executor) /\ c = Slots
      BY <1>1, FS_CardinalityType, SchedulingAssumption, GraphAssumption DEF Calm
    <3>10. f <= x * c /\ (n + q + s) * 100 <= f * b
      BY <1>1, <1>3, <2>2, <3>7, <3>9
    <3>11. f * b <= (x * c) * b
      <4>1. PICK y \in Nat : y = x * c
        BY SMT
      <4>2. f <= y
        BY <3>10, <4>1
      <4>3. PICK z \in Nat : y = f + z
        <5>1. y - f \in Nat /\ y = f + (y - f)
          BY <4>2
        <5> QED BY <5>1
      <4>4. y * b = f * b + z * b
        BY <4>3
      <4>5. z * b \in Nat /\ f * b \in Nat
        OBVIOUS
      <4>6. f * b <= y * b
        BY <4>4, <4>5
      <4> QED BY <4>1, <4>6
    <3>12. w * 100 <= (x * c) * b
      <4>1. PICK fb \in Nat, xcb \in Nat : fb = f * b /\ xcb = (x * c) * b
        <5>1. f * b \in Nat /\ (x * c) * b \in Nat
          OBVIOUS
        <5> QED BY <5>1
      <4>2. w <= n + q + s /\ (n + q + s) * 100 <= fb /\ fb <= xcb
        BY <3>8, <3>10, <3>11, <4>1
      <4>3. w * 100 <= xcb
        BY <4>2
      <4> QED BY <4>1, <4>3
    <3>13. (LoadTasks \cup todo.send)' = W
      BY <1>2, <1>9
    <3> HIDE DEF W
    <3> QED BY <3>7, <3>9, <3>12, <3>13 DEF InBudget
  <2> QED BY <2>1, <2>2
<1> QED BY <1>7, <1>8, <1>10, <1>11 DEF CapacityInv

\* Carrying the round out adds the items that were counted, and their marks.
LEMMA RoundKeepsCapacity ==
  ASSUME Calm, TypeOK, SlotsHoldItems, CapacityInv,
         MarkEnqueued \/ \E t \in Task : ReportBlocked(t) \/ EnqueueTask(t)
  PROVE  CapacityInv'
<1>0. /\ sched \in SchedulerType /\ queue \in QueueType /\ queue.ready \in Seq(Item)
      /\ todo \in [block : SUBSET Task, send : SUBSET Task, mark : SUBSET Task] /\ todo.block = {}
  BY DEF TypeOK, QueueType, CapacityInv, NobodyLeaves
<1>1. CASE MarkEnqueued
  <2>1. /\ UNCHANGED <<tracker, snapshots, diffs, monitor, updates, registry>> /\ ItemsStay
        /\ todo'.send = todo.send /\ todo'.mark = {} /\ todo'.block = todo.block
        /\ sched'.node = sched.node /\ sched'.inProgress = sched.inProgress
        /\ sched'.enqueued = sched.enqueued \cup todo.mark
    BY <1>0, <1>1 DEF MarkEnqueued, channels, workers, SchedulerType, ItemsStay
  <2>2. NothingFails'
    BY <2>1, StayedItems DEF CapacityInv, NothingFails, ItemsStay, Resting
  <2>3. NobodyLeaves'
    BY <2>1, StayedItems DEF CapacityInv, NobodyLeaves, ItemsStay
  <2> QED BY <2>1, <2>2, <2>3, StayedItems, LoadStays DEF CapacityInv
<1>2. ASSUME NEW t \in Task, ReportBlocked(t) PROVE FALSE
  BY <1>0, <1>2 DEF ReportBlocked
<1>3. ASSUME NEW t \in Task, EnqueueTask(t) PROVE CapacityInv'
  <2>1. /\ UNCHANGED <<tracker, sched, snapshots, diffs, monitor, updates, registry, held, slot, done, up>>
        /\ todo'.send = todo.send \ {t} /\ todo'.mark = {t} /\ todo'.block = todo.block
        /\ t \in todo.send /\ todo.mark = {}
    BY <1>0, <1>3 DEF EnqueueTask, channels
  <2>2. PICK id \in FreeIds : queue' = Enqueue(queue, [id |-> id, task |-> t])
    BY <1>3 DEF EnqueueTask
  <2> DEFINE item == [id |-> id, task |-> t]
  <2>3. item \in Item /\ queue'.ready = Append(queue.ready, item)
    BY <1>0, <2>2 DEF FreeIds, Item, Enqueue, QueueType
  <2>4. \A i : OnQueue(i)' => OnQueue(i) \/ i = item
    <3> HIDE DEF item
    <3>1. \A k \in DOMAIN Append(queue.ready, item) :
            Append(queue.ready, item)[k] = item \/ \E j \in DOMAIN queue.ready : Append(queue.ready, item)[k] = queue.ready[j]
      BY <1>0, <2>3, ChannelElements
    <3> QED BY <2>3, <3>1 DEF OnQueue
  <2>5. \A i : (IsHeld(i)' <=> IsHeld(i)) /\ (IsRun(i)' <=> IsRun(i))
    BY <2>1 DEF IsHeld, IsRun
  <2>6. Unfinished' \subseteq Unfinished \cup {item}
    BY <2>1, <2>4, <2>5, UnfinishedPlaces
  <2>7. LoadTasks' \subseteq LoadTasks \cup {t}
    BY <2>6 DEF LoadTasks
  <2>8. t \notin LoadTasks /\ t \in DOMAIN sched.node /\ t \notin Resting
    BY <2>1 DEF CapacityInv, LoadIsMarked
  <2>9. LoadIsMarked'
    <3>1. \A i, j \in Unfinished' : i.task = j.task => i = j
      <4>1. \A i \in Unfinished : i.task # t
        BY <2>8 DEF LoadTasks
      <4>2. item.task = t
        OBVIOUS
      <4> HIDE DEF item
      <4> QED BY <2>6, <4>1, <4>2 DEF CapacityInv, LoadIsMarked
    <3>2. /\ LoadTasks' \cap todo'.send = {}
          /\ LoadTasks' \subseteq sched'.enqueued \cup sched'.inProgress \cup todo'.mark
          /\ LoadTasks' \cup todo'.send \cup todo'.mark \subseteq DOMAIN sched'.node \ Resting
      BY <2>1, <2>7, <2>8 DEF CapacityInv, LoadIsMarked
    <3> QED BY <3>1, <3>2 DEF LoadIsMarked, Resting
  <2>10. InBudget'
    BY <2>1, <2>7, BudgetShrinks DEF CapacityInv
  <2>11. NothingFails'
    <3>1. \A tree : OnlyProgress(tree) => OnlyProgress(tree)'
      BY <2>1 DEF OnlyProgress, Resting
    <3> QED BY <2>1, <3>1 DEF CapacityInv, NothingFails, Resting
  <2>12. NobodyLeaves'
    BY <2>1 DEF CapacityInv, NobodyLeaves, NothingReturns
  <2> QED BY <2>9, <2>10, <2>11, <2>12 DEF CapacityInv
<1> QED BY <1>1, <1>2, <1>3

\* Executors register and report; nobody expires, stops or is asked twice.
LEMMA EnvironmentKeepsCapacity ==
  ASSUME Calm, TypeOK, SlotsHoldItems, CapacityInv, Environment
  PROVE  CapacityInv'
<1>1. PICK e \in Executor : Register(e) \/ Heartbeat(e)
  BY DEF Environment, Calm, Fault, Restart, Expire, ReceiveAgain, Stop
<1>2. /\ UNCHANGED <<tracker, sched, todo, snapshots, diffs, monitor, updates, queue, held, slot, done>>
      /\ \A f \in Executor : up[f] \in {"new", "up"}
  BY <1>1 DEF Register, Heartbeat, channels, workers, CapacityInv, NobodyLeaves
<1>3. \A f \in Executor : up'[f] \in {"new", "up"}
  BY <1>1, <1>2 DEF Register, Heartbeat, workers, TypeOK
<1>4. \A f \in InitiallyUp : registry'[f].present /\ registry'[f].known
  <2>1. registry \in [Executor -> [slots : 0 .. Slots, known : BOOLEAN, present : BOOLEAN]] /\ InitiallyUp \subseteq Executor
    BY SchedulingAssumption DEF TypeOK
  <2>2. \A f \in InitiallyUp : registry[f].present /\ registry[f].known
    BY DEF CapacityInv, NobodyLeaves
  <2>3. CASE Register(e)
    BY <2>1, <2>2, <2>3 DEF Register
  <2>4. CASE Heartbeat(e)
    BY <2>1, <2>2, <2>4 DEF Heartbeat
  <2> QED BY <1>1, <2>3, <2>4
<1>5. NothingFails'
  <2>1. \A tree : OnlyProgress(tree) => OnlyProgress(tree)'
    BY <1>2 DEF OnlyProgress, Resting
  <2> QED BY <1>2, <2>1 DEF CapacityInv, NothingFails, Resting
<1>6. NobodyLeaves'
  BY <1>2, <1>3, <1>4 DEF CapacityInv, NobodyLeaves, NothingReturns
<1>7. Unfinished' = Unfinished /\ LoadTasks' = LoadTasks
  BY <1>2 DEF Unfinished, LoadTasks
<1> QED BY <1>2, <1>5, <1>6, <1>7, LoadStays DEF CapacityInv

-----------------------------------------------------------------------------

\* The work queued or running never exceeds the executors' slots times the backpressure
\* factor (plan, worker_runtime.go), for any graph, any number of executors and slots and
\* trees handled however late, as long as no task fails, every task is matched by an
\* executor that is registered from the start, and no item is delivered twice.
THEOREM CapacityIsKept ==
  ASSUME Calm
  PROVE  Spec => []WithinCapacity
<1>1. Init => CapacityInv
  <2> SUFFICES ASSUME Init PROVE CapacityInv
    OBVIOUS
  <2>1. Unfinished = {} /\ LoadTasks = {} /\ todo.send = {}
    <3>1. \A i : ~OnQueue(i) /\ ~IsHeld(i) /\ ~IsRun(i)
      BY DEF Init, OnQueue, IsHeld, IsRun, EmptyQueue, Idle
    <3>2. Unfinished = {}
      BY <3>1, UnfinishedPlaces
    <3> QED BY <3>2 DEF LoadTasks, Init, Nothing
  <2>2. InBudget
    <3>1. Cardinality(LoadTasks \cup todo.send) = 0
      BY <2>1, FS_EmptySet
    <3>2. Cardinality(Executor) \in Nat /\ Slots \in Nat /\ Backpressure \in Nat
      BY FS_CardinalityType, SchedulingAssumption, GraphAssumption DEF Calm
    <3>3. Cardinality(Executor) * Slots * Backpressure \in Nat
      BY <3>2
    <3> QED BY <3>1, <3>3 DEF InBudget
  <2>3. LoadIsMarked
    BY <2>1 DEF LoadIsMarked, Init, Nothing
  <2>4. NobodyLeaves
    BY SchedulingAssumption DEF NobodyLeaves, NothingReturns, Init, Idle, Nothing
  <2>5. NothingFails
    <3>1. OnlyProgress(tracker)
      BY SchedulingAssumption DEF OnlyProgress, Init, Resting, Status
    <3>2. OnlyProgress(sched.node)
      BY DEF OnlyProgress, Init, EmptyScheduler, NoGraph
    <3> QED BY <3>1, <3>2 DEF NothingFails, Init, Resting
  <2> QED BY <2>2, <2>3, <2>4, <2>5 DEF CapacityInv
<1>2. TypeOK /\ SlotsHoldItems /\ TypeOK' /\ SlotsHoldItems' /\ CapacityInv /\ [Next]_vars => CapacityInv'
  <2> SUFFICES ASSUME TypeOK, SlotsHoldItems, TypeOK', SlotsHoldItems', CapacityInv, [Next]_vars
               PROVE  CapacityInv'
    OBVIOUS
  <2>1. CASE Mastermind
    BY <2>1, TickKeepsCapacity, TreesKeepCapacity, MonitorKeepsCapacity, StatusKeepsCapacity,
       PlanKeepsCapacity, RoundKeepsCapacity DEF Mastermind
  <2>2. CASE \E e \in Executor : Runtime(e)
    BY <2>2, RuntimeKeepsCapacity
  <2>3. CASE Environment
    BY <2>3, EnvironmentKeepsCapacity
  <2>4. CASE UNCHANGED vars
    <3>1. /\ UNCHANGED <<tracker, sched, todo, snapshots, diffs, monitor, updates, registry>> /\ ItemsStay
      BY <2>4 DEF vars, channels, workers, ItemsStay
    <3>2. NothingFails'
      BY <3>1, StayedItems DEF CapacityInv, NothingFails, ItemsStay, Resting
    <3>3. NobodyLeaves'
      BY <3>1, StayedItems DEF CapacityInv, NobodyLeaves, ItemsStay
    <3> QED BY <3>1, <3>2, <3>3, StayedItems, LoadStays DEF CapacityInv
  <2> QED BY <2>1, <2>2, <2>3, <2>4 DEF Next
<1>3. TypeOK /\ SlotsHoldItems /\ CapacityInv => WithinCapacity
  <2> SUFFICES ASSUME TypeOK, SlotsHoldItems, CapacityInv PROVE WithinCapacity
    OBVIOUS
  <2> DEFINE W == LoadTasks \cup todo.send
             f == [i \in Unfinished |-> i.task]
  <2>1. W \subseteq Task
    BY UnfinishedItems DEF TypeOK
  <2>2. IsFiniteSet(W)
    BY <2>1, FS_Subset DEF Calm
  <2>3. f \in Injection(Unfinished, W)
    <3>1. f \in [Unfinished -> W]
      BY DEF LoadTasks
    <3>2. \A i, j \in Unfinished : f[i] = f[j] => i = j
      BY DEF CapacityInv, LoadIsMarked
    <3> QED BY <3>1, <3>2 DEF Injection, IsInjective
  <2>4. IsFiniteSet(Unfinished) /\ Cardinality(Unfinished) <= Cardinality(W)
    BY <2>2, <2>3, FS_Injection
  <2>5. Cardinality(Unfinished) \in Nat /\ Cardinality(W) \in Nat
    BY <2>2, <2>4, FS_CardinalityType
  <2>6. Cardinality(Executor) * Slots * Backpressure \in Nat
    <3>1. Cardinality(Executor) \in Nat /\ Slots \in Nat /\ Backpressure \in Nat
      BY FS_CardinalityType, SchedulingAssumption, GraphAssumption DEF Calm
    <3> QED BY <3>1
  <2>7. Cardinality(W) * 100 <= Cardinality(Executor) * Slots * Backpressure
    BY DEF CapacityInv, InBudget
  <2>8. PICK u \in Nat, w \in Nat, c \in Nat :
          u = Cardinality(Unfinished) /\ w = Cardinality(W) /\ c = Cardinality(Executor) * Slots * Backpressure
    BY <2>5, <2>6
  <2>9. u <= w /\ w * 100 <= c
    BY <2>4, <2>7, <2>8
  <2>10. u * 100 <= c
    BY <2>9
  <2> HIDE DEF W
  <2> QED BY <2>8, <2>10 DEF WithinCapacity
<1>4. QED BY <1>1, <1>2, <1>3, QueueTypeInvariant, PTL DEF Spec

=============================================================================
