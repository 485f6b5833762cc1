------------------------ MODULE SchedulerStore_proofs ------------------------
(***************************************************************************)
(* Theorems about the scheduler state file, for every set of tasks, of      *)
(* goroutines and of data, and any number of crashes.                       *)
(***************************************************************************)
EXTENDS SchedulerStore, TLAPS

\* The state of a parent the file does not mention is a state.
LEMMA EmptyFileType == EmptyFile \in SchedulerFile
  BY DEF EmptyFile, SchedulerFile, TaskDatum, NoData

\* Merging keeps the shape of the file.
LEMMA SaveMergeType ==
  ASSUME NEW cur \in SchedulerFile, NEW b \in SchedulerFile, NEW n \in SchedulerFile
  PROVE  SaveMerge(cur, b, n) \in SchedulerFile
<1>1. MergeTaskDataChanges(cur.taskData, b.taskData, n.taskData) \in [Tasks -> TaskDatum]
  <2> SUFFICES ASSUME NEW t \in Tasks
               PROVE  MergeTaskDatum(cur.taskData[t], b.taskData[t], n.taskData[t]) \in TaskDatum
    BY DEF MergeTaskDataChanges
  <2>1. /\ cur.taskData[t] \in TaskDatum
        /\ n.taskData[t] \in TaskDatum
    BY DEF SchedulerFile
  <2>2. NoData \in TaskDatum
    BY DEF NoData, TaskDatum
  <2>3. [k \in DataKeys |-> IF n.taskData[t][k] # Absent THEN n.taskData[t][k]
                                                        ELSE cur.taskData[t][k]] \in TaskDatum
    BY <2>1 DEF TaskDatum
  <2> QED BY <2>1, <2>2, <2>3 DEF MergeTaskDatum
<1>2. ASSUME NEW x \in SUBSET Tasks, NEW y \in SUBSET Tasks, NEW z \in SUBSET Tasks
      PROVE  MergeSetChanges(x, y, z) \in SUBSET Tasks
  BY DEF MergeSetChanges
<1> QED BY <1>1, <1>2 DEF SaveMerge, SchedulerFile

\* Every edit of a snapshot is a snapshot.
LEMMA EditedType ==
  ASSUME NEW j \in Job
  PROVE  Edited(j) \in SchedulerFile
<1> USE DEF Job, SchedulerFile
<1>1. CASE j.edit = "markInFlight"
  BY <1>1 DEF Edited, MarkInFlight
<1>2. CASE j.edit = "markCompleted"
  BY <1>2 DEF Edited, MarkCompleted
<1>3. CASE j.edit = "markBlocked"
  BY <1>3 DEF Edited, MarkBlockedWithData
<1>4. CASE j.edit = "clearTerminal"
  BY <1>4 DEF Edited, ClearTaskTerminalState
<1>5. CASE j.edit = "clearInFlight"
  BY <1>5 DEF Edited, ClearTaskInFlight
<1> QED BY <1>1, <1>2, <1>3, <1>4, <1>5 DEF Edits

\* The variables keep their types.
THEOREM TypeCorrect == Spec => []TypeOK
<1>1. Init => TypeOK
  BY EmptyFileType, StoreAssumption DEF Init, TypeOK, Editing
<1>2. TypeOK /\ [Next]_vars => TypeOK'
  <2> SUFFICES ASSUME TypeOK, [Next]_vars PROVE TypeOK'
    OBVIOUS
  <2> USE DEF TypeOK, Editing
  <2>1. ASSUME NEW c \in Clients, NEW e \in Edits, NEW t \in Tasks, NEW d \in TaskDatum,
               Load(c, e, t, d)
        PROVE  TypeOK'
    <3>1. [edit |-> e, task |-> t, datum |-> d, base |-> file] \in Job
      BY DEF Job
    <3> QED BY <2>1, <3>1 DEF Load
  <2>2. ASSUME NEW c \in Clients, LoadFails(c) PROVE TypeOK'
    BY <2>2 DEF LoadFails
  <2>3. ASSUME NEW c \in Clients, SaveBegin(c) PROVE TypeOK'
    BY <2>3 DEF SaveBegin
  <2>4. ASSUME NEW c \in Clients, SaveEnd(c) PROVE TypeOK'
    <3>1. job[c] \in Job /\ job[c].base \in SchedulerFile
      BY <2>4 DEF SaveEnd, Job
    <3>2. file' \in SchedulerFile
      BY <2>4, <3>1, EditedType, SaveMergeType DEF SaveEnd
    <3> QED BY <2>4, <3>2 DEF SaveEnd
  <2>5. CASE Crash
    BY <2>5, StoreAssumption DEF Crash
  <2>6. CASE UNCHANGED vars
    BY <2>6 DEF vars
  <2> QED BY <2>1, <2>2, <2>3, <2>4, <2>5, <2>6 DEF Next
<1> QED BY <1>1, <1>2, PTL DEF Spec

-----------------------------------------------------------------------------
(* The mutex and the exclusion of edits of one task.                        *)

MutexInv ==
  /\ \A c \in Clients : pc[c] = "writing" <=> mu = c
  /\ \A c, d \in Clients : Editing(c) /\ Editing(d) /\ c # d => job[c].task # job[d].task

LEMMA MutexCorrect == Spec => []MutexInv
<1>1. Init => MutexInv
  BY StoreAssumption DEF Init, MutexInv, Editing
<1>2. TypeOK /\ MutexInv /\ [Next]_vars => MutexInv'
  <2> SUFFICES ASSUME TypeOK, MutexInv, [Next]_vars PROVE MutexInv'
    OBVIOUS
  <2> USE StoreAssumption DEF MutexInv, Editing, TypeOK
  <2>1. ASSUME NEW c \in Clients, NEW e \in Edits, NEW t \in Tasks, NEW d \in TaskDatum,
               Load(c, e, t, d)
        PROVE  MutexInv'
    BY <2>1 DEF Load, TaskLockFree
  <2>2. ASSUME NEW c \in Clients, LoadFails(c) PROVE MutexInv'
    BY <2>2 DEF LoadFails
  <2>3. ASSUME NEW c \in Clients, SaveBegin(c) PROVE MutexInv'
    BY <2>3 DEF SaveBegin
  <2>4. ASSUME NEW c \in Clients, SaveEnd(c) PROVE MutexInv'
    BY <2>4 DEF SaveEnd
  <2>5. CASE Crash
    BY <2>5 DEF Crash
  <2>6. CASE UNCHANGED vars
    BY <2>6 DEF vars
  <2> QED BY <2>1, <2>2, <2>3, <2>4, <2>5, <2>6 DEF Next
<1> QED BY <1>1, <1>2, TypeCorrect, PTL DEF Spec

-----------------------------------------------------------------------------
(* Lost updates.                                                            *)

\* A member x of the merge of three sets is decided by the edit when the edit
\* changed x, and by the current contents otherwise.
LEMMA MergeSetMember ==
  ASSUME NEW cur, NEW b, NEW n, NEW x
  PROVE  x \in MergeSetChanges(cur, b, n) <=>
           IF (x \in b) = (x \in n) THEN x \in cur ELSE x \in n
  BY DEF MergeSetChanges

\* When the snapshot still agrees with the file about the edited task, adding
\* it to, or removing it from, the snapshot adds it to, or removes it from,
\* the file as it is now.
LEMMA MergeOfOneTask ==
  ASSUME NEW cur, NEW b, NEW t, t \in b <=> t \in cur
  PROVE  /\ MergeSetChanges(cur, b, b \cup {t}) = cur \cup {t}
         /\ MergeSetChanges(cur, b, b \ {t}) = cur \ {t}
         /\ MergeSetChanges(cur, b, b) = cur
  BY DEF MergeSetChanges

Agrees(j, f) ==
  /\ j.task \in j.base.inFlight  <=> j.task \in f.inFlight
  /\ j.task \in j.base.completed <=> j.task \in f.completed
  /\ j.task \in j.base.blocked   <=> j.task \in f.blocked

\* The edit of one task, applied to a file.
EditStep(j, f, g) ==
  LET t == j.task IN
  \/ /\ j.edit = "markInFlight"
     /\ g.inFlight = f.inFlight \cup {t} /\ g.completed = f.completed /\ g.blocked = f.blocked
  \/ /\ j.edit = "markCompleted"
     /\ g.inFlight = f.inFlight \ {t}
     /\ g.completed = f.completed \cup {t}
     /\ g.blocked = f.blocked \ {t}
  \/ /\ j.edit = "markBlocked"
     /\ g.inFlight = f.inFlight \ {t}
     /\ g.completed = f.completed \ {t}
     /\ g.blocked = f.blocked \cup {t}
  \/ /\ j.edit = "clearTerminal"
     /\ g.inFlight = f.inFlight \ {t}
     /\ g.completed = f.completed \ {t}
     /\ g.blocked = f.blocked \ {t}
  \/ /\ j.edit = "clearInFlight"
     /\ g.inFlight = f.inFlight \ {t} /\ g.completed = f.completed /\ g.blocked = f.blocked

\* A Save whose snapshot agrees with the file about its task does to the
\* file, whatever else it holds by then, what the edit does to a set.
LEMMA SaveIsEdit ==
  ASSUME NEW f \in SchedulerFile, NEW j \in Job, Agrees(j, f)
  PROVE  EditStep(j, f, SaveMerge(f, j.base, Edited(j)))
<1> DEFINE t == j.task
           b == j.base
           g == SaveMerge(f, b, Edited(j))
<1>0. j.base \in SchedulerFile /\ j.edit \in Edits
  BY DEF Job
<1>1. /\ g.inFlight  = MergeSetChanges(f.inFlight, b.inFlight, Edited(j).inFlight)
      /\ g.completed = MergeSetChanges(f.completed, b.completed, Edited(j).completed)
      /\ g.blocked   = MergeSetChanges(f.blocked, b.blocked, Edited(j).blocked)
  BY DEF SaveMerge
<1>2. /\ MergeSetChanges(f.inFlight, b.inFlight, b.inFlight \cup {t}) = f.inFlight \cup {t}
      /\ MergeSetChanges(f.inFlight, b.inFlight, b.inFlight \ {t}) = f.inFlight \ {t}
      /\ MergeSetChanges(f.inFlight, b.inFlight, b.inFlight) = f.inFlight
  BY MergeOfOneTask DEF Agrees
<1>3. /\ MergeSetChanges(f.completed, b.completed, b.completed \cup {t}) = f.completed \cup {t}
      /\ MergeSetChanges(f.completed, b.completed, b.completed \ {t}) = f.completed \ {t}
      /\ MergeSetChanges(f.completed, b.completed, b.completed) = f.completed
  BY MergeOfOneTask DEF Agrees
<1>4. /\ MergeSetChanges(f.blocked, b.blocked, b.blocked \cup {t}) = f.blocked \cup {t}
      /\ MergeSetChanges(f.blocked, b.blocked, b.blocked \ {t}) = f.blocked \ {t}
      /\ MergeSetChanges(f.blocked, b.blocked, b.blocked) = f.blocked
  BY MergeOfOneTask DEF Agrees
<1> HIDE DEF g
<1>5. CASE j.edit = "markInFlight"
  <2>1. /\ Edited(j).inFlight = b.inFlight \cup {t}
        /\ Edited(j).completed = b.completed
        /\ Edited(j).blocked = b.blocked
    BY <1>0, <1>5 DEF Edited, MarkInFlight, SchedulerFile
  <2> QED BY <1>1, <1>2, <1>3, <1>4, <1>5, <2>1 DEF EditStep, g
<1>6. CASE j.edit = "markCompleted"
  <2>1. /\ Edited(j).inFlight = b.inFlight \ {t}
        /\ Edited(j).completed = b.completed \cup {t}
        /\ Edited(j).blocked = b.blocked \ {t}
    BY <1>0, <1>6 DEF Edited, MarkCompleted, SchedulerFile
  <2> QED BY <1>1, <1>2, <1>3, <1>4, <1>6, <2>1 DEF EditStep, g
<1>7. CASE j.edit = "markBlocked"
  <2>1. /\ Edited(j).inFlight = b.inFlight \ {t}
        /\ Edited(j).completed = b.completed \ {t}
        /\ Edited(j).blocked = b.blocked \cup {t}
    BY <1>0, <1>7 DEF Edited, MarkBlockedWithData, SchedulerFile
  <2> QED BY <1>1, <1>2, <1>3, <1>4, <1>7, <2>1 DEF EditStep, g
<1>8. CASE j.edit = "clearTerminal"
  <2>1. /\ Edited(j).inFlight = b.inFlight \ {t}
        /\ Edited(j).completed = b.completed \ {t}
        /\ Edited(j).blocked = b.blocked \ {t}
    BY <1>0, <1>8 DEF Edited, ClearTaskTerminalState, SchedulerFile
  <2> QED BY <1>1, <1>2, <1>3, <1>4, <1>8, <2>1 DEF EditStep, g
<1>9. CASE j.edit = "clearInFlight"
  <2>1. /\ Edited(j).inFlight = b.inFlight \ {t}
        /\ Edited(j).completed = b.completed
        /\ Edited(j).blocked = b.blocked
    BY <1>0, <1>9 DEF Edited, ClearTaskInFlight, SchedulerFile
  <2> QED BY <1>1, <1>2, <1>3, <1>4, <1>9, <2>1 DEF EditStep, g
<1> QED BY <1>0, <1>5, <1>6, <1>7, <1>8, <1>9 DEF Edits

LEMMA AgreesMeansCurrent ==
  SnapshotCurrent <=> \A c \in Clients : Editing(c) => Agrees(job[c], file)
  BY DEF SnapshotCurrent, Agrees

\* Whatever the other goroutines save between the Load and the Save of an
\* edit, the snapshot stays right about the task being edited.
THEOREM SnapshotStaysCurrent == Spec => []SnapshotCurrent
<1>1. Init => SnapshotCurrent
  BY DEF Init, SnapshotCurrent, Editing
<1>2. TypeOK /\ MutexInv /\ SnapshotCurrent /\ [Next]_vars => SnapshotCurrent'
  <2> SUFFICES ASSUME TypeOK, MutexInv, SnapshotCurrent, [Next]_vars
               PROVE  SnapshotCurrent'
    OBVIOUS
  <2> USE DEF TypeOK, Editing
  <2>1. ASSUME NEW c \in Clients, NEW e \in Edits, NEW t \in Tasks, NEW d \in TaskDatum,
               Load(c, e, t, d)
        PROVE  SnapshotCurrent'
    BY <2>1 DEF Load, SnapshotCurrent
  <2>2. ASSUME NEW c \in Clients, LoadFails(c) PROVE SnapshotCurrent'
    BY <2>2 DEF LoadFails, SnapshotCurrent
  <2>3. ASSUME NEW c \in Clients, SaveBegin(c) PROVE SnapshotCurrent'
    BY <2>3 DEF SaveBegin, SnapshotCurrent
  <2>4. ASSUME NEW c \in Clients, SaveEnd(c) PROVE SnapshotCurrent'
    <3>1. job[c] \in Job /\ Agrees(job[c], file)
      BY <2>4, AgreesMeansCurrent DEF SaveEnd
    <3>2. EditStep(job[c], file, file')
      BY <2>4, <3>1, SaveIsEdit DEF SaveEnd
    <3>3. ASSUME NEW d \in Clients, Editing(d)'
          PROVE  /\ d # c
                 /\ Editing(d)
                 /\ job'[d] = job[d]
                 /\ job[d].task # job[c].task
      BY <2>4, <3>3 DEF SaveEnd, MutexInv
    <3>4. ASSUME NEW u, u # job[c].task
          PROVE  /\ u \in file.inFlight  <=> u \in file'.inFlight
                 /\ u \in file.completed <=> u \in file'.completed
                 /\ u \in file.blocked   <=> u \in file'.blocked
      BY <3>2, <3>4 DEF EditStep
    <3> QED BY <3>3, <3>4 DEF SnapshotCurrent
  <2>5. CASE Crash
    BY <2>5 DEF Crash, SnapshotCurrent
  <2>6. CASE UNCHANGED vars
    BY <2>6 DEF vars, SnapshotCurrent
  <2> QED BY <2>1, <2>2, <2>3, <2>4, <2>5, <2>6 DEF Next
<1> QED BY <1>1, <1>2, TypeCorrect, MutexCorrect, PTL DEF Spec

\* No update of the three sets is lost: interleaved Load/Save pairs implement
\* a record whose edits are atomic.
THEOREM StoreImplementsAtomicState == Spec => SetsAreAtomic
<1>1. Init => Atomic!Init
  BY DEF Init, Atomic!Init, EmptyFile
<1>2. TypeOK /\ SnapshotCurrent /\ [Next]_vars => [Atomic!Next]_Atomic!vars
  <2> SUFFICES ASSUME TypeOK, SnapshotCurrent, [Next]_vars
               PROVE  [Atomic!Next]_Atomic!vars
    OBVIOUS
  <2>1. ASSUME NEW c \in Clients, SaveEnd(c) PROVE Atomic!Next
    <3>1. job[c] \in Job /\ Agrees(job[c], file) /\ job[c].task \in Tasks
      BY <2>1, AgreesMeansCurrent DEF SaveEnd, TypeOK, Editing, Job
    <3>2. EditStep(job[c], file, file')
      BY <2>1, <3>1, SaveIsEdit DEF SaveEnd, TypeOK
    <3> QED
      BY <3>1, <3>2 DEF EditStep, Atomic!Next, Atomic!Start, Atomic!Complete,
                        Atomic!Block, Atomic!Finish, Atomic!Abandon
  <2>2. CASE UNCHANGED file
    BY <2>2 DEF Atomic!vars
  <2>3. ASSUME ~(UNCHANGED file) PROVE \E c \in Clients : SaveEnd(c)
    BY <2>3 DEF Next, Load, LoadFails, SaveBegin, Crash, vars
  <2> QED BY <2>1, <2>2, <2>3
<1> QED BY <1>1, <1>2, TypeCorrect, SnapshotStaysCurrent, PTL DEF Spec, SetsAreAtomic, Atomic!Spec
=============================================================================
