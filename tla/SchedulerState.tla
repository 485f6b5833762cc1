--------------------------- MODULE SchedulerState ---------------------------
(***************************************************************************)
(* The record the agent loop keeps on disk so that an interrupted run can   *)
(* be resumed (internal/agent/scheduler_state.go): which tasks of a parent  *)
(* are in flight, completed or blocked, and the data stored with the        *)
(* blocked ones.  This module has no variables: it defines the record, the  *)
(* five edits the loop makes to a loaded snapshot, and the three-way merge  *)
(* by which Save folds an edited snapshot into whatever the file holds by   *)
(* then.                                                                    *)
(***************************************************************************)
EXTENDS Naturals

CONSTANTS
  Tasks,      \* task ids of one parent
  DataKeys,   \* keys of the data stored with a blocked task
  DataVals,   \* values of those keys
  Absent      \* "the map has no such key"

ASSUME AbsentAssumption == Absent \notin DataVals

-----------------------------------------------------------------------------
(* schedulerParentState.  A Go map from task to data is a total function    *)
(* here; a task without an entry has every key Absent.                      *)

TaskDatum == [DataKeys -> DataVals \cup {Absent}]
NoData    == [k \in DataKeys |-> Absent]

SchedulerFile ==
  [inFlight  : SUBSET Tasks,
   completed : SUBSET Tasks,
   blocked   : SUBSET Tasks,
   taskData  : [Tasks -> TaskDatum]]

EmptyFile ==
  [inFlight  |-> {},
   completed |-> {},
   blocked   |-> {},
   taskData  |-> [t \in Tasks |-> NoData]]

-----------------------------------------------------------------------------
(* Edits of a loaded snapshot.                                              *)

MarkInFlight(s, t) == [s EXCEPT !.inFlight = @ \cup {t}]

MarkCompleted(s, t) ==
  [s EXCEPT !.inFlight  = @ \ {t},
            !.completed = @ \cup {t},
            !.blocked   = @ \ {t}]

MarkBlockedWithData(s, t, d) ==
  [s EXCEPT !.inFlight    = @ \ {t},
            !.completed   = @ \ {t},
            !.blocked     = @ \cup {t},
            !.taskData[t] = d]

ClearTaskTerminalState(s, t) ==
  [s EXCEPT !.inFlight  = @ \ {t},
            !.completed = @ \ {t},
            !.blocked   = @ \ {t}]

ClearTaskInFlight(s, t) == [s EXCEPT !.inFlight = @ \ {t}]

-----------------------------------------------------------------------------
(* Save: base is the snapshot as it was loaded, next the same snapshot after *)
(* its edit, current what the file holds when Save takes the store's mutex.  *)

\* Mutant: the last writer wins.
MergeSetChanges_LastWriter(current, base, next) == next

MergeSetChanges(current, base, next) ==
  (current \ (base \ next)) \cup (next \ base)

\* A task already known to the base has each of its keys written again over
\* the current value, whether this edit touched that task or not.
MergeTaskDatum(current, base, next) ==
  IF base = NoData
    THEN IF next = NoData THEN current ELSE next
    ELSE IF next = NoData
           THEN NoData
           ELSE [k \in DataKeys |->
                   IF next[k] # Absent THEN next[k] ELSE current[k]]

MergeTaskDataChanges(current, base, next) ==
  [t \in Tasks |-> MergeTaskDatum(current[t], base[t], next[t])]

SaveMerge(current, base, next) ==
  [inFlight  |-> MergeSetChanges(current.inFlight, base.inFlight, next.inFlight),
   completed |-> MergeSetChanges(current.completed, base.completed, next.completed),
   blocked   |-> MergeSetChanges(current.blocked, base.blocked, next.blocked),
   taskData  |-> MergeTaskDataChanges(current.taskData, base.taskData, next.taskData)]

=============================================================================
