--------------------------- MODULE SchedulerStore ---------------------------
(***************************************************************************)
(* schedulerStateStore under concurrency.  The dispatcher and the workers   *)
(* of one agent loop edit the same file: every edit is a Load, a change of  *)
(* the loaded snapshot, and a Save, and the store's mutex is held inside    *)
(* Load and inside Save but not between them.  Save re-reads the file,      *)
(* merges, truncates and rewrites it (os.WriteFile).  A crash may fall at   *)
(* any point, in particular after the truncation.                           *)
(*                                                                         *)
(* The loop's TaskLock lets one goroutine at a time edit a given task; that *)
(* exclusion is the guard of Load.                                          *)
(***************************************************************************)
EXTENDS SchedulerState

CONSTANTS
  Clients,    \* goroutines of the loop: the dispatcher and the workers
  None,       \* no client
  MaxCrashes  \* bound on the crashes explored

ASSUME StoreAssumption == None \notin Clients /\ MaxCrashes \in Nat

Edits == {"markInFlight", "markCompleted", "markBlocked",
          "clearTerminal", "clearInFlight"}

\* One edit in progress: what is done to which task, with which data
\* (markBlocked only), and the snapshot it was loaded from.
Job == [edit : Edits, task : Tasks, datum : TaskDatum, base : SchedulerFile]

VARIABLES
  file,      \* contents of the file, as last completely written
  readable,  \* FALSE from the truncation of the file to the end of the write
  mu,        \* client holding the store's mutex across a write, or None
  pc,        \* "idle", "loaded" (between Load and Save), "writing", "error"
  job,       \* the edit each client is carrying out, or None
  crashes

vars == <<file, readable, mu, pc, job, crashes>>

Init ==
  /\ file = EmptyFile
  /\ readable = TRUE
  /\ mu = None
  /\ pc = [c \in Clients |-> "idle"]
  /\ job = [c \in Clients |-> None]
  /\ crashes = 0

Edited(j) ==
  CASE j.edit = "markInFlight"  -> MarkInFlight(j.base, j.task)
    [] j.edit = "markCompleted" -> MarkCompleted(j.base, j.task)
    [] j.edit = "markBlocked"   -> MarkBlockedWithData(j.base, j.task, j.datum)
    [] j.edit = "clearTerminal" -> ClearTaskTerminalState(j.base, j.task)
    [] j.edit = "clearInFlight" -> ClearTaskInFlight(j.base, j.task)

Editing(c) == pc[c] \in {"loaded", "writing"}

\* Mutant: edits of one task are not serialised by the loop's TaskLock.
TaskLockFree_Unlocked(t) == TRUE

TaskLockFree(t) == \A d \in Clients : Editing(d) => job[d].task # t

\* Load: the snapshot and its base are copies of the file at this moment.
Load(c, e, t, d) ==
  /\ pc[c] = "idle"
  /\ mu = None
  /\ readable
  /\ TaskLockFree(t)
  /\ d # NoData <=> e = "markBlocked"
  /\ job' = [job EXCEPT ![c] = [edit |-> e, task |-> t, datum |-> d, base |-> file]]
  /\ pc' = [pc EXCEPT ![c] = "loaded"]
  /\ UNCHANGED <<file, readable, mu, crashes>>

\* Load of a file that no longer parses: the caller gets an error and the
\* run ends.
LoadFails(c) ==
  /\ pc[c] = "idle"
  /\ mu = None
  /\ ~readable
  /\ pc' = [pc EXCEPT ![c] = "error"]
  /\ UNCHANGED <<file, readable, mu, job, crashes>>

\* Save takes the mutex, re-reads the file (unchanged until the write, so
\* the merge is computed in SaveEnd) and truncates it.
SaveBegin(c) ==
  /\ pc[c] = "loaded"
  /\ mu = None
  /\ readable
  /\ mu' = c
  /\ readable' = FALSE
  /\ pc' = [pc EXCEPT ![c] = "writing"]
  /\ UNCHANGED <<file, job, crashes>>

\* Save writes the merged state and releases the mutex.
SaveEnd(c) ==
  /\ pc[c] = "writing"
  /\ file' = SaveMerge(file, job[c].base, Edited(job[c]))
  /\ readable' = TRUE
  /\ mu' = None
  /\ pc' = [pc EXCEPT ![c] = "idle"]
  /\ job' = [job EXCEPT ![c] = None]
  /\ UNCHANGED crashes

\* The process dies and a new one starts: goroutines and the mutex are gone,
\* the file is as the last write left it.
Crash ==
  /\ crashes < MaxCrashes
  /\ crashes' = crashes + 1
  /\ pc' = [c \in Clients |-> "idle"]
  /\ job' = [c \in Clients |-> None]
  /\ mu' = None
  /\ UNCHANGED <<file, readable>>

Next ==
  \/ \E c \in Clients, e \in Edits, t \in Tasks, d \in TaskDatum : Load(c, e, t, d)
  \/ \E c \in Clients : LoadFails(c) \/ SaveBegin(c) \/ SaveEnd(c)
  \/ Crash

Spec == Init /\ [][Next]_vars

-----------------------------------------------------------------------------
(* Properties.                                                              *)

TypeOK ==
  /\ file \in SchedulerFile
  /\ readable \in BOOLEAN
  /\ mu \in Clients \cup {None}
  /\ pc \in [Clients -> {"idle", "loaded", "writing", "error"}]
  /\ job \in [Clients -> Job \cup {None}]
  /\ \A c \in Clients : Editing(c) => job[c] \in Job
  /\ crashes \in 0..MaxCrashes

\* Between Load and Save other goroutines may save the file, yet what it says
\* of the task being edited stays what the snapshot says of it.
SnapshotCurrent ==
  \A c \in Clients : Editing(c) =>
    LET t == job[c].task
        b == job[c].base
    IN /\ t \in b.inFlight  <=> t \in file.inFlight
       /\ t \in b.completed <=> t \in file.completed
       /\ t \in b.blocked   <=> t \in file.blocked

\* Interleaved Load/Save pairs lose no update of the three sets: the file
\* goes through the states of a record edited atomically.
Atomic == INSTANCE AtomicState WITH
            inFlight  <- file.inFlight,
            completed <- file.completed,
            blocked   <- file.blocked

SetsAreAtomic == Atomic!Spec

\* After an interruption the next run can read the state file and resume.
ResumeCanLoad == \A c \in Clients : pc[c] # "error"

=============================================================================
