----------------------------- MODULE RunnerMonitor ------------------------------
(* The watch over a running agent (runRunnerWithMonitoring, internal/agent/loop.go): *)
(* a goroutine of the loop reports with each tick that the run is alive, and warns *)
(* once when there has been no output for too long.  The run's output arrives in   *)
(* another goroutine; they share the time of the last output under a lock, and     *)
(* send their events without it.                                                   *)
EXTENDS Naturals

CONSTANT WarnAfter  \* NoOutputWarningAfter, in heartbeats

ASSUME WarnAssumption == WarnAfter \in Nat

VARIABLES
    quiet,    \* heartbeats since the last output, up to WarnAfter
    warned,   \* this silence has been warned of
    tick,     \* the ticker's channel holds a tick
    monitor,  \* where the goroutine is: waiting, about to send its heartbeat or its warning, or over
    warns,    \* its tick found a silence to warn of
    run,      \* the runner runs, has returned, or is reported as finished
    dismissed,\* the goroutine's context is cancelled
    warnings  \* history: warnings since the last output, up to three

monitorVars == <<quiet, warned, tick, monitor, warns, run, dismissed, warnings>>

MonitorInit ==
    /\ quiet = 0 /\ warned = FALSE
    /\ tick = FALSE
    /\ monitor = "waiting" /\ warns = FALSE
    /\ run = "running" /\ dismissed = FALSE
    /\ warnings = 0

\* A tick that is not taken in time is dropped.
PassHeartbeat ==
    /\ monitor # "over"
    /\ quiet' = IF quiet < WarnAfter THEN quiet + 1 ELSE quiet
    /\ tick' = TRUE
    /\ UNCHANGED <<warned, monitor, warns, run, dismissed, warnings>>

\* OnProgress.
Progress ==
    /\ run = "running"
    /\ quiet' = 0 /\ warned' = FALSE
    /\ warnings' = 0
    /\ UNCHANGED <<tick, monitor, warns, run, dismissed>>

\* Mutant: what was warned of is not noted.
TakeTick_Forgets ==
    /\ monitor = "waiting" /\ tick
    /\ tick' = FALSE
    /\ warns' = (quiet >= WarnAfter /\ ~warned)
    /\ UNCHANGED warned
    /\ monitor' = "heartbeat"
    /\ UNCHANGED <<quiet, run, dismissed, warnings>>

\* Under the lock.
TakeTick ==
    /\ monitor = "waiting" /\ tick
    /\ tick' = FALSE
    /\ warns' = (quiet >= WarnAfter /\ ~warned)
    /\ warned' = (warned \/ quiet >= WarnAfter)
    /\ monitor' = "heartbeat"
    /\ UNCHANGED <<quiet, run, dismissed, warnings>>

SendHeartbeat ==
    /\ monitor = "heartbeat"
    /\ monitor' = IF warns THEN "warning" ELSE "waiting"
    /\ UNCHANGED <<quiet, warned, tick, warns, run, dismissed, warnings>>

SendWarning ==
    /\ monitor = "warning"
    /\ monitor' = "waiting"
    /\ warnings' = IF warnings < 3 THEN warnings + 1 ELSE warnings
    /\ UNCHANGED <<quiet, warned, tick, warns, run, dismissed>>

\* When a tick is there as well, either may be taken.
SeeDismissal ==
    /\ monitor = "waiting" /\ dismissed
    /\ monitor' = "over"
    /\ UNCHANGED <<quiet, warned, tick, warns, run, dismissed, warnings>>

ReturnRunner ==
    /\ run = "running"
    /\ run' = "returned"
    /\ UNCHANGED <<quiet, warned, tick, monitor, warns, dismissed, warnings>>

\* cancel; the goroutine is not waited for.
Dismiss ==
    /\ run = "returned"
    /\ dismissed' = TRUE
    /\ run' = "finished"
    /\ UNCHANGED <<quiet, warned, tick, monitor, warns, warnings>>

MonitorGoroutine == TakeTick \/ SendHeartbeat \/ SendWarning

MonitorNext ==
    \/ PassHeartbeat \/ Progress \/ ReturnRunner \/ Dismiss
    \/ MonitorGoroutine \/ SeeDismissal

-------------------------------------------------------------------------------
(* Properties. *)

\* A silence is warned of once; a second warning in it is one that was on its way when the last
\* output came, and speaks of the silence before that (OnProgress, the ticker's goroutine).
WarnedOncePerSilence == warnings <= 2 /\ (warnings = 2 => warned)

\* An agent that stays silent is warned of, unless its run ends; and the goroutine does not outlive
\* the run it watches for ever.
MonitorDue  == run = "finished" \/ (run = "running" /\ quiet = WarnAfter)
MonitorOver == CASE run = "running"  -> warnings > 0 \/ quiet = 0
               [] run = "returned" -> TRUE
               [] run = "finished" -> monitor = "over"
================================================================================
