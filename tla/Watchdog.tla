-------------------------------- MODULE Watchdog --------------------------------
(* An OpenCode process and the watchdog that ends it when it is silent or idle:    *)
(* Watchdog.Monitor (internal/opencode/watchdog.go).                               *)
EXTENDS Integers

CONSTANT Timeout  \* watchdog timeout, in intervals

ASSUME TimeoutAssumption == Timeout \in Nat

VARIABLES
    proc,     \* the OS process
    waitErr,  \* what process.Wait has put into waitErrCh, or "none"
    silence,  \* intervals since the process last wrote its log, at most Timeout + 1
    grown,    \* the log is longer than lastSize
    age,      \* currentTime - lastOutput, at most Timeout + 1
    idle,     \* the tail of its stderr log ends a prompt loop
    watch,    \* where Monitor is
    stall     \* what Monitor returned: an exit, a stall category, or "none"

watchdogVars == <<proc, waitErr, silence, grown, age, idle, watch, stall>>

Ended == proc # "running"

WatchdogInit ==
    /\ proc = "running" /\ waitErr = "none"
    /\ silence = 0 /\ grown = FALSE /\ age = 0 /\ idle = FALSE
    /\ watch = "select" /\ stall = "none"

Longer(n) == IF n > Timeout THEN n ELSE n + 1

-------------------------------------------------------------------------------
(* The process and its logs. *)

PassInterval ==
    /\ silence <= Timeout \/ age <= Timeout
    /\ silence' = Longer(silence) /\ age' = Longer(age)
    /\ UNCHANGED <<proc, waitErr, grown, idle, watch, stall>>

WriteLog ==
    /\ ~Ended
    /\ silence' = 0 /\ grown' = TRUE
    /\ UNCHANGED <<proc, waitErr, age, idle, watch, stall>>

\* A prompt loop ends, or its lines leave the tail.
LogPrompt(ended) ==
    /\ ~Ended /\ idle # ended
    /\ idle' = ended
    /\ UNCHANGED <<proc, waitErr, silence, grown, age, watch, stall>>

EndProcess(how) ==
    /\ ~Ended
    /\ proc' = how
    /\ UNCHANGED <<waitErr, silence, grown, age, idle, watch, stall>>

\* Collected: Kill of a process that is no longer there fails.
CollectExit ==
    /\ Ended /\ waitErr = "none"
    /\ waitErr' = IF proc = "exited" THEN "ok" ELSE "error"
    /\ UNCHANGED <<proc, silence, grown, age, idle, watch, stall>>

Collected == waitErr # "none"

Killed == IF Ended THEN proc ELSE "killed"

-------------------------------------------------------------------------------
(* Monitor. *)

ReturnExit ==
    /\ watch \in {"select", "grace"} /\ Collected
    /\ watch' = "returned" /\ stall' = waitErr
    /\ UNCHANGED <<proc, waitErr, silence, grown, age, idle>>

\* A tick.  The log's time counts only when the log has grown.  lastSize is up to date
\* when it is compared, so an idle process is killed at once: no grace is waited for.
Look ==
    /\ watch = "select" /\ ~Collected
    /\ grown' = FALSE
    /\ age' = IF grown THEN silence ELSE age
    /\ watch' = IF idle THEN "kill idle" ELSE IF age' > Timeout THEN "grace" ELSE "select"
    /\ UNCHANGED <<proc, waitErr, silence, idle, stall>>

\* The completion grace is over; the log is not looked at again.
GraceEnds ==
    /\ watch = "grace" /\ ~Collected
    /\ watch' = "kill silent"
    /\ UNCHANGED <<proc, waitErr, silence, grown, age, idle, stall>>

KillStalled ==
    /\ watch \in {"kill idle", "kill silent"}
    /\ watch' = "returned"
    /\ IF Collected THEN stall' = "kill failed" /\ UNCHANGED proc
       ELSE /\ stall' = IF watch = "kill idle" THEN "idle" ELSE "silent"
            /\ proc' = Killed
    /\ UNCHANGED <<waitErr, silence, grown, age, idle>>

MonitorStep == ReturnExit \/ Look \/ GraceEnds \/ KillStalled

-------------------------------------------------------------------------------
\* The process is killed for its silence only if it has written nothing for longer than
\* the timeout, or only since the last look (the log is not read again after the grace).
SilentIsSilent == watch = "kill silent" /\ ~Ended => silence > Timeout \/ grown
===============================================================================
