------------------------------ MODULE OpenCodeRun ------------------------------
(* One OpenCode run: the process, its watchdog, the ACP client and the loop that   *)
(* waits for them (RunWithACPAndUpdates, internal/opencode/client.go).             *)
EXTENDS Watchdog

VARIABLES
    acp,        \* where the ACP client is, or how it ended
    attempt,    \* runs of the task prompt
    prompted,   \* the agent has come to the end of a task prompt
    abandoned,  \* the caller's context
    serena,     \* the stderr log has the Serena failure
    acpStopped, \* acpCancel was called
    loop,       \* where RunWithACPAndUpdates is
    runErr,     \* what the client or the context is to blame for
    processErr, \* killErr and waitErr
    forced,     \* forcedKillAfterACP
    outcome     \* what it returned

acpVars == <<acp, attempt, prompted>>
callerVars == <<abandoned, serena>>
clientVars == <<acpVars, callerVars, acpStopped, loop, runErr, processErr, forced, outcome>>
openCodeVars == <<watchdogVars, clientVars>>

AcpResults == {"ok", "unverified", "closed", "error"}

AcpDone == acp \in AcpResults

OpenCodeInit ==
    /\ WatchdogInit
    /\ acp = "task" /\ attempt = 1 /\ prompted = FALSE
    /\ abandoned = FALSE /\ serena = FALSE /\ acpStopped = FALSE
    /\ loop = "select" /\ runErr = "none" /\ processErr = "none" /\ forced = FALSE
    /\ outcome = "none"

-------------------------------------------------------------------------------
(* The ACP client (RunACPClient): the task, then the question whether it is done,  *)
(* each in a session of its own, and both once more if it is not.                  *)

\* The prompt loop of the task ends, and the log says so.
TaskPromptEnds ==
    /\ acp = "task" /\ ~Ended
    /\ acp' = "verify" /\ prompted' = TRUE
    /\ idle' = TRUE /\ silence' = 0 /\ grown' = TRUE
    /\ UNCHANGED <<proc, waitErr, age, watch, stall>>
    /\ UNCHANGED <<attempt, callerVars, acpStopped, loop, runErr, processErr, forced, outcome>>

\* Mutant: one question too many.
Verified_OneMore(done) ==
    /\ acp = "verify" /\ ~Ended
    /\ IF done THEN acp' = "ok" /\ UNCHANGED attempt
       ELSE IF attempt <= 2 THEN acp' = "task" /\ attempt' = attempt + 1
       ELSE acp' = "unverified" /\ UNCHANGED attempt
    /\ UNCHANGED <<prompted, callerVars, acpStopped, loop, runErr, processErr, forced, outcome,
                   watchdogVars>>

Verified(done) ==
    /\ acp = "verify" /\ ~Ended
    /\ IF done THEN acp' = "ok" /\ UNCHANGED attempt
       ELSE IF attempt = 1 THEN acp' = "task" /\ attempt' = 2
       ELSE acp' = "unverified" /\ UNCHANGED attempt
    /\ UNCHANGED <<prompted, callerVars, acpStopped, loop, runErr, processErr, forced, outcome,
                   watchdogVars>>

\* The connection ends with the process, or the client's context does.
AcpStops ==
    /\ ~AcpDone
    /\ \/ Ended /\ acp' \in {"closed", "error"}
       \/ (acpStopped \/ abandoned) /\ acp' = "closed"
    /\ UNCHANGED <<attempt, prompted, callerVars, acpStopped, loop, runErr, processErr, forced,
                   outcome, watchdogVars>>

AcpStep == TaskPromptEnds \/ (\E done \in BOOLEAN : Verified(done)) \/ AcpStops

-------------------------------------------------------------------------------
(* Around the run: the caller's context, and a failure of the Serena server that   *)
(* the log tells of.                                                               *)

CancelRun ==
    /\ ~abandoned /\ loop # "returned"
    /\ abandoned' = TRUE
    /\ UNCHANGED <<serena, acpVars, acpStopped, loop, runErr, processErr, forced, outcome,
                   watchdogVars>>

SerenaFails ==
    /\ ~serena /\ ~Ended
    /\ serena' = TRUE
    /\ UNCHANGED <<abandoned, acpVars, acpStopped, loop, runErr, processErr, forced, outcome,
                   watchdogVars>>

-------------------------------------------------------------------------------
(* The loop.  It waits for the client or the watchdog, whichever is first, and then *)
(* for the other: for a while, and after a kill as long as it takes.               *)

WatchDone == watch = "returned"

ProcessError == IF stall = "ok" THEN "none" ELSE stall

KillProcess ==
    /\ proc' = Killed
    /\ UNCHANGED <<waitErr, silence, grown, age, idle, watch, stall>>

Abort(reason) ==
    /\ loop = "select"
    /\ KillProcess
    /\ runErr' = reason
    /\ loop' = "reap"
    /\ UNCHANGED <<acpVars, callerVars, acpStopped, processErr, forced, outcome>>

\* monitorInitFailures looks at the log for the first 30 seconds only.
AbortOnSerena == serena /\ Abort("serena")

AbortOnCancel == abandoned /\ Abort("cancelled")

Reap ==
    /\ loop = "reap" /\ WatchDone
    /\ processErr' = ProcessError
    /\ loop' = "check"
    /\ UNCHANGED <<acpVars, callerVars, acpStopped, runErr, forced, outcome, watchdogVars>>

ReadAcp ==
    /\ loop = "select" /\ AcpDone
    /\ runErr' = IF acp = "ok" THEN "none" ELSE acp
    /\ loop' = "process grace"
    /\ UNCHANGED <<acpVars, callerVars, acpStopped, processErr, forced, outcome, watchdogVars>>

ProcessEndsInGrace ==
    /\ loop = "process grace" /\ WatchDone
    /\ processErr' = ProcessError
    /\ loop' = "check"
    /\ UNCHANGED <<acpVars, callerVars, acpStopped, runErr, forced, outcome, watchdogVars>>

\* acpShutdownGrace is over.
ForceKill ==
    /\ loop = "process grace"
    /\ forced' = TRUE
    /\ KillProcess
    /\ loop' = "reap"
    /\ UNCHANGED <<acpVars, callerVars, acpStopped, runErr, processErr, outcome>>

\* shouldTreatProcessExitAsSessionCompletion: the process was idle, or it ended with
\* nothing worse than a stall and its log ends a prompt loop.
SessionCompleted == stall = "idle" \/ (stall \in {"ok", "silent"} /\ idle)

ReadWatchdog ==
    /\ loop = "select" /\ WatchDone
    /\ processErr' = IF SessionCompleted THEN "none" ELSE ProcessError
    /\ acpStopped' = SessionCompleted
    /\ loop' = IF SessionCompleted THEN "acp grace" ELSE "exit grace"
    /\ UNCHANGED <<acpVars, callerVars, runErr, forced, outcome, watchdogVars>>

\* A client that was told to stop may say that it did.
AcpEndsInGrace ==
    /\ loop \in {"acp grace", "exit grace"} /\ AcpDone
    /\ runErr' = IF acp = "ok" \/ (loop = "acp grace" /\ acp = "closed") THEN "none" ELSE acp
    /\ loop' = "check"
    /\ UNCHANGED <<acpVars, callerVars, acpStopped, processErr, forced, outcome, watchdogVars>>

\* Mutant: a client that does not finish is no error.
AcpGraceEnds_Silently ==
    /\ loop \in {"acp grace", "exit grace"} /\ ~AcpDone
    /\ loop' = "check"
    /\ UNCHANGED <<acpVars, callerVars, acpStopped, runErr, processErr, forced, outcome,
                   watchdogVars>>

\* "acp client did not finish after opencode exit", unless the session was completed.
AcpGraceEnds ==
    /\ loop \in {"acp grace", "exit grace"} /\ ~AcpDone
    /\ runErr' = IF loop = "exit grace" THEN "not finished" ELSE runErr
    /\ loop' = "check"
    /\ UNCHANGED <<acpVars, callerVars, acpStopped, processErr, forced, outcome, watchdogVars>>

\* A process that had to be killed after its client was done is no error.
CheckOutcome ==
    /\ loop = "check"
    /\ loop' = "returned"
    /\ outcome' = IF serena \/ runErr # "none" THEN "failed"
                  ELSE IF forced \/ processErr = "none" THEN "completed" ELSE "failed"
    /\ UNCHANGED <<acpVars, callerVars, acpStopped, runErr, processErr, forced, watchdogVars>>

LoopStep ==
    \/ AbortOnCancel \/ Reap \/ ReadAcp \/ ProcessEndsInGrace \/ ForceKill \/ ReadWatchdog
    \/ AcpEndsInGrace \/ AcpGraceEnds \/ CheckOutcome

\* The process and its logs by themselves.
AgentStep ==
    \/ PassInterval \/ WriteLog \/ LogPrompt(FALSE) \/ CollectExit
    \/ \E how \in {"exited", "crashed"} : EndProcess(how)

OpenCodeNext ==
    \/ (AgentStep \/ MonitorStep) /\ UNCHANGED clientVars
    \/ AcpStep \/ CancelRun \/ SerenaFails \/ AbortOnSerena \/ LoopStep

-------------------------------------------------------------------------------
OpenCodeTypeOK ==
    /\ proc \in {"running", "exited", "crashed", "killed"}
    /\ waitErr \in {"none", "ok", "error"}
    /\ silence \in 0 .. Timeout + 1 /\ age \in 0 .. Timeout + 1
    /\ grown \in BOOLEAN /\ idle \in BOOLEAN
    /\ watch \in {"select", "grace", "kill idle", "kill silent", "returned"}
    /\ stall \in {"none", "ok", "error", "idle", "silent", "kill failed"}
    /\ acp \in {"task", "verify"} \cup AcpResults /\ attempt \in 1 .. 2
    /\ prompted \in BOOLEAN /\ abandoned \in BOOLEAN /\ serena \in BOOLEAN
    /\ acpStopped \in BOOLEAN /\ forced \in BOOLEAN
    /\ loop \in {"select", "reap", "process grace", "acp grace", "exit grace", "check", "returned"}
    /\ outcome \in {"none", "completed", "failed"}

\* A run is reported as completed only if the agent came to the end of the task's
\* prompt, whichever of client, process and watchdog was heard first.  The agent need
\* not have said that the task is done: the end of the prompt already looks idle.
CompletedWasPrompted == outcome = "completed" => prompted

\* A run that has returned leaves no process behind.
NoProcessLeft == loop = "returned" => Ended

\* A run ends once its context does, its process does or its client has a result.
OpenCodeDue  == abandoned \/ Ended \/ AcpDone
OpenCodeOver == loop = "returned"
===============================================================================
