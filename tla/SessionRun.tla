------------------------------- MODULE SessionRun -------------------------------
(* One run of an agent through a task session: start its process, wait until it is *)
(* ready, execute the prompt, tear the session down.  The adapters of `opencode    *)
(* serve`, `claude --print` and `codex app-server` follow the same steps over three *)
(* session runtimes (internal/opencode, internal/claude, internal/codex).          *)
EXTENDS Integers

CONSTANT Backends  \* backends to try, of "serve", "stdin" and "appserver"

VARIABLES
    backend,
    agent,    \* the agent's process
    reaped,   \* waitDone is closed
    said,     \* the agent's last word on the prompt
    read,     \* stdin: what the scanner goroutine found; appserver: what was read
    ended,    \* the run's context: "no", "deadline" or "cancelled"
    at,       \* where the adapter is
    force,    \* Force of the teardown
    error,    \* runErr
    result    \* status of the runner result

sessionVars == <<backend, agent, reaped, said, read, ended, at, force, error, result>>

Alive == agent = "running"

SessionInit ==
    /\ backend \in Backends
    /\ agent = "none" /\ reaped = FALSE /\ said = "nothing" /\ read = "nothing"
    /\ ended = "no" /\ at = "start" /\ force = FALSE
    /\ error = "none" /\ result = "none"

-------------------------------------------------------------------------------
(* The agent, and the caller's context. *)

\* claude has the prompt on its command line.
AgentSays(word) ==
    /\ Alive /\ said = "nothing"
    /\ at = "execute" \/ (at = "ready" /\ backend = "stdin")
    /\ said' = word
    /\ UNCHANGED <<backend, agent, reaped, read, ended, at, force, error, result>>

AgentExits ==
    /\ Alive
    /\ agent' = "exited"
    /\ UNCHANGED <<backend, reaped, said, read, ended, at, force, error, result>>

ReapAgent ==
    /\ agent \in {"exited", "killed"} /\ ~reaped
    /\ reaped' = TRUE
    /\ UNCHANGED <<backend, agent, said, read, ended, at, force, error, result>>

EndContext(how) ==
    /\ ended = "no" /\ at # "returned"
    /\ ended' = how
    /\ UNCHANGED <<backend, agent, reaped, said, read, at, force, error, result>>

\* claude and the app server are started with exec.CommandContext, `opencode serve` is not.
KillByContext ==
    /\ ended # "no" /\ backend # "serve" /\ Alive
    /\ agent' = "killed"
    /\ UNCHANGED <<backend, reaped, said, read, ended, at, force, error, result>>

-------------------------------------------------------------------------------
(* Start and WaitReady. *)

\* NormalizeBackendRunnerResult.
Status(err) ==
    CASE err = "none" -> "completed" [] err = "deadline" -> "blocked" [] OTHER -> "failed"

\* FinalizeRunError: a context that has ended is the error, unless it was cancelled and
\* the run failed of something else.
Finalized(err) ==
    CASE ended = "no" -> err
      [] ended = "deadline" -> "deadline"
      [] ended = "cancelled" -> IF err \in {"none", "cancelled"} THEN "cancelled" ELSE err

ReturnRun(err) == at' = "returned" /\ result' = Status(err)

StartSession ==
    /\ at = "start"
    /\ \/ ReturnRun("failed") /\ error' = "failed" /\ UNCHANGED agent
       \/ /\ ended = "no"
          /\ at' = "ready" /\ agent' = "running" /\ UNCHANGED <<error, result>>
    /\ UNCHANGED <<backend, reaped, said, read, ended, force>>

Ready ==
    /\ at' = "execute"
    /\ UNCHANGED <<backend, agent, reaped, said, read, ended, force, error, result>>

\* Both WaitReady that fails and an initialize call that fails tear down by force.
NotReady(err) ==
    /\ at' = "teardown" /\ force' = TRUE /\ error' = err
    /\ UNCHANGED <<backend, agent, reaped, said, read, ended, result>>

\* Polls the health endpoint, then creates a session.
ServeReady ==
    /\ backend = "serve" /\ at = "ready"
    /\ \/ Alive /\ Ready
       \/ ended # "no" /\ NotReady(ended)
       \/ (reaped \/ Alive) /\ NotReady("failed")

\* Only looks whether the process is there.
StdinReady ==
    /\ backend = "stdin" /\ at = "ready"
    /\ \/ ~reaped /\ ended = "no" /\ Ready
       \/ ended # "no" /\ NotReady(ended)
       \/ reaped /\ NotReady("failed")

\* The initialize call of Start.
AppServerReady ==
    /\ backend = "appserver" /\ at = "ready"
    /\ \/ Alive /\ Ready
       \/ ended # "no" /\ NotReady(Finalized(ended))
       \/ NotReady(Finalized("failed"))

-------------------------------------------------------------------------------
(* Execute. *)

Executed(err) ==
    /\ at = "execute"
    /\ LET final == Finalized(err) IN
       /\ error' = final
       /\ force' = IF backend = "stdin" THEN final # "none" ELSE final \notin {"none", "cancelled"}
    /\ at' = "teardown"
    /\ UNCHANGED <<backend, agent, reaped, said, read, ended, result>>

\* The answer to the prompt is waited for, and then the end of the server's process.
ServeExecute ==
    /\ backend = "serve"
    /\ \/ said = "failure" /\ Executed("failed")
       \/ said = "nothing" /\ ~Alive /\ Executed("failed")
       \/ said = "success" /\ reaped /\ Executed(IF agent = "exited" THEN "none" ELSE "failed")
       \/ ended # "no" /\ Executed(ended)

\* The scanner reads the pipe, which is closed as soon as the process is collected.
ScanResult ==
    /\ backend = "stdin" /\ at = "execute" /\ read = "nothing"
    /\ \/ said # "nothing" /\ ~reaped /\ read' = said
       \/ ~Alive /\ (said = "nothing" \/ reaped) /\ read' = "no result"
    /\ UNCHANGED <<backend, agent, reaped, said, ended, at, force, error, result>>

\* "claude exited before result" can win over a result.
StdinExecute ==
    /\ backend = "stdin"
    /\ \/ read # "nothing" /\ Executed(IF read = "success" THEN "none" ELSE "failed")
       \/ reaped /\ Executed("failed")
       \/ ended # "no" /\ Executed(ended)

\* turn/completed ends the run; turn/failed, turn/cancelled and turn/interrupted do not.
AppServerExecute ==
    /\ backend = "appserver"
    /\ \/ said = "success" /\ Executed("none")
       \/ ~Alive /\ (said # "success" \/ reaped) /\ Executed("failed")
       \/ ended # "no" /\ Executed(ended)

\* The server answers thread/start or turn/start with an error, also after it said that the
\* turn is complete; or what an event or a request of its is handed to fails.
AppServerRefuses == backend = "appserver" /\ Executed("failed")

-------------------------------------------------------------------------------
(* Teardown, under a context of its own. *)

\* Mutant: a run that failed is not torn down by force, nor at all.
BeginTeardown_LeavesFailed ==
    /\ at = "teardown"
    /\ IF force THEN ReturnRun(error) /\ UNCHANGED agent
       ELSE at' = "stopping" /\ UNCHANGED <<agent, result>>
    /\ UNCHANGED <<backend, reaped, said, read, ended, force, error>>

\* By force the process is killed at once; claude's is then not waited for.
BeginTeardown ==
    /\ at = "teardown"
    /\ IF ~force THEN at' = "stopping" /\ UNCHANGED <<agent, result>>
       ELSE /\ agent' = IF Alive THEN "killed" ELSE agent
            /\ IF backend = "stdin" THEN ReturnRun(error) ELSE at' = "reaping" /\ UNCHANGED result
    /\ UNCHANGED <<backend, reaped, said, read, ended, force, error>>

\* Mutant: the process is not killed when it does not stop.
StopTimesOut_Leaves ==
    /\ at = "stopping" /\ ~reaped
    /\ at' = "reaping"
    /\ UNCHANGED <<backend, agent, reaped, said, read, ended, force, error, result>>

\* The interrupt, or the shutdown request, was not heeded in time.
StopTimesOut ==
    /\ at = "stopping" /\ ~reaped
    /\ agent' = IF Alive THEN "killed" ELSE agent
    /\ IF backend = "stdin" THEN ReturnRun(error) ELSE at' = "reaping" /\ UNCHANGED result
    /\ UNCHANGED <<backend, reaped, said, read, ended, force, error>>

Stopped ==
    /\ at \in {"stopping", "reaping"} /\ reaped
    /\ ReturnRun(error)
    /\ UNCHANGED <<backend, agent, reaped, said, read, ended, force, error>>

AdapterStep ==
    \/ StartSession
    \/ ServeReady \/ StdinReady \/ AppServerReady
    \/ ServeExecute \/ ScanResult \/ StdinExecute \/ AppServerExecute
    \/ BeginTeardown \/ StopTimesOut \/ Stopped

SessionNext ==
    \/ \E word \in {"success", "failure"} : AgentSays(word)
    \/ AgentExits \/ ReapAgent
    \/ \E how \in {"deadline", "cancelled"} : EndContext(how)
    \/ KillByContext \/ AppServerRefuses
    \/ AdapterStep

-------------------------------------------------------------------------------
SessionTypeOK ==
    /\ agent \in {"none", "running", "exited", "killed"}
    /\ reaped \in BOOLEAN /\ force \in BOOLEAN
    /\ said \in {"nothing", "success", "failure"}
    /\ read \in {"nothing", "success", "failure", "no result"}
    /\ ended \in {"no", "deadline", "cancelled"}
    /\ at \in {"start", "ready", "execute", "teardown", "stopping", "reaping", "returned"}
    /\ error \in {"none", "failed", "deadline", "cancelled"}
    /\ result \in {"none", "completed", "blocked", "failed"}

\* A run that has returned leaves no agent behind, however it ended.
NoAgentLeft == at = "returned" => ~Alive

\* A run is completed only if the agent said so.
CompletedIsSaid == result = "completed" => said = "success"

\* A run ends once its context or its process does; `serve` waits for one of the two even
\* when the prompt was answered, the app server when its turn failed.
SessionDue  == ended # "no" \/ reaped
SessionOver == at = "returned"

\* TestStdinTaskSession_Execute_SuccessResult: "Execute returns nil on success result,
\* error on error result."
SuccessIsReturned ==
    [][backend = "stdin" /\ said = "success" /\ ended = "no" /\ at = "execute" /\ at' = "teardown"
           => error' = "none"]_sessionVars
===============================================================================
