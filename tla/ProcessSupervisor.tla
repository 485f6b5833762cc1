--------------------------- MODULE ProcessSupervisor ---------------------------
(* A command-line agent under supervision: started, waited for until it is ready,  *)
(* run, and shut down whatever happened (internal/codingagents: process_supervisor *)
(* and the adapter's runManaged).                                                  *)

VARIABLES
    child,       \* the agent's process group
    collected,   \* managedCommandProcess.Wait has returned
    probe,       \* readyCh: what WaitReady said
    runContext,  \* "open" or "done"
    supervisor,  \* where ProcessSupervisor.Run is
    runError,    \* runErr
    waitDone,    \* waitCh was read
    stopDone,    \* Stop has returned
    supervised   \* what Run returned: "ok" or "error"

supervisorVars ==
    <<child, collected, probe, runContext, supervisor, runError, waitDone, stopDone, supervised>>

Running == child = "running"

SupervisorInit ==
    /\ child = "running" /\ collected = FALSE
    /\ probe = "trying" /\ runContext = "open"
    /\ supervisor = "readiness" /\ runError = FALSE
    /\ waitDone = FALSE /\ stopDone = FALSE /\ supervised = "none"

-------------------------------------------------------------------------------
(* The child and the caller. *)

ChildExits(how) ==
    /\ Running
    /\ child' = how
    /\ UNCHANGED <<collected, probe, runContext, supervisor, runError, waitDone, stopDone, supervised>>

CollectChild ==
    /\ ~Running /\ ~collected
    /\ collected' = TRUE
    /\ UNCHANGED <<child, probe, runContext, supervisor, runError, waitDone, stopDone, supervised>>

EndRunContext ==
    /\ runContext = "open" /\ supervisor # "returned"
    /\ runContext' = "done"
    /\ UNCHANGED <<child, collected, probe, supervisor, runError, waitDone, stopDone, supervised>>

\* waitUntilReady asks the health endpoint again and again until the context is done;
\* without a health check the agent is ready at once.
ProbeEnds ==
    /\ supervisor = "readiness" /\ probe = "trying"
    /\ \/ Running /\ probe' = "ready"
       \/ runContext = "done" /\ probe' = "failed"
    /\ UNCHANGED <<child, collected, runContext, supervisor, runError, waitDone, stopDone, supervised>>

-------------------------------------------------------------------------------
(* Run. *)

\* The check, the process and the context: whichever is first.
AwaitReadiness ==
    /\ supervisor = "readiness"
    /\ \/ probe = "ready" /\ supervisor' = "run" /\ UNCHANGED <<runError, waitDone>>
       \/ collected /\ runError' = TRUE /\ waitDone' = TRUE /\ supervisor' = "shutdown"
       \/ /\ probe = "failed" \/ runContext = "done"
          /\ runError' = TRUE /\ supervisor' = "shutdown" /\ UNCHANGED waitDone
    /\ UNCHANGED <<child, collected, probe, runContext, stopDone, supervised>>

RunManaged ==
    /\ supervisor = "run"
    /\ \/ collected /\ runError' = (child # "exited")
       \/ runContext = "done" /\ runError' = TRUE
    /\ supervisor' = "shutdown"
    /\ UNCHANGED <<child, collected, probe, runContext, waitDone, stopDone, supervised>>

\* An interrupt to the process group, which may heed it.
SendStop ==
    /\ supervisor = "shutdown" /\ ~stopDone
    /\ stopDone' = TRUE
    /\ child' \in IF Running THEN {"running", "interrupted"} ELSE {child}
    /\ UNCHANGED <<collected, probe, runContext, supervisor, runError, waitDone, supervised>>

ReadWait ==
    /\ supervisor \in {"shutdown", "killed"} /\ collected /\ ~waitDone
    /\ waitDone' = TRUE
    /\ UNCHANGED <<child, collected, probe, runContext, supervisor, runError, stopDone, supervised>>

KillAfterGrace ==
    /\ supervisor = "shutdown" /\ ~(waitDone /\ stopDone)
    /\ supervisor' = "killed"
    /\ child' = IF Running THEN "killed" ELSE child
    /\ UNCHANGED <<collected, probe, runContext, runError, waitDone, stopDone, supervised>>

\* After a kill Stop is not waited for.
ReturnSupervised ==
    /\ waitDone
    /\ (supervisor = "shutdown" /\ stopDone) \/ supervisor = "killed"
    /\ supervisor' = "returned"
    /\ supervised' = IF runError \/ child # "exited" THEN "error" ELSE "ok"
    /\ UNCHANGED <<child, collected, probe, runContext, runError, waitDone, stopDone>>

SupervisorStep ==
    \/ ProbeEnds \/ AwaitReadiness \/ RunManaged \/ SendStop \/ ReadWait \/ KillAfterGrace
    \/ ReturnSupervised

SupervisorNext ==
    \/ \E how \in {"exited", "crashed"} : ChildExits(how)
    \/ CollectChild \/ EndRunContext
    \/ SupervisorStep

-------------------------------------------------------------------------------
\* When Run has returned the agent's process is gone and was collected.
NoChildLeft == supervisor = "returned" => collected

\* A supervised run succeeds only if the agent got ready and then ended well by itself.
OkIsCleanExit == supervised = "ok" => child = "exited" /\ probe = "ready"

\* A run ends once its context or its process does, however the agent takes the interrupt.
SupervisorDue  == runContext = "done" \/ collected
SupervisorOver == supervisor = "returned"
===============================================================================
