-------------------------------- MODULE MCAgents --------------------------------
(* What runs an agent, for TLC: an executor's pipeline and the file it comes from, *)
(* an OpenCode run, a session run, a supervised command, the watch over a Linear   *)
(* session's first thought, and the loop's watch over a run.  They share no state:  *)
(* `part` says which of them moves in a behaviour.                                 *)
EXTENDS ExecutorPipeline, OpenCodeRun, SessionRun, ProcessSupervisor, FirstThought, RunnerMonitor

-------------------------------------------------------------------------------
(* Values of the constants. *)

Go(next, condition) == [action |-> "next", next_stage |-> next, condition |-> condition]
End(action, condition) == [action |-> action, next_stage |-> "absent", condition |-> condition]
StageOf(attempts, delay, success, failure) ==
    [tools |-> 1, on_success |-> success, on_failure |-> failure,
     retry |-> [max_attempts |-> attempts, initial_delay |-> delay, backoff |-> delay, max_delay |-> 0]]
Usual ==
    [quality_gate |-> StageOf(1, 0, Go("execute", "true"), End("fail", "true")),
     execute      |-> StageOf(2, 0, Go("qc_gate", "true"), End("retry", "tests_failed")),
     qc_gate      |-> StageOf(2, 1, Go("complete", "quality_score >= threshold"), End("retry", "true")),
     complete     |-> StageOf(1, 0, End("complete", "true"), End("fail", "true"))]

\* Some lead back, some use an action the doc allows there, some are rejected.
Pipelines ==
    {Usual}
    \cup {[Usual EXCEPT !.qc_gate.on_success = t] :
             t \in {Go("execute", "review_failed"), End("complete", "quality_score>=threshold"),
                    End("retry", "true"), Go("bogus", "true")}}
    \cup {[Usual EXCEPT !.execute.on_failure = t] : t \in {Go("qc_gate", "true"), End("complete", "true")}}
    \cup {[Usual EXCEPT !.execute.retry.max_attempts = 0]}


-------------------------------------------------------------------------------
VARIABLE part

Parts == {"pipeline", "watcher", "opencode", "session", "supervisor", "thought", "monitor"}

agentVars ==
    <<part, watchVars, pipelineVars, openCodeVars, sessionVars, supervisorVars, thoughtVars, monitorVars>>

AgentInit ==
    /\ part \in Parts
    /\ WatchInit /\ PipelineInit /\ OpenCodeInit /\ SessionInit /\ SupervisorInit
    /\ ThoughtInit /\ MonitorInit
    /\ part # "pipeline" => config = Usual
    /\ part # "watcher" => file = "unreadable"
    /\ part # "session" => backend = CHOOSE b \in Backends : TRUE

OnlyPipeline ==
    /\ part = "pipeline"
    /\ UNCHANGED <<part, watchVars, openCodeVars, sessionVars, supervisorVars, thoughtVars, monitorVars>>
OnlyWatcher ==
    /\ part = "watcher"
    /\ UNCHANGED <<part, pipelineVars, openCodeVars, sessionVars, supervisorVars, thoughtVars, monitorVars>>
OnlyOpenCode ==
    /\ part = "opencode"
    /\ UNCHANGED <<part, watchVars, pipelineVars, sessionVars, supervisorVars, thoughtVars, monitorVars>>
OnlySession ==
    /\ part = "session"
    /\ UNCHANGED <<part, watchVars, pipelineVars, openCodeVars, supervisorVars, thoughtVars, monitorVars>>
OnlySupervisor ==
    /\ part = "supervisor"
    /\ UNCHANGED <<part, watchVars, pipelineVars, openCodeVars, sessionVars, thoughtVars, monitorVars>>
OnlyThought ==
    /\ part = "thought"
    /\ UNCHANGED <<part, watchVars, pipelineVars, openCodeVars, sessionVars, supervisorVars, monitorVars>>
OnlyMonitor ==
    /\ part = "monitor"
    /\ UNCHANGED <<part, watchVars, pipelineVars, openCodeVars, sessionVars, supervisorVars, thoughtVars>>

AgentNext ==
    \/ OnlyPipeline /\ PipelineNext
    \/ OnlyWatcher /\ WatchNext
    \/ OnlyOpenCode /\ OpenCodeNext
    \/ OnlySession /\ SessionNext
    \/ OnlySupervisor /\ SupervisorNext
    \/ OnlyThought /\ ThoughtNext
    \/ OnlyMonitor /\ MonitorNext

\* A goroutine that can go on does, a timer fires, and a process that has ended is collected.
\* A select that can see
\* a cancelled context again and again does.  Agents need not do anything, nor need a context end.
AgentFairness ==
    /\ WF_agentVars(OnlyPipeline /\ PipelineStep)
    /\ WF_agentVars(OnlyOpenCode /\ CollectExit /\ UNCHANGED clientVars)
    /\ WF_agentVars(OnlyOpenCode /\ MonitorStep /\ UNCHANGED clientVars)
    /\ WF_agentVars(OnlyOpenCode /\ LoopStep)
    /\ WF_agentVars(OnlySession /\ ReapAgent)
    /\ WF_agentVars(OnlySession /\ AdapterStep)
    /\ WF_agentVars(OnlySupervisor /\ CollectChild)
    /\ WF_agentVars(OnlySupervisor /\ SupervisorStep)
    /\ WF_agentVars(OnlyThought /\ WatchStep)
    /\ WF_agentVars(OnlyMonitor /\ PassHeartbeat)
    /\ WF_agentVars(OnlyMonitor /\ MonitorGoroutine)
    /\ SF_agentVars(OnlyMonitor /\ SeeDismissal)

AgentSpec == AgentInit /\ [][AgentNext]_agentVars /\ AgentFairness

-------------------------------------------------------------------------------
(* The same things of every part, whatever runs the agent. *)

\* Every part keeps its shape.
AgentTypeOK == PipelineTypeOK /\ OpenCodeTypeOK /\ SessionTypeOK

\* What is reported as done was done: the prompt ended, the agent said so, the process ended
\* well, the thought was accepted.
SuccessIsEarned == CompletedWasPrompted /\ CompletedIsSaid /\ OkIsCleanExit /\ ThoughtOrRecord

\* A silence a run is killed for, or somebody is warned of, was one, and is warned of once.
SilenceIsReal == SilentIsSilent /\ WarnedOncePerSilence

\* A run that has returned, however it ended, leaves no process behind.
NothingLeft == NoProcessLeft /\ NoAgentLeft /\ NoChildLeft

\* What must come to its end in each part, and that it has.
Due ==
    CASE part = "pipeline"   -> PipelineDue
      [] part = "opencode"   -> OpenCodeDue
      [] part = "session"    -> SessionDue
      [] part = "supervisor" -> SupervisorDue
      [] part = "thought"    -> ThoughtDue
      [] part = "monitor"    -> MonitorDue
      [] part = "watcher"    -> FALSE
Over ==
    CASE part = "pipeline"   -> PipelineOver
      [] part = "opencode"   -> OpenCodeOver
      [] part = "session"    -> SessionOver
      [] part = "supervisor" -> SupervisorOver
      [] part = "thought"    -> ThoughtOver
      [] part = "monitor"    -> MonitorOver
      [] part = "watcher"    -> TRUE

\* A run ends once its context, its process or its answer does, and so does what watches it; an
\* agent that stays silent is warned of.  (The part does not change, so one leads-to speaks of all.)
RunsComeToAnEnd == Due ~> Over
===============================================================================
