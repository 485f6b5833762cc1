----------------------------- MODULE Agents_proofs -----------------------------
(* Theorems of what runs an agent.  Each part has an inductive invariant over its  *)
(* own steps; AgentInv joins them, since no part touches the state of another.     *)
EXTENDS MCAgents, TLAPS

-------------------------------------------------------------------------------
(* The watcher of the configuration's file.                                        *)

\* What was seen last is what the callback was told, unless reading failed since.
WatchInv ==
    /\ file \in GoodFiles \cup BadFiles \cup {"unreadable"}
    /\ checksum = "none" \/ checksum \in GoodFiles \cup BadFiles
    /\ checksum # "none" /\ reported # "unreadable" => told = Meaning(checksum)

LEMMA WatchStarts == WatchInit => WatchInv
BY DEF WatchInit, WatchInv

LEMMA WatchGoesOn == WatchInv /\ [WatchNext]_watchVars => WatchInv'
<1> SUFFICES ASSUME WatchInv, [WatchNext]_watchVars PROVE WatchInv'
  OBVIOUS
<1>1. CASE ChangeFile
  BY <1>1 DEF ChangeFile, WatchInv, Meaning
<1>2. CASE LoadAndEmit
  <2>1. CASE file = "unreadable"
    BY <1>2, <2>1 DEF LoadAndEmit, WatchInv
  <2>2. CASE file # "unreadable"
    BY <1>2, <2>2, FilesAssumption DEF LoadAndEmit, WatchInv, Meaning, FilesAssumption
  <2> QED BY <2>1, <2>2
<1>3. CASE UNCHANGED watchVars
  BY <1>3 DEF watchVars, WatchInv, Meaning
<1> QED BY <1>1, <1>2, <1>3 DEF WatchNext

LEMMA WatchSays == WatchInv => WatcherIsCurrent
BY FilesAssumption DEF WatchInv, WatcherIsCurrent, Quiet, Meaning, FilesAssumption

-------------------------------------------------------------------------------
(* The pipeline.                                                                   *)

\* The configuration is one that the loader has accepted.
ConfigInv == AcceptedConfig(config) /\ config \in Configs

\* The stage under way was come to, and every stage come to was run that often at least; a
\* stage never come to was not run.
EntryInv ==
    /\ \A s \in Stage : entries[s] <= runs[s] /\ (entries[s] = 0 => runs[s] = 0)
    /\ progress \in {"running", "waiting", "again"} => entries[stage] > 0

\* A stage is run again by itself only while its budget lasts.
BudgetInv ==
    /\ AttemptsWithinBudget
    /\ progress \in {"waiting", "again"} => runs[stage] < config[stage].retry.max_attempts

\* What failed since the stage was entered is counted: all its runs, if it was entered once, but
\* the one under way.
FailureInv ==
    /\ progress = "running" => failures < runs[stage]
    /\ progress = "running" /\ entries[stage] = 1 => failures = runs[stage] - 1
    /\ progress \in {"waiting", "again"} =>
          failures > 0 /\ (entries[stage] = 1 => failures = runs[stage])
    /\ verdict # "none" => progress = "done"
    /\ FailureIsComplete

PipelineInv == PipelineTypeOK /\ ConfigInv /\ EntryInv /\ BudgetInv /\ FailureInv

\* What the loader's acceptance says of a stage.
LEMMA AcceptedIsSound ==
  ASSUME ConfigInv, NEW s \in Stage
  PROVE  /\ config[s].retry.max_attempts \in Int /\ config[s].retry.max_attempts >= 1
         /\ config[s].on_success.action = "next" => config[s].on_success.next_stage \in Stage
<1>1. DOMAIN config = Stage /\ AcceptedStage(config[s])
  BY DEF ConfigInv, AcceptedConfig
<1>2. config[s].retry.max_attempts \in Int
  BY <1>1, PipelineAssumption DEF ConfigInv, PipelineAssumption
<1> QED BY <1>1, <1>2 DEF AcceptedStage, AcceptedRetry, AcceptedTransition

LEMMA PipelineStarts == PipelineInit => PipelineInv
<1> SUFFICES ASSUME PipelineInit PROVE PipelineInv
  OBVIOUS
<1>1. PipelineTypeOK
  <2>1. 0 \in 0 .. MaxRuns
    BY PipelineAssumption DEF PipelineAssumption
  <2>2. runs \in [Stage -> 0 .. MaxRuns] /\ entries \in [Stage -> 0 .. MaxRuns]
    BY <2>1 DEF PipelineInit
  <2>3. stage \in Stage
    BY DEF PipelineInit, Stage
  <2>4. cancelled \in BOOLEAN
    BY DEF PipelineInit
  <2> QED BY <2>1, <2>2, <2>3, <2>4 DEF PipelineInit, PipelineTypeOK
<1>2. ConfigInv
  BY DEF PipelineInit, ConfigInv
<1>3. \A s \in Stage : runs[s] = 0 /\ entries[s] = 0
  BY DEF PipelineInit
<1>4. EntryInv /\ BudgetInv
  BY <1>3 DEF PipelineInit, EntryInv, BudgetInv, AttemptsWithinBudget
<1>5. FailureInv
  BY DEF PipelineInit, FailureInv, FailureIsComplete
<1> QED BY <1>1, <1>2, <1>4, <1>5 DEF PipelineInv

LEMMA StartAttemptKeeps == PipelineInv /\ StartAttempt => PipelineInv'
<1> SUFFICES ASSUME PipelineInv, StartAttempt PROVE PipelineInv'
  OBVIOUS
<1>1. /\ progress \in {"enter", "again"} /\ stage \in Stage /\ MaxRuns \in Nat
      /\ runs \in [Stage -> 0 .. MaxRuns] /\ entries \in [Stage -> 0 .. MaxRuns]
      /\ failures \in 0 .. (IF progress = "enter" THEN MaxRuns ELSE runs[stage])
  BY PipelineAssumption DEF PipelineInv, PipelineTypeOK, StartAttempt, PipelineAssumption
<1>2. /\ runs[stage] < MaxRuns /\ runs' = [runs EXCEPT ![stage] = @ + 1]
      /\ entries' = [entries EXCEPT ![stage] = IF progress = "enter" THEN @ + 1 ELSE @]
      /\ failures' = IF progress = "enter" THEN 0 ELSE failures
      /\ config' = config /\ stage' = stage
  BY DEF StartAttempt
<1>3. \/ progress' = "done" /\ verdict' = "cancelled"
      \/ progress' = "running" /\ verdict' = verdict
  BY DEF StartAttempt, Return, Stay
<1>4. /\ \A s \in Stage : entries[s] <= runs[s] /\ (entries[s] = 0 => runs[s] = 0)
      /\ progress = "again" => entries[stage] > 0
  BY DEF PipelineInv, EntryInv
<1>5. /\ runs'[stage] = runs[stage] + 1
      /\ entries'[stage] = IF progress = "enter" THEN entries[stage] + 1 ELSE entries[stage]
      /\ \A s \in Stage \ {stage} : runs'[s] = runs[s] /\ entries'[s] = entries[s]
  BY <1>1, <1>2
<1>6. PipelineTypeOK'
  <2>1. runs' \in [Stage -> 0 .. MaxRuns]
    BY <1>1, <1>2
  <2>2. entries' \in [Stage -> 0 .. MaxRuns]
    <3>1. entries[stage] <= runs[stage] /\ runs[stage] \in Nat /\ entries[stage] \in Nat
      BY <1>1, <1>4
    <3> QED BY <1>1, <1>2, <3>1
  <2>3. failures' \in 0 .. runs'[stage]
    BY <1>1, <1>2, <1>5
  <2>4. progress' # "enter" /\ progress' \in {"running", "done"}
    BY <1>3
  <2>5. cancelled' \in BOOLEAN
    BY DEF PipelineInv, PipelineTypeOK, StartAttempt
  <2>6. verdict' \in {"none", "completed", "failed", "cancelled", "condition is false",
                      "bad condition", "bad action"}
    BY <1>3 DEF PipelineInv, PipelineTypeOK
  <2> QED BY <1>1, <1>2, <2>1, <2>2, <2>3, <2>4, <2>5, <2>6 DEF PipelineTypeOK
<1>7. ConfigInv'
  BY <1>2 DEF PipelineInv, ConfigInv, AcceptedConfig
<1>8. EntryInv'
  <2>1. \A s \in Stage : runs[s] \in Nat /\ entries[s] \in Nat
    BY <1>1
  <2>2. entries'[stage] > 0 /\ entries'[stage] <= runs'[stage]
    BY <1>1, <1>4, <1>5, <2>1
  <2>3. \A s \in Stage : entries'[s] <= runs'[s] /\ (entries'[s] = 0 => runs'[s] = 0)
    BY <1>4, <1>5, <2>1, <2>2
  <2> QED BY <1>2, <2>2, <2>3 DEF EntryInv
<1>9. BudgetInv'
  <2>1. ASSUME NEW s \in Stage, entries'[s] > 0
        PROVE  runs'[s] <= config[s].retry.max_attempts + entries'[s] - 1
    <3>1. /\ runs[s] \in Nat /\ entries[s] \in Nat /\ config[s].retry.max_attempts \in Int
          /\ config[s].retry.max_attempts >= 1
      BY <1>1, AcceptedIsSound DEF PipelineInv
    <3>2. entries[s] > 0 => runs[s] <= config[s].retry.max_attempts + entries[s] - 1
      BY DEF PipelineInv, BudgetInv, AttemptsWithinBudget
    <3>3. CASE s # stage
      BY <1>5, <2>1, <3>2, <3>3
    <3>4. CASE s = stage /\ progress = "enter"
      BY <1>4, <1>5, <3>1, <3>2, <3>4
    <3>5. CASE s = stage /\ progress = "again"
      <4>1. runs[s] < config[s].retry.max_attempts
        BY <3>5 DEF PipelineInv, BudgetInv
      <4> QED BY <1>4, <1>5, <3>1, <3>5, <4>1
    <3> QED BY <1>1, <3>3, <3>4, <3>5
  <2> QED BY <1>2, <1>3, <2>1 DEF BudgetInv, AttemptsWithinBudget
<1>10. FailureInv'
  <2>1. runs[stage] \in Nat /\ entries[stage] \in Nat /\ failures \in Nat
    BY <1>1
  <2>2. failures' < runs'[stage]
    BY <1>1, <1>2, <1>5, <2>1
  <2>3. entries'[stage] = 1 => failures' = runs'[stage] - 1
    <3>1. CASE progress = "enter"
      BY <1>1, <1>2, <1>4, <1>5, <2>1, <3>1
    <3>2. CASE progress = "again"
      <4>1. entries[stage] = 1 => failures = runs[stage]
        BY <3>2 DEF PipelineInv, FailureInv
      <4> QED BY <1>2, <1>5, <2>1, <3>2, <4>1
    <3> QED BY <1>1, <3>1, <3>2
  <2>4. verdict = "none"
    BY <1>1 DEF PipelineInv, FailureInv
  <2> QED BY <1>2, <1>3, <2>2, <2>3, <2>4 DEF FailureInv, FailureIsComplete
<1> QED BY <1>6, <1>7, <1>8, <1>9, <1>10 DEF PipelineInv

LEMMA StageCompletesKeeps == PipelineInv /\ StageCompletes => PipelineInv'
<1> SUFFICES ASSUME PipelineInv, StageCompletes PROVE PipelineInv'
  OBVIOUS
<1>1. /\ progress = "running" /\ stage \in Stage /\ MaxRuns \in Nat
      /\ runs \in [Stage -> 0 .. MaxRuns] /\ entries \in [Stage -> 0 .. MaxRuns]
      /\ failures \in 0 .. runs[stage]
  BY PipelineAssumption DEF PipelineInv, PipelineTypeOK, StageCompletes, PipelineAssumption
<1>2. /\ config' = config /\ runs' = runs /\ entries' = entries /\ failures' = failures
      /\ cancelled' = cancelled
  BY DEF StageCompletes
<1>3. \/ /\ progress' = "done" /\ stage' = stage
         /\ verdict' \in {"bad condition", "condition is false", "completed", "bad action"}
      \/ /\ progress' = "enter" /\ verdict' = verdict
         /\ config[stage].on_success.action = "next"
         /\ stage' = config[stage].on_success.next_stage
  BY DEF StageCompletes, Return, Stay
<1>4. stage' \in Stage
  BY <1>1, <1>3, AcceptedIsSound DEF PipelineInv
<1>5. failures' \in 0 .. (IF progress' = "enter" THEN MaxRuns ELSE runs'[stage'])
  <2>1. runs[stage] \in 0 .. MaxRuns
    BY <1>1
  <2>2. failures' \in 0 .. MaxRuns /\ failures' \in 0 .. runs'[stage]
    BY <1>1, <1>2, <2>1
  <2> QED BY <1>3, <2>2
<1>6. PipelineTypeOK'
  BY <1>2, <1>3, <1>4, <1>5 DEF PipelineInv, PipelineTypeOK
<1>7. ConfigInv'
  BY <1>2 DEF PipelineInv, ConfigInv, AcceptedConfig
<1>8. EntryInv'
  BY <1>2, <1>3 DEF PipelineInv, EntryInv
<1>9. BudgetInv'
  BY <1>2, <1>3 DEF PipelineInv, BudgetInv, AttemptsWithinBudget
<1>10. FailureInv'
  BY <1>1, <1>3 DEF PipelineInv, FailureInv, FailureIsComplete
<1> QED BY <1>6, <1>7, <1>8, <1>9, <1>10 DEF PipelineInv

LEMMA StageFailsKeeps == PipelineInv /\ StageFails => PipelineInv'
<1> SUFFICES ASSUME PipelineInv, StageFails PROVE PipelineInv'
  OBVIOUS
<1>1. /\ progress = "running" /\ stage \in Stage /\ MaxRuns \in Nat
      /\ runs \in [Stage -> 0 .. MaxRuns] /\ entries \in [Stage -> 0 .. MaxRuns]
      /\ failures \in 0 .. runs[stage]
  BY PipelineAssumption DEF PipelineInv, PipelineTypeOK, StageFails, PipelineAssumption
<1>2. /\ config' = config /\ stage' = stage /\ runs' = runs /\ entries' = entries
      /\ cancelled' = cancelled /\ failures' = failures + 1
  BY DEF StageFails
<1>3. \/ /\ progress' = "done"
         /\ verdict' \in {"bad condition", "condition is false", "failed", "bad action"}
      \/ /\ progress' = "waiting" /\ verdict' = verdict
         /\ ~(runs[stage] >= config[stage].retry.max_attempts)
  BY DEF StageFails, Return, Stay
<1>4. /\ failures < runs[stage] /\ verdict = "none"
      /\ entries[stage] = 1 => failures = runs[stage] - 1
  BY <1>1 DEF PipelineInv, FailureInv
<1>5. runs[stage] \in Nat /\ failures \in Nat
  BY <1>1
<1>6. failures' > 0 /\ failures' \in 0 .. runs[stage] /\ (entries[stage] = 1 => failures' = runs[stage])
  BY <1>2, <1>4, <1>5
<1>7. PipelineTypeOK'
  BY <1>2, <1>3, <1>6 DEF PipelineInv, PipelineTypeOK
<1>8. ConfigInv'
  BY <1>2 DEF PipelineInv, ConfigInv, AcceptedConfig
<1>9. EntryInv'
  BY <1>1, <1>2, <1>3 DEF PipelineInv, EntryInv
<1>10. BudgetInv'
  <2>1. config[stage].retry.max_attempts \in Int
    BY <1>1, AcceptedIsSound DEF PipelineInv
  <2>2. progress' = "waiting" => runs[stage] < config[stage].retry.max_attempts
    BY <1>3, <1>5, <2>1
  <2> QED BY <1>2, <1>3, <2>2 DEF PipelineInv, BudgetInv, AttemptsWithinBudget
<1>11. FailureInv'
  BY <1>2, <1>3, <1>4, <1>6 DEF FailureInv, FailureIsComplete
<1> QED BY <1>7, <1>8, <1>9, <1>10, <1>11 DEF PipelineInv

LEMMA AwaitRetryKeeps == PipelineInv /\ AwaitRetry => PipelineInv'
<1> SUFFICES ASSUME PipelineInv, AwaitRetry PROVE PipelineInv'
  OBVIOUS
<1>1. /\ progress = "waiting" /\ config' = config /\ stage' = stage /\ runs' = runs
      /\ entries' = entries /\ failures' = failures /\ cancelled' = cancelled
  BY DEF AwaitRetry
<1>2. \/ progress' = "done" /\ verdict' = "cancelled"
      \/ progress' = "again" /\ verdict' = verdict
  BY DEF AwaitRetry, Return, Stay
<1>3. PipelineTypeOK'
  BY <1>1, <1>2 DEF PipelineInv, PipelineTypeOK
<1>4. ConfigInv'
  BY <1>1 DEF PipelineInv, ConfigInv, AcceptedConfig
<1>5. EntryInv' /\ BudgetInv'
  BY <1>1, <1>2 DEF PipelineInv, EntryInv, BudgetInv, AttemptsWithinBudget
<1>6. FailureInv'
  BY <1>1, <1>2 DEF PipelineInv, FailureInv, FailureIsComplete
<1> QED BY <1>3, <1>4, <1>5, <1>6 DEF PipelineInv

LEMMA PipelineGoesOn == PipelineInv /\ [PipelineNext]_pipelineVars => PipelineInv'
<1> SUFFICES ASSUME PipelineInv, CancelRequest \/ UNCHANGED pipelineVars PROVE PipelineInv'
  BY StartAttemptKeeps, StageCompletesKeeps, StageFailsKeeps, AwaitRetryKeeps
     DEF PipelineNext, PipelineStep
<1>1. /\ config' = config /\ stage' = stage /\ progress' = progress /\ runs' = runs
      /\ entries' = entries /\ failures' = failures /\ verdict' = verdict
      /\ cancelled' \in BOOLEAN
  BY DEF CancelRequest, pipelineVars, PipelineInv, PipelineTypeOK
<1>2. PipelineTypeOK'
  BY <1>1 DEF PipelineInv, PipelineTypeOK
<1>3. ConfigInv'
  BY <1>1 DEF PipelineInv, ConfigInv, AcceptedConfig
<1>4. EntryInv' /\ BudgetInv' /\ FailureInv'
  BY <1>1 DEF PipelineInv, EntryInv, BudgetInv, AttemptsWithinBudget, FailureInv, FailureIsComplete
<1> QED BY <1>2, <1>3, <1>4 DEF PipelineInv

-------------------------------------------------------------------------------
(* The OpenCode run and its watchdog.                                              *)

\* A process that was collected, or that the watchdog is done with, has ended.
ExitInv ==
    /\ Collected => Ended
    /\ WatchDone => Ended
    /\ loop \in {"acp grace", "exit grace", "check", "returned"} => WatchDone

\* The watchdog's clock is behind only while the log has grown since it looked.
ClockInv ==
    /\ ~grown => age <= silence
    /\ watch \in {"grace", "kill silent"} /\ ~Ended => silence > Timeout \/ grown

\* Whatever looks like the end of a session comes after the end of a prompt.
PromptInv ==
    /\ acp \in {"verify", "ok", "unverified"} => prompted
    /\ idle \/ watch = "kill idle" \/ stall = "idle" \/ loop = "acp grace" => prompted
    /\ loop \in {"process grace", "reap", "check", "returned"} /\ runErr = "none" => prompted
    /\ outcome = "completed" => prompted

OpenCodeInv == OpenCodeTypeOK /\ ExitInv /\ ClockInv /\ PromptInv

\* The type invariant by kinds of variables.
Processes ==
    /\ proc \in {"running", "exited", "crashed", "killed"}
    /\ waitErr \in {"none", "ok", "error"}
    /\ silence \in 0 .. Timeout + 1 /\ age \in 0 .. Timeout + 1
    /\ watch \in {"select", "grace", "kill idle", "kill silent", "returned"}
    /\ stall \in {"none", "ok", "error", "idle", "silent", "kill failed"}
Places ==
    /\ acp \in {"task", "verify"} \cup AcpResults /\ attempt \in 1 .. 2
    /\ loop \in {"select", "reap", "process grace", "acp grace", "exit grace", "check", "returned"}
    /\ outcome \in {"none", "completed", "failed"}
LogFlags == grown \in BOOLEAN /\ idle \in BOOLEAN
RunFlags ==
    /\ prompted \in BOOLEAN /\ abandoned \in BOOLEAN /\ serena \in BOOLEAN
    /\ acpStopped \in BOOLEAN /\ forced \in BOOLEAN

LEMMA TypesByKind == OpenCodeTypeOK <=> Processes /\ Places /\ LogFlags /\ RunFlags
BY DEF OpenCodeTypeOK, Processes, Places, LogFlags, RunFlags

LEMMA KindsMakeTypes ==
  ASSUME Processes', Places', LogFlags', RunFlags'
  PROVE  OpenCodeTypeOK'
BY DEF OpenCodeTypeOK, Processes, Places, LogFlags, RunFlags

LEMMA RestOfRun ==
  ASSUME OpenCodeTypeOK, UNCHANGED clientVars
  PROVE  Places' /\ RunFlags'
<1>1. Places'
  BY TypesByKind DEF Places, clientVars, acpVars
<1>2. RunFlags'
  BY TypesByKind, Zenon DEF RunFlags, clientVars, acpVars, callerVars
<1> QED BY <1>1, <1>2

LEMMA OpenCodeStarts == OpenCodeInit => OpenCodeInv
<1> SUFFICES ASSUME OpenCodeInit PROVE OpenCodeInv
  OBVIOUS
<1> USE DEF OpenCodeInit, WatchdogInit
<1>1. 0 \in 0 .. Timeout + 1
  BY TimeoutAssumption DEF TimeoutAssumption
<1>2. grown \in BOOLEAN /\ idle \in BOOLEAN /\ prompted \in BOOLEAN /\ abandoned \in BOOLEAN
      /\ serena \in BOOLEAN /\ acpStopped \in BOOLEAN /\ forced \in BOOLEAN
  OBVIOUS
<1>3. OpenCodeTypeOK
  BY <1>1, <1>2 DEF OpenCodeTypeOK
<1>4. ExitInv /\ ClockInv /\ PromptInv
  BY DEF ExitInv, ClockInv, PromptInv, Collected, WatchDone, Ended
<1> QED BY <1>3, <1>4 DEF OpenCodeInv

\* What the process, its logs and the clock do.
LEMMA ProcessKeeps ==
  ASSUME OpenCodeInv, AgentStep, UNCHANGED clientVars
  PROVE  OpenCodeInv'
<1>1. /\ silence \in 0 .. Timeout + 1 /\ age \in 0 .. Timeout + 1 /\ Timeout \in Nat
      /\ Longer(silence) \in 0 .. Timeout + 1 /\ Longer(age) \in 0 .. Timeout + 1
      /\ Longer(silence) >= silence /\ (age <= silence => Longer(age) <= Longer(silence))
  <2>1. silence \in 0 .. Timeout + 1 /\ age \in 0 .. Timeout + 1 /\ Timeout \in Nat
    BY TimeoutAssumption DEF OpenCodeInv, OpenCodeTypeOK, TimeoutAssumption
  <2> QED BY <2>1 DEF Longer
<1>2. /\ watch' = watch /\ stall' = stall /\ acp' = acp /\ attempt' = attempt
      /\ prompted' = prompted /\ abandoned' = abandoned /\ serena' = serena
      /\ acpStopped' = acpStopped /\ loop' = loop /\ runErr' = runErr /\ forced' = forced
      /\ outcome' = outcome
  BY DEF AgentStep, PassInterval, WriteLog, LogPrompt, CollectExit, EndProcess, clientVars, acpVars,
         callerVars
<1>3. /\ proc' \in {proc, "exited", "crashed"} /\ (Ended => proc' = proc)
      /\ waitErr' \in {waitErr, "ok", "error"} /\ (~Ended => waitErr' = waitErr)
      /\ idle' = idle \/ idle' = FALSE
      /\ \/ silence' = silence /\ grown' = grown /\ age' = age
         \/ silence' = Longer(silence) /\ grown' = grown /\ age' = Longer(age)
         \/ silence' = 0 /\ grown' = TRUE /\ age' = age
  BY DEF AgentStep, PassInterval, WriteLog, LogPrompt, CollectExit, EndProcess, Ended
<1>4. silence' \in 0 .. Timeout + 1 /\ age' \in 0 .. Timeout + 1
  BY <1>1, <1>3
<1>5. OpenCodeTypeOK'
  <2>1. Processes'
    BY <1>2, <1>3, <1>4, TypesByKind DEF OpenCodeInv, Processes
  <2>2. grown' = grown \/ grown' = TRUE
    BY <1>3
  <2>3. LogFlags'
    BY <1>3, <2>2, TypesByKind, Zenon DEF OpenCodeInv, LogFlags
  <2> QED BY <2>1, <2>3, RestOfRun, KindsMakeTypes DEF OpenCodeInv
<1>6. ExitInv'
  BY <1>2, <1>3 DEF OpenCodeInv, ExitInv, Collected, WatchDone, Ended
<1>7. ClockInv'
  <2>1. ~grown' => age' <= silence'
    <3>1. ~grown => age <= silence
      BY DEF OpenCodeInv, ClockInv
    <3> QED BY <1>1, <1>3, <3>1
  <2>2. ASSUME watch' \in {"grace", "kill silent"}, ~Ended' PROVE silence' > Timeout \/ grown'
    <3>1. silence > Timeout \/ grown
      BY <1>2, <1>3, <2>2 DEF OpenCodeInv, ClockInv, Ended
    <3> QED BY <1>1, <1>3, <3>1
  <2> QED BY <2>1, <2>2 DEF ClockInv
<1>8. PromptInv'
  <2>1. idle' => idle
    BY <1>3
  <2> QED BY <1>2, <2>1 DEF OpenCodeInv, PromptInv
<1> QED BY <1>5, <1>6, <1>7, <1>8 DEF OpenCodeInv

\* What the watchdog does.
LEMMA WatchdogKeeps ==
  ASSUME OpenCodeInv, MonitorStep, UNCHANGED clientVars
  PROVE  OpenCodeInv'
<1>1. /\ acp' = acp /\ attempt' = attempt /\ prompted' = prompted /\ abandoned' = abandoned
      /\ serena' = serena /\ acpStopped' = acpStopped /\ loop' = loop /\ runErr' = runErr
      /\ forced' = forced /\ outcome' = outcome /\ silence' = silence /\ idle' = idle
      /\ waitErr' = waitErr
  BY DEF MonitorStep, ReturnExit, Look, GraceEnds, KillStalled, clientVars, acpVars, callerVars
<1>2. /\ silence \in 0 .. Timeout + 1 /\ age \in 0 .. Timeout + 1 /\ Timeout \in Nat
      /\ ~grown => age <= silence
  BY TimeoutAssumption DEF OpenCodeInv, OpenCodeTypeOK, ClockInv, TimeoutAssumption
<1>3. proc' \in {proc, "killed"} /\ (Ended => proc' = proc)
  BY DEF MonitorStep, ReturnExit, Look, GraceEnds, KillStalled, Killed, Ended
<1>4. ExitInv'
  <2>1. Ended => Ended'
    BY <1>3 DEF Ended
  <2>2. Collected' = Collected
    BY <1>1 DEF Collected
  <2>3. WatchDone => WatchDone'
    BY DEF MonitorStep, ReturnExit, Look, GraceEnds, KillStalled, WatchDone
  <2>4. WatchDone' => Ended'
    <3>1. CASE ReturnExit
      BY <2>1, <3>1 DEF ReturnExit, OpenCodeInv, ExitInv
    <3>2. CASE Look \/ GraceEnds
      BY <3>2 DEF Look, GraceEnds, WatchDone
    <3>3. CASE KillStalled /\ Collected
      BY <2>1, <3>3 DEF OpenCodeInv, ExitInv
    <3>4. CASE KillStalled /\ ~Collected
      BY <3>4 DEF KillStalled, Killed, Ended
    <3> QED BY <3>1, <3>2, <3>3, <3>4 DEF MonitorStep
  <2> QED BY <1>1, <2>1, <2>2, <2>3, <2>4 DEF OpenCodeInv, ExitInv
<1>5. CASE ReturnExit \/ KillStalled
  <2>1. /\ watch' = "returned" /\ grown' = grown /\ age' = age
        /\ stall' \in {waitErr, "kill failed", "idle", "silent"}
        /\ stall' = "none" => ~Collected
        /\ stall' = "idle" => watch = "kill idle" \/ stall' = waitErr
    BY <1>5 DEF ReturnExit, KillStalled, Collected
  <2>2. OpenCodeTypeOK'
    <3>1. Processes'
      BY <1>1, <1>3, <2>1, TypesByKind DEF OpenCodeInv, Processes
    <3>2. LogFlags'
      BY <1>1, <2>1, TypesByKind, Zenon DEF OpenCodeInv, LogFlags
    <3> QED BY <3>1, <3>2, RestOfRun, KindsMakeTypes DEF OpenCodeInv
  <2>3. ClockInv'
    BY <1>1, <2>1 DEF OpenCodeInv, ClockInv
  <2>4. PromptInv'
    <3>1. waitErr # "idle"
      BY DEF OpenCodeInv, OpenCodeTypeOK
    <3> QED BY <1>1, <2>1, <3>1 DEF OpenCodeInv, PromptInv
  <2> QED BY <1>4, <2>2, <2>3, <2>4 DEF OpenCodeInv
<1>6. CASE Look
  <2>1. /\ proc' = proc /\ grown' = FALSE /\ age' = (IF grown THEN silence ELSE age) /\ stall' = stall
        /\ watch' = IF idle THEN "kill idle" ELSE IF age' > Timeout THEN "grace" ELSE "select"
    BY <1>6 DEF Look
  <2>2. age' \in 0 .. Timeout + 1 /\ age' <= silence
    <3>1. CASE grown
      <4>1. age' = silence
        BY <2>1, <3>1
      <4> QED BY <1>2, <4>1
    <3>2. CASE ~grown
      BY <1>2, <2>1, <3>2
    <3> QED BY <3>1, <3>2
  <2>3. OpenCodeTypeOK'
    <3>1. watch' \in {"select", "grace", "kill idle"}
      BY <2>1
    <3>2. Processes'
      BY <1>1, <2>1, <2>2, <3>1, TypesByKind DEF OpenCodeInv, Processes
    <3>3. LogFlags'
      BY <1>1, <2>1, TypesByKind, Zenon DEF OpenCodeInv, LogFlags
    <3> QED BY <3>2, <3>3, RestOfRun, KindsMakeTypes DEF OpenCodeInv
  <2>4. ClockInv'
    <3>1. watch' \in {"grace", "kill silent"} => age' > Timeout
      BY <2>1
    <3>2. age' > Timeout => silence > Timeout
      BY <1>2, <2>2
    <3> QED BY <1>1, <2>2, <3>1, <3>2 DEF ClockInv
  <2>5. PromptInv'
    <3>1. watch' = "kill idle" => idle
      BY <2>1
    <3> QED BY <1>1, <2>1, <3>1 DEF OpenCodeInv, PromptInv
  <2> QED BY <1>4, <2>3, <2>4, <2>5 DEF OpenCodeInv
<1>7. CASE GraceEnds
  <2>1. /\ watch = "grace" /\ watch' = "kill silent" /\ proc' = proc /\ grown' = grown /\ age' = age
        /\ stall' = stall
    BY <1>7 DEF GraceEnds
  <2>2. OpenCodeTypeOK'
    <3>1. Processes'
      BY <1>1, <2>1, TypesByKind DEF OpenCodeInv, Processes
    <3>2. LogFlags'
      BY <1>1, <2>1, TypesByKind, Zenon DEF OpenCodeInv, LogFlags
    <3> QED BY <3>1, <3>2, RestOfRun, KindsMakeTypes DEF OpenCodeInv
  <2>3. ClockInv'
    BY <1>1, <2>1 DEF OpenCodeInv, ClockInv, Ended
  <2>4. PromptInv'
    BY <1>1, <2>1 DEF OpenCodeInv, PromptInv
  <2> QED BY <1>4, <2>2, <2>3, <2>4 DEF OpenCodeInv
<1> QED BY <1>5, <1>6, <1>7 DEF MonitorStep

\* What the client, the caller and a failing server do to neither the process nor the watchdog.
LEMMA ClientKeeps ==
  ASSUME OpenCodeInv, AcpStep \/ CancelRun \/ SerenaFails
  PROVE  OpenCodeInv'
<1>1. /\ proc' = proc /\ waitErr' = waitErr /\ age' = age /\ watch' = watch /\ stall' = stall
      /\ loop' = loop /\ runErr' = runErr /\ outcome' = outcome /\ acpStopped' = acpStopped
      /\ forced' = forced
  BY DEF AcpStep, TaskPromptEnds, Verified, AcpStops, CancelRun, SerenaFails, watchdogVars, acpVars
<1>2. \/ silence' = silence /\ grown' = grown /\ idle' = idle
      \/ silence' = 0 /\ grown' = TRUE /\ idle' = TRUE /\ prompted' = TRUE
  BY DEF AcpStep, TaskPromptEnds, Verified, AcpStops, CancelRun, SerenaFails, watchdogVars
<1>3. \/ acp' = acp /\ attempt' = attempt /\ prompted' = prompted
      \/ acp' = "verify" /\ attempt' = attempt /\ prompted' = TRUE
      \/ acp = "verify" /\ acp' \in {"ok", "unverified"} /\ attempt' = attempt /\ prompted' = prompted
      \/ acp' = "task" /\ attempt' = 2 /\ prompted' = prompted
      \/ acp' \in {"closed", "error"} /\ attempt' = attempt /\ prompted' = prompted
  BY DEF AcpStep, TaskPromptEnds, Verified, AcpStops, CancelRun, SerenaFails, acpVars, watchdogVars
<1>4. abandoned' \in {abandoned, TRUE} /\ serena' \in {serena, TRUE} /\ prompted' \in {prompted, TRUE}
  BY DEF AcpStep, TaskPromptEnds, Verified, AcpStops, CancelRun, SerenaFails, acpVars, callerVars
<1>5. 0 \in 0 .. Timeout + 1
  BY TimeoutAssumption DEF TimeoutAssumption
<1>6. OpenCodeTypeOK'
  <2>1. Processes'
    <3>1. silence' \in 0 .. Timeout + 1
      BY <1>2, <1>5, TypesByKind DEF OpenCodeInv, Processes
    <3> QED BY <1>1, <3>1, TypesByKind DEF OpenCodeInv, Processes
  <2>2. Places'
    <3>1. acp' = acp \/ acp' \in {"task", "verify"} \cup AcpResults
      BY <1>3 DEF AcpResults
    <3>2. attempt' = attempt \/ attempt' = 2
      BY <1>3
    <3>3. Places
      BY TypesByKind DEF OpenCodeInv
    <3>4. acp' \in {"task", "verify"} \cup AcpResults
      BY <3>1, <3>3 DEF Places
    <3>5. attempt' \in 1 .. 2
      <4>1. attempt \in 1 .. 2
        BY <3>3 DEF Places
      <4> QED BY <3>2, <4>1
    <3> QED BY <1>1, <3>3, <3>4, <3>5 DEF Places
  <2>3. LogFlags'
    BY <1>2, TypesByKind DEF OpenCodeInv, LogFlags
  <2>4. RunFlags'
    <3>1. abandoned' \in BOOLEAN /\ serena' \in BOOLEAN /\ prompted' \in BOOLEAN
      BY <1>4, TypesByKind DEF OpenCodeInv, RunFlags
    <3>2. acpStopped' \in BOOLEAN /\ forced' \in BOOLEAN
      BY <1>1, TypesByKind, Zenon DEF OpenCodeInv, RunFlags
    <3> QED BY <3>1, <3>2 DEF RunFlags
  <2> QED BY <2>1, <2>2, <2>3, <2>4, KindsMakeTypes
<1>7. ExitInv'
  BY <1>1 DEF OpenCodeInv, ExitInv, Collected, WatchDone, Ended
<1>8. ClockInv'
  BY <1>1, <1>2 DEF OpenCodeInv, ClockInv, Ended
<1>9. PromptInv'
  <2>1. prompted => prompted'
    BY <1>3
  <2>2. acp' \in {"verify", "ok", "unverified"} => prompted'
    BY <1>3 DEF OpenCodeInv, PromptInv
  <2>3. idle' => prompted'
    BY <1>2, <2>1 DEF OpenCodeInv, PromptInv
  <2> QED BY <1>1, <2>1, <2>2, <2>3 DEF OpenCodeInv, PromptInv
<1> QED BY <1>6, <1>7, <1>8, <1>9 DEF OpenCodeInv

\* What a step of the loop leaves alone, and that it only ever ends the process.
LEMMA LoopLeaves ==
  ASSUME AbortOnSerena \/ LoopStep
  PROVE  /\ proc' \in {proc, "killed"} /\ (Ended => proc' = proc)
         /\ waitErr' = waitErr /\ silence' = silence /\ grown' = grown /\ age' = age
         /\ idle' = idle /\ watch' = watch /\ stall' = stall
         /\ acp' = acp /\ attempt' = attempt /\ prompted' = prompted /\ abandoned' = abandoned
         /\ serena' = serena
BY DEF AbortOnSerena, LoopStep, AbortOnCancel, Reap, ReadAcp, ProcessEndsInGrace, ForceKill,
       ReadWatchdog, AcpEndsInGrace, AcpGraceEnds, CheckOutcome, Abort, KillProcess, Killed, Ended,
       acpVars, callerVars, watchdogVars

\* Where it goes, and why no error stands for a prompt that has ended.
LEMMA LoopMoves ==
  ASSUME OpenCodeInv, AbortOnSerena \/ LoopStep
  PROVE  /\ loop' \in {"reap", "process grace", "acp grace", "exit grace", "check", "returned"}
         /\ loop' \in {"acp grace", "exit grace", "check", "returned"} => WatchDone
         /\ loop' = "acp grace" => prompted
         /\ loop' \in {"process grace", "reap", "check", "returned"} /\ runErr' = "none" => prompted
         /\ outcome' = outcome \/ (outcome' \in {"completed", "failed"} /\ loop = "check" /\ runErr' = runErr)
         /\ outcome' = "completed" /\ outcome # "completed" => runErr = "none" /\ loop = "check"
<1>1. CASE AbortOnSerena \/ AbortOnCancel
  BY <1>1 DEF AbortOnSerena, AbortOnCancel, Abort
<1>2. CASE Reap
  BY <1>2 DEF Reap, OpenCodeInv, PromptInv
<1>3. CASE ReadAcp
  BY <1>3 DEF ReadAcp, AcpDone, AcpResults, OpenCodeInv, PromptInv
<1>4. CASE ProcessEndsInGrace
  BY <1>4 DEF ProcessEndsInGrace, OpenCodeInv, PromptInv
<1>5. CASE ForceKill
  BY <1>5 DEF ForceKill, OpenCodeInv, PromptInv
<1>6. CASE ReadWatchdog
  BY <1>6 DEF ReadWatchdog, SessionCompleted, OpenCodeInv, PromptInv
<1>7. CASE AcpEndsInGrace
  BY <1>7 DEF AcpEndsInGrace, AcpDone, AcpResults, OpenCodeInv, PromptInv, ExitInv
<1>8. CASE AcpGraceEnds
  BY <1>8 DEF AcpGraceEnds, OpenCodeInv, PromptInv, ExitInv
<1>9. CASE CheckOutcome
  BY <1>9 DEF CheckOutcome, OpenCodeInv, PromptInv, ExitInv
<1> QED BY <1>1, <1>2, <1>3, <1>4, <1>5, <1>6, <1>7, <1>8, <1>9 DEF LoopStep

LEMMA LoopKeeps ==
  ASSUME OpenCodeInv, AbortOnSerena \/ LoopStep
  PROVE  OpenCodeInv'
<1>1. OpenCodeTypeOK'
  <2>1. Processes'
    BY LoopLeaves, TypesByKind DEF OpenCodeInv, Processes
  <2>2. LogFlags'
    BY LoopLeaves, TypesByKind, Zenon DEF OpenCodeInv, LogFlags
  <2>3. Places'
    BY LoopLeaves, LoopMoves, TypesByKind DEF OpenCodeInv, Places
  <2>4. RunFlags'
    <3>1. prompted' \in BOOLEAN /\ abandoned' \in BOOLEAN /\ serena' \in BOOLEAN
      BY LoopLeaves, TypesByKind, Zenon DEF OpenCodeInv, RunFlags
    <3>2. acpStopped' = acpStopped \/ acpStopped' = SessionCompleted
      BY DEF AbortOnSerena, LoopStep, AbortOnCancel, Reap, ReadAcp, ProcessEndsInGrace, ForceKill,
             ReadWatchdog, AcpEndsInGrace, AcpGraceEnds, CheckOutcome, Abort
    <3>3. SessionCompleted \in BOOLEAN
      BY TypesByKind DEF OpenCodeInv, SessionCompleted, LogFlags
    <3>4. acpStopped' \in BOOLEAN
      BY <3>2, <3>3, TypesByKind, Zenon DEF OpenCodeInv, RunFlags
    <3>5. forced' \in {forced, TRUE}
      BY DEF AbortOnSerena, LoopStep, AbortOnCancel, Reap, ReadAcp, ProcessEndsInGrace, ForceKill,
             ReadWatchdog, AcpEndsInGrace, AcpGraceEnds, CheckOutcome, Abort
    <3>6. forced' \in BOOLEAN
      BY <3>5, TypesByKind DEF OpenCodeInv, RunFlags
    <3> QED BY <3>1, <3>4, <3>6 DEF RunFlags
  <2> QED BY <2>1, <2>2, <2>3, <2>4, KindsMakeTypes
<1>2. ExitInv'
  <2>1. Ended => Ended'
    BY LoopLeaves DEF Ended
  <2>2. WatchDone' = WatchDone /\ Collected' = Collected
    BY LoopLeaves DEF WatchDone, Collected
  <2>3. loop' \in {"acp grace", "exit grace", "check", "returned"} => WatchDone
    BY LoopMoves
  <2> QED BY <2>1, <2>2, <2>3 DEF OpenCodeInv, ExitInv
<1>3. ClockInv'
  BY LoopLeaves DEF OpenCodeInv, ClockInv, Ended
<1>4. PromptInv'
  <2>1. /\ loop' = "acp grace" => prompted
        /\ loop' \in {"process grace", "reap", "check", "returned"} /\ runErr' = "none" => prompted
        /\ outcome' = "completed" /\ outcome # "completed" => runErr = "none" /\ loop = "check"
    BY LoopMoves
  <2>2. acp' = acp /\ idle' = idle /\ watch' = watch /\ stall' = stall /\ prompted' = prompted
    BY LoopLeaves
  <2> QED BY <2>1, <2>2 DEF OpenCodeInv, PromptInv
<1> QED BY <1>1, <1>2, <1>3, <1>4 DEF OpenCodeInv

LEMMA OpenCodeGoesOn == OpenCodeInv /\ [OpenCodeNext]_openCodeVars => OpenCodeInv'
<1> SUFFICES ASSUME OpenCodeInv, UNCHANGED openCodeVars PROVE OpenCodeInv'
  BY ProcessKeeps, WatchdogKeeps, ClientKeeps, LoopKeeps DEF OpenCodeNext
<1>1. UNCHANGED clientVars /\ UNCHANGED watchdogVars
  BY DEF openCodeVars
<1>2. OpenCodeTypeOK'
  <2>1. Processes'
    BY <1>1, TypesByKind DEF OpenCodeInv, Processes, watchdogVars
  <2>2. LogFlags'
    BY <1>1, TypesByKind, Zenon DEF OpenCodeInv, LogFlags, watchdogVars
  <2> QED BY <1>1, <2>1, <2>2, RestOfRun, KindsMakeTypes DEF OpenCodeInv
<1>3. ExitInv' /\ ClockInv'
  BY <1>1 DEF OpenCodeInv, ExitInv, ClockInv, Collected, WatchDone, Ended, watchdogVars, clientVars
<1>4. PromptInv'
  BY <1>1 DEF OpenCodeInv, PromptInv, watchdogVars, clientVars, acpVars
<1> QED BY <1>2, <1>3, <1>4 DEF OpenCodeInv

-------------------------------------------------------------------------------
(* The session run.                                                                *)

\* Where the adapter is says whether there is an agent; one that was reaped is gone.
AgentInPlace ==
    /\ at = "start" => agent = "none"
    /\ reaped => agent \in {"exited", "killed"}
    /\ at = "returned" => ~Alive

\* A run without an error was told of a success.
WordInv ==
    /\ read = "success" => said = "success"
    /\ at \in {"teardown", "stopping", "reaping", "returned"} /\ error = "none" => said = "success"
    /\ result = "completed" => said = "success"

SessionInv == SessionTypeOK /\ AgentInPlace /\ WordInv

\* The type invariant by kinds of variables.
SessionFlags == reaped \in BOOLEAN /\ force \in BOOLEAN
SessionWords ==
    /\ agent \in {"none", "running", "exited", "killed"}
    /\ said \in {"nothing", "success", "failure"}
    /\ read \in {"nothing", "success", "failure", "no result"}
    /\ ended \in {"no", "deadline", "cancelled"}
    /\ at \in {"start", "ready", "execute", "teardown", "stopping", "reaping", "returned"}
    /\ error \in {"none", "failed", "deadline", "cancelled"}
    /\ result \in {"none", "completed", "blocked", "failed"}

LEMMA SessionByKind == SessionTypeOK <=> SessionFlags /\ SessionWords
BY DEF SessionTypeOK, SessionFlags, SessionWords

LEMMA SessionFromKinds ==
  ASSUME SessionFlags', SessionWords', AgentInPlace', WordInv'
  PROVE  SessionInv'
BY DEF SessionInv, SessionTypeOK, SessionFlags, SessionWords

LEMMA SessionStarts == SessionInit => SessionInv
BY DEF SessionInit, SessionInv, SessionTypeOK, AgentInPlace, WordInv, Alive

\* A run's error is none of its context's only if it had none.
LEMMA FinalizedIsError ==
  ASSUME ended \in {"no", "deadline", "cancelled"},
         NEW err \in {"none", "failed", "deadline", "cancelled"}
  PROVE  /\ Finalized(err) \in {"none", "failed", "deadline", "cancelled"}
         /\ Finalized(err) = "none" => err = "none"
BY DEF Finalized

\* What returns a run: its status is that of an error.
LEMMA StatusIsResult ==
  ASSUME NEW err \in {"none", "failed", "deadline", "cancelled"}
  PROVE  Status(err) \in {"completed", "blocked", "failed"} /\ (Status(err) = "completed" => err = "none")
BY DEF Status

LEMMA WordsStay ==
  ASSUME SessionWords, UNCHANGED <<agent, said, read, ended, at, error, result>>
  PROVE  SessionWords'
<1>1. /\ agent' \in {"none", "running", "exited", "killed"}
      /\ said' \in {"nothing", "success", "failure"}
      /\ read' \in {"nothing", "success", "failure", "no result"}
  BY DEF SessionWords
<1>2. /\ ended' \in {"no", "deadline", "cancelled"}
      /\ at' \in {"start", "ready", "execute", "teardown", "stopping", "reaping", "returned"}
  BY DEF SessionWords
<1>3. /\ error' \in {"none", "failed", "deadline", "cancelled"}
      /\ result' \in {"none", "completed", "blocked", "failed"}
  BY DEF SessionWords
<1> QED BY <1>1, <1>2, <1>3 DEF SessionWords

LEMMA AgentKeeps ==
  ASSUME SessionInv,
         \/ \E word \in {"success", "failure"} : AgentSays(word)
         \/ AgentExits \/ ReapAgent \/ KillByContext
         \/ \E how \in {"deadline", "cancelled"} : EndContext(how)
         \/ UNCHANGED sessionVars
  PROVE  SessionInv'
<1>1. SessionFlags /\ SessionWords /\ AgentInPlace /\ WordInv
  BY SessionByKind DEF SessionInv
<1>2. SessionFlags'
  <2>1. reaped' \in {reaped, TRUE} /\ force' = force
    BY DEF AgentSays, AgentExits, ReapAgent, EndContext, KillByContext, sessionVars
  <2>2. reaped' \in BOOLEAN
    BY <1>1, <2>1 DEF SessionFlags
  <2>3. force' \in BOOLEAN
    BY <1>1, <2>1, Zenon DEF SessionFlags
  <2> QED BY <2>2, <2>3 DEF SessionFlags
<1>3. ASSUME NEW word \in {"success", "failure"}, AgentSays(word) PROVE SessionInv'
  <2>1. SessionWords' /\ AgentInPlace' /\ WordInv'
    <3>1. SessionWords'
      BY ZenonT(30), <1>1, <1>3 DEF AgentSays, SessionWords
    <3>2. AgentInPlace'
      BY <1>1, <1>3 DEF AgentSays, SessionWords, AgentInPlace, Alive
    <3>3. WordInv'
      BY <1>1, <1>3 DEF AgentSays, WordInv
    <3> QED BY <3>1, <3>2, <3>3
  <2> QED BY <1>2, <2>1, SessionFromKinds
<1>4. CASE AgentExits
  <2>1. SessionWords' /\ AgentInPlace' /\ WordInv'
    <3>1. SessionWords'
      BY ZenonT(30), <1>1, <1>4 DEF AgentExits, SessionWords
    <3>2. AgentInPlace'
      BY <1>1, <1>4 DEF AgentExits, SessionWords, AgentInPlace, Alive
    <3>3. WordInv'
      BY <1>1, <1>4 DEF AgentExits, WordInv
    <3> QED BY <3>1, <3>2, <3>3
  <2> QED BY <1>2, <2>1, SessionFromKinds
<1>5. CASE ReapAgent
  <2>1. /\ agent \in {"exited", "killed"}
        /\ UNCHANGED <<agent, said, read, ended, at, error, result>>
    BY <1>5 DEF ReapAgent
  <2>2. SessionWords' /\ AgentInPlace' /\ WordInv'
    <3>1. SessionWords'
      BY <1>1, <2>1, WordsStay
    <3>2. AgentInPlace'
      BY <1>1, <2>1 DEF SessionWords, AgentInPlace, Alive
    <3>3. WordInv'
      BY <1>1, <2>1 DEF WordInv
    <3> QED BY <3>1, <3>2, <3>3
  <2> QED BY <1>2, <2>2, SessionFromKinds
<1>6. CASE KillByContext \/ \E how \in {"deadline", "cancelled"} : EndContext(how)
  <2>1. /\ agent' = agent \/ (agent = "running" /\ agent' = "killed")
        /\ ended' = ended \/ ended' \in {"deadline", "cancelled"}
        /\ UNCHANGED <<reaped, said, read, at, error, result>>
    BY <1>6 DEF EndContext, KillByContext, Alive
  <2>2. SessionWords' /\ AgentInPlace' /\ WordInv'
    <3>1. SessionWords'
      <4>1. agent' \in {"none", "running", "exited", "killed"}
        BY <1>1, <2>1 DEF SessionWords
      <4>2. ended' \in {"no", "deadline", "cancelled"}
        BY <1>1, <2>1 DEF SessionWords
      <4>3. UNCHANGED <<said, read, at>> /\ UNCHANGED <<error, result>>
        BY <2>1
      <4> QED BY <1>1, <4>1, <4>2, <4>3, Zenon DEF SessionWords
    <3>2. AgentInPlace'
      BY <1>1, <2>1 DEF SessionWords, AgentInPlace, Alive
    <3>3. WordInv'
      BY <1>1, <2>1 DEF WordInv
    <3> QED BY <3>1, <3>2, <3>3
  <2> QED BY <1>2, <2>2, SessionFromKinds
<1>7. CASE UNCHANGED sessionVars
  <2>1. SessionWords' /\ AgentInPlace' /\ WordInv'
    <3>1. SessionWords'
      BY <1>1, <1>7, WordsStay DEF sessionVars
    <3>2. AgentInPlace'
      BY <1>1, <1>7 DEF sessionVars, SessionWords, AgentInPlace, Alive
    <3>3. WordInv'
      BY <1>1, <1>7 DEF sessionVars, WordInv
    <3> QED BY <3>1, <3>2, <3>3
  <2> QED BY <1>2, <2>1, SessionFromKinds
<1> QED BY <1>3, <1>4, <1>5, <1>6, <1>7

LEMMA StartKeeps ==
  ASSUME SessionInv, StartSession \/ ServeReady \/ StdinReady \/ AppServerReady
  PROVE  SessionInv'
<1> USE SessionByKind
<1>1. CASE StartSession
  <2>1. SessionWords' /\ AgentInPlace' /\ WordInv'
    BY <1>1 DEF StartSession, ReturnRun, Status, SessionInv, SessionWords, AgentInPlace, WordInv, Alive
  <2>2. SessionFlags'
    BY <1>1, Zenon DEF StartSession, SessionInv, SessionFlags
  <2> QED BY <2>1, <2>2, SessionFromKinds
<1>2. ASSUME at = "ready", Ready PROVE SessionInv'
  <2>1. SessionWords' /\ AgentInPlace' /\ WordInv'
    <3>1. at' = "execute" /\ UNCHANGED <<agent, reaped, said, read, ended, error, result>>
      BY <1>2 DEF Ready
    <3>2. SessionWords'
      BY <3>1 DEF SessionInv, SessionWords
    <3>3. AgentInPlace' /\ WordInv'
      BY <3>1 DEF SessionInv, AgentInPlace, WordInv, Alive
    <3> QED BY <3>2, <3>3
  <2>2. SessionFlags'
    BY <1>2, Zenon DEF Ready, SessionInv, SessionFlags
  <2> QED BY <2>1, <2>2, SessionFromKinds
<1>3. ASSUME at = "ready", NEW err \in {"failed", "deadline", "cancelled"}, NotReady(err)
      PROVE  SessionInv'
  <2>1. SessionWords' /\ AgentInPlace' /\ WordInv'
    BY <1>3 DEF NotReady, SessionInv, SessionWords, AgentInPlace, WordInv, Alive
  <2>2. force' = TRUE /\ reaped' = reaped
    BY <1>3 DEF NotReady
  <2>3. SessionFlags'
    BY <2>2, Zenon DEF SessionInv, SessionFlags
  <2> QED BY <2>1, <2>3, SessionFromKinds
<1>4. ended # "no" => Finalized(ended) \in {"failed", "deadline", "cancelled"}
  BY DEF Finalized, SessionInv, SessionWords
<1>5. Finalized("failed") \in {"failed", "deadline", "cancelled"}
  BY DEF Finalized, SessionInv, SessionWords
<1>6. ended # "no" => ended \in {"failed", "deadline", "cancelled"}
  BY DEF SessionInv, SessionWords
<1>7. CASE ServeReady
  BY <1>2, <1>3, <1>6, <1>7 DEF ServeReady
<1>8. CASE StdinReady
  BY <1>2, <1>3, <1>6, <1>8 DEF StdinReady
<1>9. CASE AppServerReady
  BY <1>2, <1>3, <1>4, <1>5, <1>9 DEF AppServerReady
<1> QED BY <1>1, <1>7, <1>8, <1>9

LEMMA ExecutedKeeps ==
  ASSUME SessionInv, NEW err \in {"none", "failed", "deadline", "cancelled"}, Executed(err),
         err = "none" => said = "success"
  PROVE  SessionInv'
<1>1. PICK final : final = Finalized(err)
  OBVIOUS
<1>2. final \in {"none", "failed", "deadline", "cancelled"} /\ (final = "none" => said = "success")
  BY <1>1, FinalizedIsError DEF SessionInv, SessionTypeOK
<1>3. /\ at = "execute" /\ at' = "teardown" /\ error' = final /\ force' \in BOOLEAN
      /\ UNCHANGED <<backend, agent, reaped, said, read, ended, result>>
  BY <1>1 DEF Executed
<1>4. SessionWords' /\ AgentInPlace' /\ WordInv'
  BY ZenonT(30), <1>2, <1>3, SessionByKind DEF SessionInv, SessionWords, AgentInPlace, WordInv, Alive
<1>5. reaped' \in BOOLEAN
  BY <1>3, SessionByKind, Zenon DEF SessionInv, SessionFlags
<1>6. SessionFlags'
  BY <1>3, <1>5 DEF SessionFlags
<1> QED BY <1>4, <1>6, SessionFromKinds

LEMMA ExecuteKeeps ==
  ASSUME SessionInv, ServeExecute \/ ScanResult \/ StdinExecute \/ AppServerExecute \/ AppServerRefuses
  PROVE  SessionInv'
<1>1. ended # "no" => ended \in {"deadline", "cancelled"}
  BY DEF SessionInv, SessionTypeOK
<1>2. ASSUME Executed("none"), said = "success" PROVE SessionInv'
  BY <1>2, ExecutedKeeps
<1>3. ASSUME Executed("failed") PROVE SessionInv'
  BY <1>3, ExecutedKeeps
<1>4. ASSUME ended # "no", Executed(ended) PROVE SessionInv'
  BY <1>1, <1>4, ExecutedKeeps
<1>5. CASE ServeExecute
  BY <1>2, <1>3, <1>4, <1>5 DEF ServeExecute
<1>6. CASE ScanResult
  <2>1. SessionWords' /\ AgentInPlace' /\ WordInv'
    BY <1>6, SessionByKind DEF ScanResult, SessionInv, SessionWords, AgentInPlace, WordInv, Alive
  <2>2. SessionFlags'
    BY <1>6, SessionByKind, Zenon DEF ScanResult, SessionInv, SessionFlags
  <2> QED BY <2>1, <2>2, SessionFromKinds
<1>7. CASE StdinExecute
  <2>1. read = "success" => said = "success"
    BY DEF SessionInv, WordInv
  <2> QED BY <1>2, <1>3, <1>4, <1>7, <2>1 DEF StdinExecute
<1>8. CASE AppServerExecute
  BY <1>2, <1>3, <1>4, <1>8 DEF AppServerExecute
<1>9. CASE AppServerRefuses
  BY <1>3, <1>9 DEF AppServerRefuses
<1> QED BY <1>5, <1>6, <1>7, <1>8, <1>9

LEMMA TeardownKeeps ==
  ASSUME SessionInv, BeginTeardown \/ StopTimesOut \/ Stopped
  PROVE  SessionInv'
<1>1. /\ at \in {"teardown", "stopping", "reaping"} /\ at' \in {"stopping", "reaping", "returned"}
      /\ reaped' = reaped /\ said' = said /\ read' = read /\ ended' = ended /\ force' = force
      /\ error' = error
  BY DEF BeginTeardown, StopTimesOut, Stopped, ReturnRun
<1>2. \/ at' # "returned" /\ result' = result
      \/ at' = "returned" /\ result' = Status(error)
  BY DEF BeginTeardown, StopTimesOut, Stopped, ReturnRun
<1>3. /\ agent' \in {agent, "killed"}
      /\ at' = "returned" => agent' # "running"
  BY DEF BeginTeardown, StopTimesOut, Stopped, ReturnRun, Alive, SessionInv, AgentInPlace
<1>4. SessionTypeOK'
  <2>1. result' \in {"none", "completed", "blocked", "failed"}
    BY <1>2, StatusIsResult DEF SessionInv, SessionTypeOK
  <2>2. agent' \in {"none", "running", "exited", "killed"}
    BY <1>3 DEF SessionInv, SessionTypeOK
  <2> QED BY <1>1, <2>1, <2>2 DEF SessionInv, SessionTypeOK
<1>5. AgentInPlace'
  BY <1>1, <1>3 DEF SessionInv, AgentInPlace, Alive
<1>6. error \in {"none", "failed", "deadline", "cancelled"}
  BY DEF SessionInv, SessionTypeOK
<1>7. WordInv'
  BY <1>1, <1>2, <1>6, StatusIsResult DEF SessionInv, WordInv
<1> QED BY <1>4, <1>5, <1>7 DEF SessionInv

LEMMA SessionGoesOn == SessionInv /\ [SessionNext]_sessionVars => SessionInv'
BY AgentKeeps, StartKeeps, ExecuteKeeps, TeardownKeeps DEF SessionNext, AdapterStep

-------------------------------------------------------------------------------
(* The process supervisor.                                                         *)

\* What was waited for was collected; what had no error got ready; what has returned stays.
SupervisorInv ==
    /\ waitDone => collected
    /\ collected => ~Running
    /\ supervisor = "returned" => waitDone
    /\ supervisor = "run" => probe = "ready"
    /\ supervisor \in {"shutdown", "killed", "returned"} /\ ~runError => probe = "ready"
    /\ supervised # "none" => supervisor = "returned"
    /\ OkIsCleanExit

LEMMA SupervisorStarts == SupervisorInit => SupervisorInv
BY DEF SupervisorInit, SupervisorInv, Running, OkIsCleanExit

LEMMA SupervisorGoesOn == SupervisorInv /\ [SupervisorNext]_supervisorVars => SupervisorInv'
<1> SUFFICES ASSUME SupervisorInv, [SupervisorNext]_supervisorVars PROVE SupervisorInv'
  OBVIOUS
<1> USE DEF SupervisorInv, Running, OkIsCleanExit
<1>1. ASSUME NEW how \in {"exited", "crashed"}, ChildExits(how) PROVE SupervisorInv'
  BY <1>1 DEF ChildExits
<1>2. CASE CollectChild
  BY <1>2 DEF CollectChild
<1>3. CASE EndRunContext
  BY <1>3 DEF EndRunContext
<1>4. CASE ProbeEnds
  BY <1>4 DEF ProbeEnds
<1>5. CASE AwaitReadiness
  BY <1>5 DEF AwaitReadiness
<1>6. CASE RunManaged
  <2>1. probe = "ready"
    BY <1>6 DEF RunManaged
  <2> QED BY <1>6, <2>1 DEF RunManaged
<1>7. CASE SendStop
  BY <1>7 DEF SendStop
<1>8. CASE ReadWait
  BY <1>8 DEF ReadWait
<1>9. CASE KillAfterGrace
  BY <1>9 DEF KillAfterGrace
<1>10. CASE ReturnSupervised
  BY <1>10 DEF ReturnSupervised
<1>11. CASE UNCHANGED supervisorVars
  BY <1>11 DEF supervisorVars
<1> QED
  BY <1>1, <1>2, <1>3, <1>4, <1>5, <1>6, <1>7, <1>8, <1>9, <1>10, <1>11
     DEF SupervisorNext, SupervisorStep

-------------------------------------------------------------------------------
(* The first thought.                                                              *)

\* What was observed was accepted, and a watch that is over has its reason.
ThoughtInv ==
    /\ accepted \in Nat
    /\ observed \/ sla = "met" => accepted > 0
    /\ ThoughtOrRecord

LEMMA ThoughtStarts == ThoughtInit => ThoughtInv
BY DEF ThoughtInit, ThoughtInv, ThoughtOrRecord

LEMMA ThoughtGoesOn == ThoughtInv /\ [ThoughtNext]_thoughtVars => ThoughtInv'
<1> SUFFICES ASSUME ThoughtInv, [ThoughtNext]_thoughtVars PROVE ThoughtInv'
  OBVIOUS
<1> USE DEF ThoughtInv, ThoughtOrRecord
<1>1. CASE CreatedPosts
  BY <1>1 DEF CreatedPosts, Post
<1>2. CASE CreatedEnds
  BY <1>2 DEF CreatedEnds
<1>3. CASE TimerFires
  BY <1>3 DEF TimerFires
<1>4. CASE EndEventContext
  BY <1>4 DEF EndEventContext
<1>5. CASE AwaitFirst
  BY <1>5 DEF AwaitFirst
<1>6. CASE PostFallback
  BY <1>6 DEF PostFallback, Post
<1>7. CASE RecordError
  BY <1>7 DEF RecordError
<1>8. CASE FinishEvent
  BY <1>8 DEF FinishEvent
<1>9. CASE UNCHANGED thoughtVars
  BY <1>9 DEF thoughtVars
<1> QED
  BY <1>1, <1>2, <1>3, <1>4, <1>5, <1>6, <1>7, <1>8, <1>9 DEF ThoughtNext, WatchStep

-------------------------------------------------------------------------------
(* The runner's monitor.                                                           *)

\* The warnings on their way.
OnTheWay == IF monitor \in {"heartbeat", "warning"} /\ warns THEN 1 ELSE 0

\* Before this silence is warned of, one warning at most has been or will be sent in it: that of
\* the silence before.
MonitorInv ==
    /\ warnings \in Nat /\ quiet \in Nat
    /\ warned \in BOOLEAN /\ warns \in BOOLEAN
    /\ monitor = "warning" => warns
    /\ warnings + OnTheWay <= 2 /\ (~warned => warnings + OnTheWay <= 1)

LEMMA MonitorStarts == MonitorInit => MonitorInv
<1> SUFFICES ASSUME MonitorInit PROVE MonitorInv
  OBVIOUS
<1>1. warnings = 0 /\ quiet = 0 /\ monitor = "waiting" /\ OnTheWay = 0
  BY DEF MonitorInit, OnTheWay
<1>2. warned \in BOOLEAN /\ warns \in BOOLEAN
  BY DEF MonitorInit
<1> QED BY <1>1, <1>2 DEF MonitorInv

LEMMA MonitorGoesOn == MonitorInv /\ [MonitorNext]_monitorVars => MonitorInv'
<1> SUFFICES ASSUME MonitorInv, [MonitorNext]_monitorVars PROVE MonitorInv'
  OBVIOUS
<1>1. OnTheWay \in {0, 1} /\ warnings \in Nat /\ quiet \in Nat
  BY DEF MonitorInv, OnTheWay
<1>2. CASE PassHeartbeat
  BY <1>2 DEF PassHeartbeat, MonitorInv, OnTheWay
<1>3. CASE Progress
  <2>1. monitor' = monitor /\ warns' = warns /\ warned' = FALSE /\ quiet' = 0 /\ warnings' = 0
    BY <1>3 DEF Progress
  <2>2. OnTheWay' = OnTheWay
    BY <2>1 DEF OnTheWay
  <2>3. warned' \in BOOLEAN /\ warns' \in BOOLEAN /\ (monitor' = "warning" => warns')
    BY <2>1 DEF MonitorInv
  <2> QED BY <1>1, <2>1, <2>2, <2>3 DEF MonitorInv
<1>4. CASE ReturnRunner \/ Dismiss
  BY <1>4 DEF ReturnRunner, Dismiss, MonitorInv, OnTheWay
<1>5. CASE TakeTick
  <2>1. /\ monitor = "waiting" /\ monitor' = "heartbeat" /\ quiet' = quiet /\ warnings' = warnings
        /\ warns' = (quiet >= WarnAfter /\ ~warned)
        /\ warned' = (warned \/ quiet >= WarnAfter)
    BY <1>5 DEF TakeTick
  <2>2. warned' \in BOOLEAN /\ warns' \in BOOLEAN
    BY <2>1
  <2>3. OnTheWay = 0
    BY <2>1 DEF OnTheWay
  <2>4. (warns' => warned' /\ ~warned) /\ (~warned' => ~warned)
    BY <2>1
  <2>5. OnTheWay' = IF warns' THEN 1 ELSE 0
    BY <2>1 DEF OnTheWay
  <2>6. warnings <= 2 /\ (~warned => warnings <= 1)
    BY <1>1, <2>3 DEF MonitorInv
  <2>7. warnings' + OnTheWay' <= 2
    <3>1. CASE warns'
      <4>1. warnings' <= 1 /\ OnTheWay' = 1
        BY <2>1, <2>4, <2>5, <2>6, <3>1
      <4> QED BY <1>1, <2>1, <4>1
    <3>2. CASE ~warns'
      <4>1. warnings' <= 2 /\ OnTheWay' = 0
        BY <2>1, <2>5, <2>6, <3>2
      <4> QED BY <1>1, <2>1, <4>1
    <3> QED BY <3>1, <3>2
  <2>8. ~warned' => warnings' + OnTheWay' <= 1
    <3> SUFFICES ASSUME ~warned' PROVE warnings' + OnTheWay' <= 1
      OBVIOUS
    <3>1. warnings' <= 1 /\ OnTheWay' = 0
      BY <2>1, <2>4, <2>5, <2>6
    <3> QED BY <1>1, <2>1, <3>1
  <2> QED BY <1>1, <2>1, <2>2, <2>7, <2>8 DEF MonitorInv
<1>6. CASE SendHeartbeat
  BY <1>6 DEF SendHeartbeat, MonitorInv, OnTheWay
<1>7. CASE SendWarning
  BY <1>7 DEF SendWarning, MonitorInv, OnTheWay
<1>8. CASE SeeDismissal
  BY <1>8 DEF SeeDismissal, MonitorInv, OnTheWay
<1>9. CASE UNCHANGED monitorVars
  BY <1>9 DEF monitorVars, MonitorInv, OnTheWay
<1> QED
  BY <1>2, <1>3, <1>4, <1>5, <1>6, <1>7, <1>8, <1>9 DEF MonitorNext, MonitorGoroutine

LEMMA MonitorSays == MonitorInv => WarnedOncePerSilence
BY DEF MonitorInv, WarnedOncePerSilence, OnTheWay

-------------------------------------------------------------------------------
(* All parts together: each moves by itself.                                       *)

AgentInv ==
    /\ WatchInv /\ PipelineInv /\ OpenCodeInv /\ SessionInv /\ SupervisorInv /\ ThoughtInv
    /\ MonitorInv

LEMMA AgentInvariant == AgentSpec => []AgentInv
<1>1. AgentInit => AgentInv
  BY WatchStarts, PipelineStarts, OpenCodeStarts, SessionStarts, SupervisorStarts, ThoughtStarts,
     MonitorStarts
     DEF AgentInit, AgentInv
<1>2. AgentNext => /\ [WatchNext]_watchVars /\ [PipelineNext]_pipelineVars
                   /\ [OpenCodeNext]_openCodeVars /\ [SessionNext]_sessionVars
                   /\ [SupervisorNext]_supervisorVars /\ [ThoughtNext]_thoughtVars
                   /\ [MonitorNext]_monitorVars
  BY DEF AgentNext, OnlyPipeline, OnlyWatcher, OnlyOpenCode, OnlySession, OnlySupervisor,
         OnlyThought, OnlyMonitor
<1>3. UNCHANGED agentVars => /\ UNCHANGED watchVars /\ UNCHANGED pipelineVars
                             /\ UNCHANGED openCodeVars /\ UNCHANGED sessionVars
                             /\ UNCHANGED supervisorVars /\ UNCHANGED thoughtVars
                             /\ UNCHANGED monitorVars
  BY DEF agentVars
<1>4. AgentInv /\ [AgentNext]_agentVars => AgentInv'
  BY <1>2, <1>3, WatchGoesOn, PipelineGoesOn, OpenCodeGoesOn, SessionGoesOn, SupervisorGoesOn,
     ThoughtGoesOn, MonitorGoesOn
     DEF AgentInv
<1> QED BY <1>1, <1>4, PTL DEF AgentSpec

\* Pipeline, OpenCode run and session run keep their shape.
THEOREM AgentsTypeCorrect == AgentSpec => []AgentTypeOK
<1>1. AgentInv => AgentTypeOK
  BY DEF AgentInv, PipelineInv, OpenCodeInv, SessionInv, AgentTypeOK
<1> QED BY <1>1, AgentInvariant, PTL

\* A stage is tried as often as its budget says, no more and, before it fails, no less, over any
\* accepted configuration, also one that leads back.
THEOREM BudgetsKept == AgentSpec => []BudgetIsKept
<1>1. AgentInv => BudgetIsKept
  BY DEF AgentInv, PipelineInv, BudgetInv, FailureInv, BudgetIsKept
<1> QED BY <1>1, AgentInvariant, PTL

\* When a poll has nothing to say, the callback knows what the file holds, but for one that was
\* unreadable in between.
THEOREM WatcherKnows == AgentSpec => []WatcherIsCurrent
<1>1. AgentInv => WatcherIsCurrent
  BY WatchSays DEF AgentInv
<1> QED BY <1>1, AgentInvariant, PTL

\* What is reported as done was done, whatever exits, stalls or is cancelled first: the prompt
\* ended, the agent said so, the process ended well, the thought was accepted.
THEOREM SuccessesAreEarned == AgentSpec => []SuccessIsEarned
<1>1. AgentInv => SuccessIsEarned
  BY DEF AgentInv, OpenCodeInv, PromptInv, SessionInv, WordInv, SupervisorInv, ThoughtInv,
         SuccessIsEarned, CompletedWasPrompted, CompletedIsSaid
<1> QED BY <1>1, AgentInvariant, PTL

\* A process killed for its silence was silent, or has written only since the last look; and a
\* silence of the runner is warned of once.
THEOREM SilencesAreReal == AgentSpec => []SilenceIsReal
<1>1. OpenCodeInv => SilentIsSilent
  BY DEF OpenCodeInv, ClockInv, SilentIsSilent
<1>2. AgentInv => SilenceIsReal
  BY <1>1, MonitorSays DEF AgentInv, SilenceIsReal
<1> QED BY <1>2, AgentInvariant, PTL

\* A run that has returned, however it ended, leaves no process behind.
THEOREM NothingStays == AgentSpec => []NothingLeft
<1>1. OpenCodeInv => NoProcessLeft
  BY DEF OpenCodeInv, ExitInv, NoProcessLeft
<1>2. SessionInv => NoAgentLeft
  BY DEF SessionInv, AgentInPlace, NoAgentLeft
<1>3. SupervisorInv => NoChildLeft
  BY DEF SupervisorInv, NoChildLeft
<1>4. AgentInv => NothingLeft
  BY <1>1, <1>2, <1>3 DEF AgentInv, NothingLeft
<1> QED BY <1>4, AgentInvariant, PTL
===============================================================================
